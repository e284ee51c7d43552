---------------------------- MODULE SnapshotProofs ----------------------------
(***************************************************************************)
(* What readers see, on top of the invariant PInv of PercolatorProofs: a   *)
(* value that was read at c stays what the key shows at c, because every   *)
(* transaction that still holds a lock there commits above c, if at all.   *)
(* A reader keeps to its start timestamp, or is a point get, which reads   *)
(* the latest version and has its own c for every key.                     *)
(***************************************************************************)
EXTENDS PercolatorProofs

\* Statements lock keys their transaction writes.
OwnLockSets == \A t \in Pessimistic : \A K \in LockSets[t] : K \subseteq Keys(t)

\* No point get reads the primary key of a pessimistic transaction.
PlainPointKeys ==
    \A r \in PointReader : \A t \in Pessimistic : PrimaryKey[t] \notin ReadKeys[r]

\* Locking requests are for keys their transaction writes.
OwnMsgs ==
    \A m \in msgs : m.type \in {"prewrite", "pessimisticLock"} => m.keys \subseteq Keys(m.txn)

\* A transaction locks only keys it writes.
OwnLock(k) == \A t \in Txn : StartOf(t) # 0 /\ HasLock(k, StartOf(t)) => k \in Keys(t)

\* The prewritten primary of u refuses commits at or below c.
Pushed(u, c) ==
    LET p == PrimaryKey[u] IN
    HasLock(p, StartOf(u)) /\ lock[p].op # "PessimisticLock" /\ lock[p].minCommitTS > c

\* If u commits at all, it commits above c.
Late(u, c) ==
    CommitAt(u) = 0 \/ CommitAt(u) > c \/ RolledBackOn(u, PrimaryKey[u]) \/ Pushed(u, c)

\* v is what key k shows at c, now and at any later time.
ReadAt(c, k, v) ==
    /\ v = Visible(write[k], c)
    /\ \A u \in Txn : StartOf(u) # 0 /\ HasLock(k, StartOf(u)) /\ lock[k].op # "Lock" => Late(u, c)

\* A snapshot reader: the transactions it may skip are late for its timestamp, and
\* so are those that hold locks on what it has read.
SnapshotOK(r) ==
    /\ reader[r].ts <= now /\ reader[r].acked = {}
    /\ \A t \in Txn : StartOf(t) # 0 /\ StartOf(t) \in reader[r].resolved => Late(t, reader[r].ts)
    /\ \A k \in ReadKeys[r] : reader[r].val[k] # Unread => ReadAt(reader[r].ts, k, reader[r].val[k])

\* c is late enough for what was acknowledged before the point get began.
FreshAt(r, k, c) ==
    /\ ReadAt(c, k, reader[r].val[k])
    /\ \A t \in reader[r].acked : k \in Keys(t) => CommitAt(t) <= c

\* A point get: it skips no transaction that was acknowledged before it began, and
\* what it read below no pessimistic primary lock is fresh.
PointOK(r) ==
    /\ reader[r].ts \in {0, MaxUint64}
    /\ \A t \in reader[r].acked : t \in Txn /\ St(t) = "committed" /\ StartOf(t) \notin reader[r].resolved
    /\ \A k \in ReadKeys[r] :
         reader[r].val[k] # Unread /\ (\A t \in Pessimistic : PrimaryKey[t] # k) =>
            \E c \in 0 .. now : FreshAt(r, k, c)

\* A reader that has not begun has read nothing.
ReaderOK(r) ==
    /\ reader[r].val = [k \in ReadKeys[r] |-> reader[r].val[k]]
    /\ reader[r].ts = 0 => reader[r].resolved = {} /\ \A k \in ReadKeys[r] : reader[r].val[k] = Unread
    /\ IF r \in Reader THEN SnapshotOK(r) ELSE PointOK(r)

\* The invariant of the readers, with what it needs to know of the locks.
RInv ==
    /\ OwnMsgs
    /\ \A k \in Key : OwnLock(k)
    /\ \A r \in AnyReader : ReaderOK(r)

-----------------------------------------------------------------------------
(* What a read sees. *)

\* The records a read at ts considers.
SeenAt(recs, ts) == {w \in recs : w.type \in {"Put", "Delete"} /\ w.commitTS <= ts}

\* The value of the newest of these records.
Newest(seen) ==
    IF \E w \in seen : w.type = "Put" /\ \A x \in seen : x.commitTS <= w.commitTS
    THEN (CHOOSE w \in seen : \A x \in seen : x.commitTS <= w.commitTS).startTS
    ELSE 0

\* A read depends on these records only.
LEMMA VisibleNewest ==
    ASSUME NEW recs, NEW ts
    PROVE  Visible(recs, ts) = Newest(SeenAt(recs, ts))
BY DEF Visible, Newest, SeenAt

\* Two reads that consider the same records see the same value.
LEMMA VisibleSame ==
    ASSUME NEW A, NEW B, NEW c, NEW d, SeenAt(A, c) = SeenAt(B, d)
    PROVE  Visible(A, c) = Visible(B, d)
BY VisibleNewest

\* The types of locks and records, and a primary's place.
LEMMA StoreTypes ==
    ASSUME PInv, NEW k \in Key
    PROVE  /\ lock[k] # NoLock => lock[k] \in LockRec /\ lock[k].minCommitTS \in Nat
                                  /\ lock[k].startTS \in Nat /\ lock[k].startTS \in TS
           /\ \A w \in write[k] : w.commitTS \in Nat /\ w.startTS \in Nat
           /\ \A u \in Txn : PrimaryKey[u] \in Key /\ PrimaryKey[u] \in Keys(u)
<1>1. /\ lock[k] \in LockRec \cup {NoLock} /\ write[k] \subseteq WriteRec
      /\ TS \subseteq Nat
  BY MaxTSAssumption DEF PInv, Typed, StoreTypeOK, TS
<1>2. \A u \in Txn : PrimaryKey[u] \in Key /\ PrimaryKey[u] \in Keys(u)
  BY PercolatorAssumption DEF Keys
<1> QED  BY <1>1, <1>2 DEF LockRec, WriteRec

\* No record is newer than the oracle's last timestamp.
LEMMA RecordsPast ==
    ASSUME PInv, NEW k \in Key, NEW w \in write[k]
    PROVE  w.commitTS <= now
<1>1. RecShape(k, w) /\ Oracle /\ Typed /\ now \in Nat
  BY MaxTSAssumption DEF PInv, KeyInv, Typed
<1>2. CASE k \in Loaded /\ w = InitialRec
  BY <1>1, <1>2 DEF InitialRec, Oracle
<1>3. CASE ~(k \in Loaded /\ w = InitialRec)
  <2>1. PICK t \in Txn : w.commitTS \in {StartOf(t), CommitAt(t)}
    BY <1>1, <1>3 DEF RecShape
  <2> QED  BY <1>1, <2>1 DEF Oracle
<1> QED  BY <1>2, <1>3

\* A key that a transaction writes is prewritten once its commit timestamp is taken.
LEMMA CommittingHeld ==
    ASSUME PInv, NEW t \in Txn, CommitAt(t) # 0, NEW k \in Keys(t)
    PROVE  Held(t, k) /\ StartOf(t) # 0 /\ k \in Key
<1> DEFINE a == [type |-> "prewrite", txn |-> t, keys |-> Keys(t) \cap In(RegionOf[k]), ts |-> 0]
<1>0. k \in Key /\ StartOf(t) # 0 /\ Prewritten(t)
  BY PercolatorAssumption DEF PInv, Keys, Oracle, CommitPrewritten
<1>1. a \in resps
  BY <1>0 DEF Prewritten, Regions
<1>2. RespOK(a) /\ a.type = "prewrite" /\ a.txn = t /\ k \in a.keys
  BY <1>0, <1>1 DEF PInv, In
<1> HIDE DEF a
<1> QED  BY <1>0, <1>2 DEF RespOK

\* A transaction that has no prewrite lock and no record on a key it writes has
\* not taken its commit timestamp.
LEMMA NotCommitting ==
    ASSUME PInv, NEW t \in Txn, NEW k \in Keys(t), Outcome(t, k) = {},
           ~HasLock(k, StartOf(t)) \/ lock[k].op = "PessimisticLock"
    PROVE  CommitAt(t) = 0
BY CommittingHeld DEF Held

\* A lock has one owner, and a start timestamp one transaction.
LEMMA OwnerOf ==
    ASSUME PInv, NEW k \in Key, lock[k] # NoLock
    PROVE  /\ \E u \in Txn : StartOf(u) # 0 /\ HasLock(k, StartOf(u))
           /\ \A u, t \in Txn : HasLock(k, StartOf(u)) /\ HasLock(k, StartOf(t)) => u = t
<1>1. LockShape(k) /\ Oracle /\ lock[k].startTS # 0
  <2>1. lock[k].startTS \in TS
    BY StoreTypes
  <2> QED  BY <2>1, MaxTSAssumption DEF PInv, KeyInv, TS
<1> QED  BY <1>1 DEF LockShape, HasLock, Oracle

-----------------------------------------------------------------------------
(* Once nothing can commit at or below c, nothing ever will. *)

\* A step that leaves the store alone: clients take fresh timestamps.
ClientFrame ==
    /\ UNCHANGED <<lock, write>>
    /\ \A u \in Txn :
         \/ /\ StartOf(u)' = StartOf(u)
            /\ CommitAt(u)' = CommitAt(u) \/ CommitAt(u)' > now
         \/ StartOf(u) = 0 /\ StartOf(u)' > now /\ CommitAt(u)' = CommitAt(u)

\* Commits of t follow its primary's and respect the minCommitTS stored there.
LEMMA CommitsLate ==
    ASSUME PInv, NEW t \in Txn, StoreStep(t), NEW k \in Key, KeyCommit(t, k),
           NEW c \in Nat, Late(t, c)
    PROVE  CommitAt(t) > c
<1> DEFINE p == PrimaryKey[t]
<1>0. /\ p \in Key /\ StartOf(t) # 0 /\ CommitAt(t) # 0 /\ CommitAt(t) \in Nat /\ txn' = txn
      /\ CommittedOn(t, p)' # {} /\ KeyStep(t, p) /\ Typed /\ Oracle /\ KeyInv(p)
      /\ StartOf(t)' = StartOf(t)
  BY StoreTypes, TxnTypes DEF PInv, StoreStep, KeyCommit, StartOf
<1>1. KeyInv(p)'
  BY <1>0, KeyStepKeeps
<1>2. ASSUME RolledBackOn(t, p)
      PROVE  FALSE
  <2>1. RolledBackOn(t, p)'
    BY <1>0, <1>2, StoreStepRecords DEF RolledBackOn
  <2> QED  BY <1>0, <1>1, <2>1 DEF KeyInv, RolledBackOn, CommittedOn, Outcome
<1>3. ASSUME Pushed(t, c)
      PROVE  CommitAt(t) > c
  <2>1. HasLock(p, StartOf(t)) /\ lock[p].minCommitTS > c /\ lock[p].minCommitTS \in Nat
    BY <1>0, <1>3, StoreTypes DEF Pushed, HasLock
  <2>2. Outcome(t, p) = {}
    BY <1>0, <2>1, LockedUnsettled
  <2>3. KeyCommit(t, p)
    BY <1>0, <2>2, StoreStepRecords DEF CommittedOn
  <2> QED  BY <1>0, <2>1, <2>3 DEF KeyCommit
<1> QED  BY <1>0, <1>2, <1>3 DEF Late

\* A step of the store lets nobody commit earlier.
LEMMA StoreStepLate ==
    ASSUME PInv, NEW t \in Txn, StoreStep(t), NEW u \in Txn, NEW c \in Nat, Late(u, c)
    PROVE  Late(u, c)'
<1> DEFINE p == PrimaryKey[u]
<1>0. p \in Key /\ txn' = txn /\ Oracle /\ KeyInv(p) /\ CommitAt(u) \in Nat
      /\ CommitAt(u)' = CommitAt(u) /\ StartOf(u)' = StartOf(u)
  BY TxnRecOf, TxnTypes DEF PInv, StoreStep, CommitAt, StartOf
<1>1. CASE CommitAt(u) = 0 \/ CommitAt(u) > c
  BY <1>0, <1>1 DEF Late
<1>2. CASE RolledBackOn(u, p)
  BY <1>0, <1>2, StoreStepRecords DEF Late, RolledBackOn
<1>3. CASE Pushed(u, c)
  <2>1. /\ HasLock(p, StartOf(u)) /\ lock[p].op # "PessimisticLock" /\ lock[p].minCommitTS > c
        /\ lock[p].minCommitTS \in Nat /\ StartOf(u) # 0
    BY <1>0, <1>3, StoreTypes DEF Pushed, HasLock, TS
  <2>2. Held(u, p) /\ Outcome(u, p) = {}
    BY <1>0, <2>1, LockedUnsettled DEF Held
  <2>3. /\ Held(u, p)'
        /\ HasLock(p, StartOf(u))' => lock'[p].minCommitTS >= lock[p].minCommitTS
    BY <1>0, <2>1, <2>2, StoreStepHeld
  <2>4. CASE HasLock(p, StartOf(u))' /\ lock'[p].op # "PessimisticLock"
    <3>1. lock'[p].minCommitTS \in Nat
      <4>1. KeyStep(t, p) /\ StartOf(t) # 0 /\ Typed
        BY <1>0 DEF StoreStep, PInv
      <4>2. lock'[p] \in LockRec \cup {NoLock}
        BY <1>0, <4>1, KeyStepKeeps
      <4> QED  BY <2>4, <4>2 DEF HasLock, LockRec
    <3>2. lock'[p].minCommitTS > c
      BY <2>1, <2>3, <2>4, <3>1
    <3>3. Pushed(u, c)'
      BY <2>4, <3>2 DEF Pushed
    <3> QED  BY <3>3 DEF Late
  <2>5. CASE Outcome(u, p)' # {}
    <3>1. PICK w \in Outcome(u, p)' : TRUE
      BY <2>5
    <3>2. CASE w.type = "Rollback"
      BY <3>1, <3>2 DEF Late, RolledBackOn
    <3>3. CASE w.type # "Rollback"
      <4>1. u = t /\ KeyCommit(t, p)
        BY <1>0, <2>2, <3>1, <3>3, StoreStepRecords
      <4>2. CommitAt(u) > c
        BY <1>0, <4>1, CommitsLate
      <4> QED  BY <1>0, <4>2 DEF Late
    <3> QED  BY <3>2, <3>3
  <2> QED  BY <2>3, <2>4, <2>5 DEF Held
<1> QED  BY <1>1, <1>2, <1>3 DEF Late

\* Nor does a step of a client: its commit timestamp is fresh.
LEMMA ClientFrameLate ==
    ASSUME PInv, ClientFrame, NEW u \in Txn, NEW c \in 0 .. now, Late(u, c), CommitAt(u)' \in Nat
    PROVE  Late(u, c)'
<1>0. now \in Nat /\ Oracle /\ UNCHANGED <<lock, write>>
  BY MaxTSAssumption DEF PInv, Typed, ClientFrame
<1>1. CASE CommitAt(u)' > now
  BY <1>0, <1>1 DEF Late
<1>2. CASE CommitAt(u)' = CommitAt(u) /\ StartOf(u)' = StartOf(u)
  <2>1. Pushed(u, c) => Pushed(u, c)'
    BY <1>0, <1>2 DEF Pushed, HasLock
  <2>2. RolledBackOn(u, PrimaryKey[u]) => RolledBackOn(u, PrimaryKey[u])'
    BY <1>0, <1>2 DEF RolledBackOn, Outcome, StartOf
  <2> QED  BY <1>2, <2>1, <2>2 DEF Late
<1>3. CASE StartOf(u) = 0 /\ CommitAt(u)' = CommitAt(u)
  BY <1>0, <1>3 DEF Late, Oracle
<1> QED  BY <1>1, <1>2, <1>3 DEF ClientFrame

-----------------------------------------------------------------------------
(* What was read at c stays what the key shows at c. *)

\* A step of the store adds no record that a read at c would see.
LEMMA StoreStepSeen ==
    ASSUME PInv, NEW t \in Txn, StoreStep(t), NEW k \in Key, NEW c \in Nat, NEW v,
           ReadAt(c, k, v)
    PROVE  SeenAt(write'[k], c) = SeenAt(write[k], c)
<1>0. Typed /\ Oracle /\ KeyInv(k) /\ StartOf(t) # 0 /\ KeyStep(t, k) /\ CommitAt(t) \in Nat
  BY TxnTypes DEF PInv, StoreStep
<1>1. /\ write[k] \subseteq write'[k]
      /\ \A w \in write'[k] : w \in write[k] \/ w.type = "Rollback"
                              \/ (w.commitTS = CommitAt(t) /\ KeyCommit(t, k))
  BY <1>0, KeyStepRecords
<1>2. ASSUME NEW w \in write'[k], w \notin write[k]
      PROVE  ~(w.type \in {"Put", "Delete"} /\ w.commitTS <= c)
  <2>1. CASE w.type = "Rollback"
    BY <2>1
  <2>2. CASE w.commitTS = CommitAt(t) /\ KeyCommit(t, k)
    <3>1. CASE lock[k].op = "Lock"
      <4>1. w = CommitRec(lock[k], CommitAt(t))
        BY <1>2, <2>2 DEF KeyCommit, PutValue
      <4>2. w.type = "Lock"
        BY <3>1, <4>1 DEF CommitRec
      <4> QED  BY <4>2
    <3>2. CASE lock[k].op # "Lock"
      <4>1. Late(t, c)
        BY <1>0, <2>2, <3>2 DEF ReadAt, KeyCommit
      <4>2. CommitAt(t) > c
        BY <2>2, <4>1, CommitsLate
      <4> QED  BY <1>0, <2>2, <4>2
    <3> QED  BY <3>1, <3>2
  <2> QED  BY <1>1, <1>2, <2>1, <2>2
<1> QED  BY <1>1, <1>2 DEF SeenAt

\* A lock that a step of the store takes or leaves on the key belongs to a
\* transaction that commits above c, if at all.
LEMMA StoreStepReadAt ==
    ASSUME PInv, OwnMsgs, NEW t \in Txn, StoreStep(t), NEW k \in Key, OwnLock(k),
           NEW c \in Nat, NEW v, ReadAt(c, k, v)
    PROVE  ReadAt(c, k, v)'
<1>0. /\ Oracle /\ KeyInv(k) /\ StartOf(t) # 0 /\ KeyStep(t, k) /\ txn' = txn
      /\ \A u \in Txn : StartOf(u)' = StartOf(u) /\ CommitAt(u)' = CommitAt(u)
  BY DEF PInv, StoreStep, StartOf, CommitAt
<1>1. v = Visible(write'[k], c)
  <2>1. v = Visible(write[k], c)
    BY DEF ReadAt
  <2> QED  BY <2>1, StoreStepSeen, VisibleSame
<1>2. ASSUME NEW u \in Txn, StartOf(u) # 0, HasLock(k, StartOf(u))', lock'[k].op # "Lock"
      PROVE  Late(u, c)'
  <2>0. lock'[k] # NoLock /\ lock'[k].startTS = StartOf(u)
    BY <1>0, <1>2 DEF HasLock
  <2>1. CASE lock'[k] = lock[k]
    <3>1. HasLock(k, StartOf(u)) /\ lock[k].op # "Lock"
      BY <1>2, <2>0, <2>1 DEF HasLock
    <3>2. Late(u, c)
      BY <1>2, <3>1 DEF ReadAt
    <3> QED  BY <3>2, StoreStepLate
  <2>2. CASE KeyLock(t, k)
    <3>1. u = t /\ Outcome(t, k) = {}
      BY <1>0, <1>2, <2>0, <2>2 DEF KeyLock, Oracle
    <3>2. CASE HasLock(k, StartOf(t)) /\ lock[k].op # "PessimisticLock"
      <4>1. lock[k].op # "Lock"
        BY <1>2, <2>2, <3>2 DEF KeyLock
      <4>2. Late(t, c)
        BY <1>0, <3>2, <4>1 DEF ReadAt
      <4> QED  BY <3>1, <4>2, StoreStepLate
    <3>3. CASE ~HasLock(k, StartOf(t)) \/ lock[k].op = "PessimisticLock"
      <4>1. k \in Keys(t)
        <5>1. CASE HasLock(k, StartOf(t))
          BY <1>0, <5>1 DEF OwnLock
        <5>2. CASE AskedFor(t, k)
          BY <5>2 DEF AskedFor, OwnMsgs
        <5> QED  BY <2>2, <5>1, <5>2 DEF KeyLock
      <4>2. CommitAt(t) = 0
        BY <3>1, <3>3, <4>1, NotCommitting
      <4> QED  BY <1>0, <3>1, <4>2 DEF Late
    <3> QED  BY <3>2, <3>3
  <2> QED  BY <1>0, <2>0, <2>1, <2>2
           DEF KeyStep, KeyIdle, KeyDrop, KeyRollback, KeyCommit
<1> QED  BY <1>0, <1>1, <1>2 DEF ReadAt

\* A step of a client changes nothing that was read.
LEMMA ClientFrameReadAt ==
    ASSUME PInv, PInv', ClientFrame, NEW k \in Key, NEW c \in 0 .. now, NEW v, ReadAt(c, k, v)
    PROVE  ReadAt(c, k, v)'
<1>0. /\ UNCHANGED <<lock, write>> /\ Oracle /\ now \in Nat
      /\ \A u \in Txn : StartOf(u) \in Nat /\ CommitAt(u)' \in Nat
  <2>1. Typed /\ Typed'
    BY DEF PInv
  <2>2. \A u \in Txn : StartOf(u) \in Nat /\ CommitAt(u)' \in Nat
    BY <2>1, MaxTSAssumption DEF Typed, StartOf, CommitAt
  <2> QED  BY <2>2, MaxTSAssumption DEF PInv, Typed, ClientFrame
<1>1. ASSUME NEW u \in Txn, StartOf(u)' # 0, HasLock(k, StartOf(u))', lock'[k].op # "Lock"
      PROVE  Late(u, c)'
  <2>1. CASE StartOf(u)' = StartOf(u)
    <3>1. Late(u, c)
      BY <1>0, <1>1, <2>1 DEF ReadAt, HasLock
    <3> QED  BY <1>0, <3>1, ClientFrameLate
  <2>2. CASE StartOf(u) = 0 /\ CommitAt(u)' = CommitAt(u)
    BY <1>0, <2>2 DEF Late, Oracle
  <2> QED  BY <2>1, <2>2 DEF ClientFrame
<1> QED  BY <1>0, <1>1 DEF ReadAt

-----------------------------------------------------------------------------
(* Every step is a step of the store or of a client. *)

\* Time does not run backwards, and a committed transaction stays as it is.
TimePasses ==
    /\ now <= now'
    /\ \A t \in Txn : St(t) = "committed" =>
          St(t)' = "committed" /\ CommitAt(t)' = CommitAt(t) /\ StartOf(t)' = StartOf(t)

\* What a client's step writes to its record.
LEMMA RecordFrame ==
    ASSUME PInv, NEW t \in Txn, NEW x, txn' = [txn EXCEPT ![t] = x],
           UNCHANGED <<lock, write>>, now <= now', St(t) # "committed",
           \/ /\ x.startTS = StartOf(t)
              /\ x.commitTS = CommitAt(t) \/ x.commitTS > now
           \/ StartOf(t) = 0 /\ x.startTS > now /\ x.commitTS = CommitAt(t)
    PROVE  ClientFrame /\ TimePasses
<1>1. txn'[t] = x /\ \A u \in Txn : u # t => txn'[u] = txn[u]
  BY DEF PInv, Typed
<1>2. ClientFrame
  BY <1>1 DEF ClientFrame, StartOf, CommitAt
<1>3. TimePasses
  BY <1>1 DEF TimePasses, StartOf, CommitAt, St
<1> QED  BY <1>2, <1>3

\* The steps of a client take timestamps from the oracle.
LEMMA ClientKinds ==
    ASSUME PInv, NEW t \in Txn,
           \/ Begin(t) \/ SendPrewrite(t) \/ SendCommit(t) \/ CommitAcked(t) \/ Abort(t)
           \/ \E K \in LockSets[t] : LockKeys(t, K)
    PROVE  ClientFrame /\ TimePasses
<1>0. /\ now \in Nat /\ now + 1 > now /\ now <= now /\ now <= now + 1
      /\ txn[t] \in TxnRec /\ (StartOf(t) # 0 <=> St(t) # "init")
      /\ StartOf(t) = txn[t].startTS /\ CommitAt(t) = txn[t].commitTS /\ St(t) = txn[t].st
  BY TxnRecOf
<1>1. CASE Begin(t)
  <2> DEFINE x == [txn[t] EXCEPT !.st = "active", !.startTS = now + 1]
  <2>1. /\ txn[t].st = "init" /\ now' = now + 1 /\ txn' = [txn EXCEPT ![t] = x]
        /\ UNCHANGED <<lock, write>>
    BY <1>1 DEF Begin, GetTS, storeVars
  <2>2. x.startTS = now + 1 /\ x.commitTS = CommitAt(t)
    BY <1>0 DEF TxnRec
  <2> HIDE DEF x
  <2> QED  BY <1>0, <2>1, <2>2, RecordFrame
<1>2. CASE \E K \in LockSets[t] : LockKeys(t, K)
  <2> DEFINE x == [txn[t] EXCEPT !.st = "locking", !.forUpdateTS = now + 1, !.stmts = @ + 1]
  <2>1. /\ txn[t].st # "committed" /\ now' = now + 1 /\ txn' = [txn EXCEPT ![t] = x]
        /\ UNCHANGED <<lock, write>>
    BY <1>2 DEF LockKeys, GetTS, storeVars
  <2>2. x.startTS = StartOf(t) /\ x.commitTS = CommitAt(t)
    BY <1>0 DEF TxnRec
  <2> HIDE DEF x
  <2> QED  BY <1>0, <2>1, <2>2, RecordFrame
<1>3. CASE SendCommit(t)
  <2> DEFINE x == [txn[t] EXCEPT !.st = "committing", !.commitTS = now + 1]
  <2>1. /\ txn[t].st # "committed" /\ now' = now + 1 /\ txn' = [txn EXCEPT ![t] = x]
        /\ UNCHANGED <<lock, write>>
    BY <1>3 DEF SendCommit, GetTS, storeVars
  <2>2. x.startTS = StartOf(t) /\ x.commitTS = now + 1
    BY <1>0 DEF TxnRec
  <2> HIDE DEF x
  <2> QED  BY <1>0, <2>1, <2>2, RecordFrame
<1>4. CASE SendPrewrite(t) \/ CommitAcked(t) \/ Abort(t)
  <2>1. PICK s : /\ txn[t].st # "committed" /\ txn' = [txn EXCEPT ![t].st = s]
                 /\ now' = now /\ UNCHANGED <<lock, write>>
    BY <1>4 DEF SendPrewrite, CommitAcked, Abort, storeVars
  <2> DEFINE x == [txn[t] EXCEPT !.st = s]
  <2>2. x.startTS = StartOf(t) /\ x.commitTS = CommitAt(t) /\ txn' = [txn EXCEPT ![t] = x]
    BY <1>0, <2>1 DEF TxnRec
  <2> HIDE DEF x
  <2> QED  BY <1>0, <2>1, <2>2, RecordFrame
<1> QED  BY <1>1, <1>2, <1>3, <1>4

\* A step of the store or of a resolver serves one transaction; other steps leave
\* the store alone.
LEMMA StepKinds ==
    ASSUME PInv, [Next]_vars
    PROVE  ((\E t \in Txn : StoreStep(t)) \/ ClientFrame) /\ TimePasses
<1>0. now \in Nat /\ now <= now /\ now <= now + 1
  BY MaxTSAssumption DEF PInv, Typed
<1>1. ASSUME NEW t \in Txn, StoreStep(t)
      PROVE  TimePasses
  BY <1>0, <1>1 DEF StoreStep, TimePasses, St, CommitAt, StartOf
<1>2. ASSUME NEW t \in Txn,
             \/ Begin(t) \/ SendPrewrite(t) \/ SendCommit(t) \/ CommitAcked(t) \/ Abort(t)
             \/ \E K \in LockSets[t] : LockKeys(t, K)
      PROVE  ClientFrame /\ TimePasses
  BY <1>2, ClientKinds
<1>3. ASSUME NEW t \in Txn, HeartBeat(t) \/ CheckTxn(t)
      PROVE  StoreStep(t)
  BY <1>3, HeartBeatInv, CheckTxnInv
<1>4. ASSUME NEW m \in msgs, Handle(m)
      PROVE  \E t \in Txn : StoreStep(t)
  <2>1. m.txn \in Txn
    BY DEF PInv, Typed, Msg
  <2> QED  BY <1>4, <2>1, HandleInv
<1>5. ASSUME NEW r \in AnyReader, NEW k \in ReadKeys[r], CheckBlocking(r, k)
      PROVE  \E t \in Txn : StoreStep(t)
  <2>1. k \in Key
    BY PercolatorAssumption DEF AnyReader
  <2> QED  BY <1>5, <2>1, CheckBlockingInv
<1>6. ASSUME NEW g \in Region, NEW o \in known, ResolveRegion(g, o)
      PROVE  \E t \in Txn : StoreStep(t)
  BY <1>6, ResolveRegionInv
<1>7. CASE \/ Tick
           \/ \E r \in AnyReader : ReadBegin(r) \/ \E k \in ReadKeys[r] : ReadKey(r, k)
           \/ UNCHANGED vars
  <2>1. UNCHANGED <<lock, write, txn>> /\ now' \in {now, now + 1}
    BY <1>7 DEF Tick, GetTS, ReadBegin, ReadKey, vars, storeVars
  <2> QED  BY <1>0, <2>1 DEF ClientFrame, TimePasses, St, CommitAt, StartOf
<1> QED  BY <1>1, <1>2, <1>3, <1>4, <1>5, <1>6, <1>7 DEF Next

\* Locking requests are for keys their transaction writes.
LEMMA OwnMsgsKept ==
    ASSUME OwnLockSets, PInv, OwnMsgs, [Next]_vars
    PROVE  OwnMsgs'
<1> DEFINE Own(m) == m.type \in {"prewrite", "pessimisticLock"} => m.keys \subseteq Keys(m.txn)
<1> SUFFICES ASSUME NEW m \in msgs', m \notin msgs
             PROVE  Own(m)
  BY DEF OwnMsgs, Keys
<1>1. ASSUME NEW t \in Txn, SendPrewrite(t)
      PROVE  Own(m)
  BY <1>1 DEF SendPrewrite
<1>2. ASSUME NEW t \in Txn, NEW K \in LockSets[t], LockKeys(t, K)
      PROVE  Own(m)
  BY <1>2 DEF LockKeys, OwnLockSets
<1>3. ASSUME NEW t \in Txn, SendCommit(t) \/ CommitAcked(t) \/ Abort(t)
      PROVE  Own(m)
  BY <1>3 DEF SendCommit, CommitAcked, Abort, CommitMsg
<1>4. CASE UNCHANGED msgs
  BY <1>4
<1> QED
  BY <1>1, <1>2, <1>3, <1>4
     DEF Next, vars, Begin, HeartBeat, CheckTxn, Handle, ReadBegin, ReadKey, CheckBlocking,
         ResolveRegion, Tick

\* A transaction locks only keys it writes.
LEMMA OwnLockKept ==
    ASSUME PInv, OwnMsgs, NEW k \in Key, OwnLock(k), [Next]_vars
    PROVE  OwnLock(k)'
<1> SUFFICES ASSUME NEW u \in Txn, StartOf(u)' # 0, HasLock(k, StartOf(u))'
             PROVE  k \in Keys(u)
  BY DEF OwnLock, Keys
<1>0. Oracle /\ lock'[k] # NoLock /\ lock'[k].startTS = StartOf(u)'
  BY DEF PInv, HasLock
<1>1. ASSUME NEW t \in Txn, StoreStep(t)
      PROVE  k \in Keys(u)
  <2>0. KeyStep(t, k) /\ StartOf(t) # 0 /\ StartOf(u)' = StartOf(u)
    BY <1>1 DEF StoreStep, StartOf
  <2>1. CASE lock'[k] = lock[k]
    BY <1>0, <2>0, <2>1 DEF OwnLock, HasLock
  <2>2. CASE KeyLock(t, k)
    <3>1. u = t
      BY <1>0, <2>0, <2>2 DEF KeyLock, Oracle
    <3>2. CASE HasLock(k, StartOf(t))
      BY <2>0, <3>1, <3>2 DEF OwnLock
    <3>3. CASE AskedFor(t, k)
      BY <3>1, <3>3 DEF AskedFor, OwnMsgs
    <3> QED  BY <2>2, <3>2, <3>3 DEF KeyLock
  <2> QED  BY <1>0, <2>0, <2>1, <2>2
           DEF KeyStep, KeyIdle, KeyDrop, KeyRollback, KeyCommit
<1>2. CASE ClientFrame
  <2>1. lock'[k] = lock[k]
    BY <1>2 DEF ClientFrame
  <2>2. CASE StartOf(u)' = StartOf(u)
    BY <1>0, <2>1, <2>2 DEF OwnLock, HasLock
  <2>3. CASE StartOf(u)' > now
    <3>1. PICK t \in Txn : lock[k].startTS = StartOf(t)
      BY <1>0, <2>1 DEF PInv, KeyInv, LockShape
    <3>2. StartOf(t) <= now /\ StartOf(t) \in Nat /\ now \in Nat
      BY TxnTypes, TxnRecOf DEF PInv, Oracle
    <3> QED  BY <1>0, <2>1, <2>3, <3>1, <3>2
  <2> QED  BY <1>2, <2>2, <2>3 DEF ClientFrame
<1> QED  BY <1>1, <1>2, StepKinds

-----------------------------------------------------------------------------
(* What a reader has read and skipped stays right. *)

\* No step lets a transaction commit earlier.
LEMMA LateKept ==
    ASSUME PInv, PInv', [Next]_vars, NEW u \in Txn, NEW c \in 0 .. now, Late(u, c)
    PROVE  Late(u, c)'
<1>1. c \in Nat /\ CommitAt(u)' \in Nat
  BY MaxTSAssumption DEF PInv, Typed, CommitAt
<1> QED  BY <1>1, StepKinds, StoreStepLate, ClientFrameLate

\* No step changes what a key shows at a time that was read.
LEMMA ReadAtKept ==
    ASSUME PInv, PInv', OwnMsgs, [Next]_vars, NEW k \in Key, OwnLock(k), NEW c \in 0 .. now,
           NEW v, ReadAt(c, k, v)
    PROVE  ReadAt(c, k, v)'
<1>1. c \in Nat
  BY MaxTSAssumption DEF PInv, Typed
<1> QED  BY <1>1, StepKinds, StoreStepReadAt, ClientFrameReadAt

\* A start timestamp is kept, or the transaction has just begun.
LEMMA StartKept ==
    ASSUME PInv, [Next]_vars, NEW t \in Txn
    PROVE  StartOf(t)' = StartOf(t) \/ (StartOf(t) = 0 /\ CommitAt(t) = 0)
<1>1. Oracle
  BY DEF PInv
<1> QED  BY <1>1, StepKinds DEF StoreStep, ClientFrame, StartOf, Oracle

\* A snapshot reader that learns of no lock, or of one that it may skip.
LEMMA SnapshotKept ==
    ASSUME PInv, PInv', OwnMsgs, \A k \in Key : OwnLock(k), [Next]_vars,
           NEW r \in Reader, SnapshotOK(r), reader[r].ts \in Nat,
           reader'[r].ts = reader[r].ts, reader'[r].acked = reader[r].acked,
           reader'[r].val = reader[r].val,
           \A t \in Txn : StartOf(t)' \in reader'[r].resolved =>
              StartOf(t)' \in reader[r].resolved \/ Late(t, reader[r].ts)'
    PROVE  SnapshotOK(r)'
<1> DEFINE ts == reader[r].ts
<1>0. now \in Nat /\ now' \in Nat /\ now <= now' /\ ReadKeys[r] \subseteq Key
  BY StepKinds, MaxTSAssumption, PercolatorAssumption DEF PInv, Typed, TimePasses
<1>1. ts \in 0 .. now /\ ts <= now' /\ reader[r].acked = {}
  BY <1>0 DEF SnapshotOK
<1>2. ASSUME NEW t \in Txn, StartOf(t)' # 0, StartOf(t)' \in reader'[r].resolved
      PROVE  Late(t, ts)'
  <2>1. CASE StartOf(t)' = StartOf(t) /\ StartOf(t) \in reader[r].resolved
    <3>1. Late(t, ts)
      BY <1>2, <2>1 DEF SnapshotOK
    <3> QED  BY <1>1, <3>1, LateKept
  <2>2. CASE CommitAt(t) = 0
    <3>1. Late(t, ts)
      BY <2>2 DEF Late
    <3> QED  BY <1>1, <3>1, LateKept
  <2> QED  BY <1>2, <2>1, <2>2, StartKept
<1>3. ASSUME NEW k \in ReadKeys[r], reader[r].val[k] # Unread
      PROVE  ReadAt(ts, k, reader[r].val[k])'
  <2>1. ReadAt(ts, k, reader[r].val[k])
    BY <1>3 DEF SnapshotOK
  <2>2. \A v : v = reader[r].val[k] => ReadAt(ts, k, v)'
    <3> SUFFICES ASSUME NEW v, v = reader[r].val[k]
                 PROVE  ReadAt(ts, k, v)'
      OBVIOUS
    <3> QED  BY <1>0, <1>1, <2>1, ReadAtKept
  <2> QED  BY <2>2
<1> QED  BY <1>1, <1>2, <1>3 DEF SnapshotOK

\* The same for a point get: it never skips a lock of a transaction that was
\* acknowledged before it began.
LEMMA PointKept ==
    ASSUME PInv, PInv', OwnMsgs, \A k \in Key : OwnLock(k), [Next]_vars,
           NEW r \in PointReader, PointOK(r),
           reader'[r].ts = reader[r].ts, reader'[r].acked = reader[r].acked,
           reader'[r].val = reader[r].val,
           \A t \in reader[r].acked : StartOf(t)' \in reader'[r].resolved =>
              StartOf(t)' \in reader[r].resolved
    PROVE  PointOK(r)'
<1>0. now \in Nat /\ now' \in Nat /\ now <= now' /\ ReadKeys[r] \subseteq Key
  BY StepKinds, MaxTSAssumption, PercolatorAssumption DEF PInv, Typed, TimePasses
<1>1. ASSUME NEW t \in reader[r].acked
      PROVE  /\ t \in Txn /\ St(t)' = "committed" /\ StartOf(t)' \notin reader'[r].resolved
             /\ CommitAt(t)' = CommitAt(t)
  <2>1. t \in Txn /\ St(t) = "committed" /\ StartOf(t) \notin reader[r].resolved
    BY DEF PointOK
  <2> QED  BY <2>1, StepKinds DEF TimePasses
<1>2. ASSUME NEW k \in ReadKeys[r], reader[r].val[k] # Unread,
             \A t \in Pessimistic : PrimaryKey[t] # k
      PROVE  \E c \in 0 .. now' : FreshAt(r, k, c)'
  <2>1. PICK c \in 0 .. now : FreshAt(r, k, c)
    BY <1>2 DEF PointOK
  <2>2. c \in 0 .. now' /\ ReadAt(c, k, reader[r].val[k])
    BY <1>0, <2>1 DEF FreshAt
  <2>3. \A v : v = reader[r].val[k] => ReadAt(c, k, v)'
    <3> SUFFICES ASSUME NEW v, v = reader[r].val[k]
                 PROVE  ReadAt(c, k, v)'
      OBVIOUS
    <3> QED  BY <1>0, <2>2, ReadAtKept
  <2>4. \A t \in reader[r].acked : k \in Keys(t) => CommitAt(t)' <= c
    BY <1>1, <2>1 DEF FreshAt
  <2>5. FreshAt(r, k, c)'
    BY <2>3, <2>4 DEF FreshAt, Keys
  <2> QED  BY <2>2, <2>5
<1> QED  BY <1>1, <1>2 DEF PointOK

-----------------------------------------------------------------------------
(* What a read returns. *)

\* The key of a snapshot read is not locked, its lock is too new or does not mind,
\* or the reader has pushed the lock's transaction above its snapshot.
LEMMA SnapshotReads ==
    ASSUME PInv, NEW r \in Reader, SnapshotOK(r), reader[r].ts \in Nat,
           NEW k \in Key, OwnLock(k), ~ReadBlocked(k, reader[r].ts, reader[r].resolved)
    PROVE  ReadAt(reader[r].ts, k, GetValue(k, reader[r].ts))
<1> DEFINE ts == reader[r].ts
<1>0. /\ now \in Nat /\ now <= MaxTS /\ MaxTS \in Nat /\ ts \in Nat /\ ts <= now
      /\ Oracle /\ KeyInv(k) /\ \A u \in Txn : StartOf(u) \in Nat /\ CommitAt(u) \in Nat
  BY MaxTSAssumption, TxnTypes DEF PInv, Typed, SnapshotOK
<1>1. ts # MaxUint64
  BY <1>0 DEF MaxUint64
<1>2. ~PointGetBelow(k, ts) /\ GetValue(k, ts) = Visible(write[k], ts)
  BY <1>1 DEF PointGetBelow, GetValue
<1>3. ASSUME NEW u \in Txn, StartOf(u) # 0, HasLock(k, StartOf(u)), lock[k].op # "Lock"
      PROVE  Late(u, ts)
  <2>0. lock[k] # NoLock /\ lock[k].startTS = StartOf(u)
    BY <1>3 DEF HasLock
  <2>1. CASE lock[k].op = "PessimisticLock"
    <3>1. CommitAt(u) = 0
      BY <1>0, <1>3, <2>1, LockedUnsettled, NotCommitting DEF OwnLock
    <3> QED  BY <3>1 DEF Late
  <2>2. CASE StartOf(u) > ts
    <3>1. CommitAt(u) = 0 \/ CommitAt(u) > ts
      BY <1>0, <2>2 DEF Oracle
    <3> QED  BY <3>1 DEF Late
  <2>3. CASE lock[k].op # "PessimisticLock" /\ ~(StartOf(u) > ts)
    <3>1. MindsLock(k, ts)
      BY <1>0, <1>3, <2>0, <2>3 DEF MindsLock
    <3>2. StartOf(u) \in reader[r].resolved
      BY <1>2, <2>0, <3>1 DEF ReadBlocked
    <3> QED  BY <1>3, <3>2 DEF SnapshotOK
  <2> QED  BY <2>1, <2>2, <2>3
<1> QED  BY <1>2, <1>3 DEF ReadAt

\* An acknowledged transaction has its record on a key it writes, or its lock,
\* but not on its primary.
LEMMA AckedRecord ==
    ASSUME PInv, NEW t \in Txn, St(t) = "committed", NEW k \in Keys(t), ~HasLock(k, StartOf(t))
    PROVE  \E w \in write[k] : w.type # "Rollback" /\ w.commitTS = CommitAt(t)
<1> DEFINE p == PrimaryKey[t]
<1>0. CommitAt(t) # 0 /\ StartOf(t) # 0 /\ Decided(t) /\ p \in Key /\ KeyInv(p)
  BY TxnRecOf DEF PInv, Oracle
<1>1. k \in Key /\ Outcome(t, k) # {}
  BY <1>0, CommittingHeld DEF Held
<1>2. CommittedOn(t, p) # {}
  BY <1>0 DEF Decided
<1>3. ~RolledBackOn(t, p)
  BY <1>0, <1>2 DEF KeyInv, RolledBackOn, CommittedOn, Outcome
<1>4. ~RolledBackOn(t, k)
  BY <1>0, <1>1, <1>3 DEF Decided
<1>5. PICK w \in CommittedOn(t, k) : TRUE
  BY <1>1, <1>4 DEF RolledBackOn, CommittedOn
<1>6. w.commitTS = CommitAt(t)
  BY <1>0, <1>1, CommittedAtOf
<1>7. w \in write[k] /\ w.type # "Rollback"
  BY DEF CommittedOn, Outcome
<1> QED  BY <1>6, <1>7

\* The primary of an acknowledged transaction is no longer locked.
LEMMA AckedPrimary ==
    ASSUME PInv, NEW t \in Txn, St(t) = "committed"
    PROVE  ~HasLock(PrimaryKey[t], StartOf(t))
<1>1. PrimaryKey[t] \in Key /\ KeyInv(PrimaryKey[t]) /\ CommittedOn(t, PrimaryKey[t]) # {}
  BY TxnRecOf DEF PInv, Decided
<1> QED  BY <1>1, LockedUnsettled DEF CommittedOn

\* The time at which a point get shows the key: just below a primary lock, what
\* the owner of a skipped lock has seen, or the present.
LEMMA PointReads ==
    ASSUME PInv, NEW r \in PointReader, PointOK(r), NEW k \in Key, OwnLock(k),
           \A t \in Pessimistic : PrimaryKey[t] # k,
           ~ReadBlocked(k, MaxUint64, reader[r].resolved)
    PROVE  \E c \in 0 .. now :
              /\ ReadAt(c, k, GetValue(k, MaxUint64))
              /\ \A t \in reader[r].acked : k \in Keys(t) => CommitAt(t) <= c
<1> DEFINE max == MaxUint64
<1>0. /\ now \in Nat /\ now < max /\ max \in Nat /\ Oracle /\ KeyInv(k)
      /\ \A u \in Txn : StartOf(u) \in Nat /\ CommitAt(u) \in Nat /\ Seen(u) \in Nat
      /\ \A u \in Txn : StartOf(u) <= now /\ CommitAt(u) <= now
      /\ \A w \in write[k] : w.commitTS \in Nat /\ w.commitTS <= now
      /\ \A t \in reader[r].acked : t \in Txn /\ St(t) = "committed"
                                    /\ StartOf(t) \notin reader[r].resolved
  <2>1. \A w \in write[k] : w.commitTS \in Nat /\ w.commitTS <= now
    BY StoreTypes, RecordsPast
  <2>2. now \in Nat /\ now < max /\ max \in Nat /\ Oracle /\ KeyInv(k) /\ Typed
    BY MaxTSAssumption DEF PInv, Typed, MaxUint64
  <2> QED  BY <2>1, <2>2, TxnTypes DEF Oracle, PointOK
<1>1. CASE ~MindsLock(k, max)
  <2>1. GetValue(k, max) = Visible(write[k], max)
    BY <1>1 DEF GetValue, PointGetBelow
  <2>2. SeenAt(write[k], max) = SeenAt(write[k], now)
    BY <1>0 DEF SeenAt
  <2>3. GetValue(k, max) = Visible(write[k], now)
    BY <2>1, <2>2, VisibleSame
  <2>4. ASSUME NEW u \in Txn, StartOf(u) # 0, HasLock(k, StartOf(u)), lock[k].op # "Lock"
        PROVE  Late(u, now)
    <3>1. lock[k].startTS <= max
      BY <1>0, <2>4 DEF HasLock
    <3>2. lock[k].op = "PessimisticLock"
      BY <1>1, <2>4, <3>1 DEF MindsLock, HasLock
    <3>3. CommitAt(u) = 0
      BY <1>0, <2>4, <3>2, LockedUnsettled, NotCommitting DEF OwnLock
    <3> QED  BY <3>3 DEF Late
  <2>5. ReadAt(now, k, GetValue(k, max))
    BY <2>3, <2>4 DEF ReadAt
  <2> QED  BY <1>0, <2>5
<1>2. CASE MindsLock(k, max)
  <2>1. PICK u \in Txn : /\ StartOf(u) # 0 /\ lock[k].startTS = StartOf(u)
                         /\ lock[k].primary = PrimaryKey[u]
    BY <1>0, <1>2 DEF MindsLock, KeyInv, LockShape
  <2>2. HasLock(k, StartOf(u)) /\ \A t \in Txn : StartOf(t) # 0 /\ HasLock(k, StartOf(t)) => t = u
    BY <1>0, <1>2, <2>1 DEF MindsLock, HasLock, Oracle
  <2>3. \A w \in write[k] : w.type # "Rollback" => w.commitTS <= Seen(u)
    BY <1>0, <2>1, <2>2 DEF KeyInv, LockSeen
  <2>4. ASSUME NEW c \in Nat, c <= Seen(u)
        PROVE  Late(u, c)
    <3>1. CommitAt(u) # 0 => Seen(u) < CommitAt(u)
      BY SeenBelowCommit DEF PInv
    <3>2. CommitAt(u) = 0 \/ CommitAt(u) > c
      BY <1>0, <2>4, <3>1
    <3> QED  BY <3>2 DEF Late
  <2>5. ASSUME NEW t \in reader[r].acked, k \in Keys(t), t # u
        PROVE  CommitAt(t) <= Seen(u) /\ CommitAt(t) # StartOf(u)
    <3>0. t \in Txn /\ St(t) = "committed" /\ StartOf(t) # 0 /\ CommitAt(t) # 0
      BY <1>0 DEF Oracle
    <3>1. ~HasLock(k, StartOf(t))
      BY <2>2, <2>5, <3>0
    <3>2. \E w \in write[k] : w.type # "Rollback" /\ w.commitTS = CommitAt(t)
      BY <2>5, <3>0, <3>1, AckedRecord
    <3> QED  BY <1>0, <2>3, <3>0, <3>2 DEF Oracle
  <2>6. CASE PointGetBelow(k, max)
    <3> DEFINE c == StartOf(u) - 1
    <3>1. k = PrimaryKey[u] /\ GetValue(k, max) = Visible(write[k], c)
      BY <2>1, <2>6 DEF PointGetBelow, GetValue
    <3>2. Seen(u) = StartOf(u) /\ c \in Nat /\ c <= Seen(u) /\ c \in 0 .. now
      BY <1>0, <2>1, <3>1 DEF Seen
    <3>3. u \notin reader[r].acked
      BY <1>0, <2>2, <3>1, AckedPrimary
    <3> HIDE DEF c
    <3>4. ReadAt(c, k, GetValue(k, max))
      BY <2>2, <2>4, <3>1, <3>2 DEF ReadAt
    <3>5. \A t \in reader[r].acked : k \in Keys(t) => CommitAt(t) <= c
      BY <1>0, <2>5, <3>2, <3>3 DEF c
    <3> QED  BY <3>2, <3>4, <3>5
  <2>7. CASE ~PointGetBelow(k, max)
    <3>1. StartOf(u) \in reader[r].resolved
      BY <1>2, <2>1, <2>7 DEF ReadBlocked
    <3>2. u \notin reader[r].acked
      BY <1>0, <3>1
    <3>3. GetValue(k, max) = Visible(write[k], max)
      BY <2>7 DEF GetValue
    <3>4. Seen(u) \in 0 .. now /\ Seen(u) <= Seen(u)
      BY <1>0 DEF Seen, Oracle
    <3>5. SeenAt(write[k], max) = SeenAt(write[k], Seen(u))
      BY <1>0, <2>3 DEF SeenAt
    <3>6. GetValue(k, max) = Visible(write[k], Seen(u))
      BY <3>3, <3>5, VisibleSame
    <3>7. ReadAt(Seen(u), k, GetValue(k, max))
      BY <1>0, <2>2, <2>4, <3>4, <3>6 DEF ReadAt
    <3> QED  BY <2>5, <3>2, <3>4, <3>7
  <2> QED  BY <2>6, <2>7
<1> QED  BY <1>1, <1>2

\* A reader is told to skip a lock only if its transaction has been pushed above
\* the reader's snapshot, or has not taken a commit timestamp.
LEMMA PushedLate ==
    ASSUME PInv, NEW t \in Txn, StartOf(t) # 0, \A k \in Key : OwnLock(k),
           NEW ts \in Nat, NEW cur \in Nat, NEW rb,
           TxnStatus(PrimaryKey[t], StartOf(t), ts, cur, rb) = "MinCommitTSPushed",
           CheckTxnStatus(PrimaryKey[t], StartOf(t), ts, cur, rb), txn' = txn
    PROVE  /\ HasLock(PrimaryKey[t], StartOf(t))
           /\ ts # MaxUint64 => Late(t, ts)'
<1> DEFINE p == PrimaryKey[t]
<1>0. p \in Key /\ p \in Keys(t) /\ KeyInv(p) /\ Typed /\ StartOf(t)' = StartOf(t)
      /\ CommitAt(t)' = CommitAt(t)
  BY TxnRecOf DEF PInv, StartOf, CommitAt
<1>1. HasLock(p, StartOf(t))
  BY DEF TxnStatus
<1>2. PushMinCommitTS(p, ts, cur)
  BY DEF CheckTxnStatus
<1>3. ASSUME ts # MaxUint64
      PROVE  Late(t, ts)'
  <2>1. CASE lock[p].op = "PessimisticLock"
    <3>1. CommitAt(t) = 0
      BY <1>0, <1>1, <2>1, LockedUnsettled, NotCommitting
    <3> QED  BY <1>0, <3>1 DEF Late
  <2>2. CASE lock[p].op # "PessimisticLock"
    <3>0. lock[p] # NoLock /\ lock[p].startTS = StartOf(t) /\ lock[p] \in LockRec
          /\ lock[p].minCommitTS \in Nat
      BY <1>0, <1>1, StoreTypes DEF HasLock
    <3>1. CASE lock[p].minCommitTS < ts + 1
      <4> DEFINE min == Max2(ts + 1, cur)
      <4>1. min \in Nat /\ min > ts
        BY DEF Max2
      <4> HIDE DEF min
      <4>2. lock' = [lock EXCEPT ![p].minCommitTS = min]
        BY <1>2, <1>3, <3>1 DEF PushMinCommitTS, min
      <4>3. lock'[p] = [lock[p] EXCEPT !.minCommitTS = min]
        BY <1>0, <4>2 DEF Typed, StoreTypeOK
      <4>4. /\ lock'[p].startTS = StartOf(t) /\ lock'[p].op # "PessimisticLock"
            /\ lock'[p].minCommitTS > ts /\ lock'[p] \in LockRec
        BY <2>2, <3>0, <4>1, <4>3 DEF LockRec
      <4>5. Pushed(t, ts)'
        BY <1>0, <4>4, NoLockAssumption DEF Pushed, HasLock
      <4> QED  BY <4>5 DEF Late
    <3>2. CASE ~(lock[p].minCommitTS < ts + 1)
      <4>1. lock' = lock /\ lock[p].minCommitTS > ts
        BY <1>2, <3>0, <3>2 DEF PushMinCommitTS
      <4>2. Pushed(t, ts)'
        BY <1>0, <1>1, <2>2, <4>1 DEF Pushed, HasLock
      <4> QED  BY <4>2 DEF Late
    <3> QED  BY <3>1, <3>2
  <2> QED  BY <2>1, <2>2
<1> QED  BY <1>1, <1>3

-----------------------------------------------------------------------------
(* The readers' steps. *)

\* Nothing happens to the reader itself.
LEMMA ReaderIdle ==
    ASSUME PInv, PInv', RInv, [Next]_vars, NEW r \in AnyReader, reader'[r] = reader[r]
    PROVE  ReaderOK(r)'
<1>0. OwnMsgs /\ (\A k \in Key : OwnLock(k)) /\ ReaderOK(r) /\ reader[r].ts \in Nat
  BY DEF RInv, PInv, ReadersTyped
<1>1. CASE r \in Reader
  <2>1. SnapshotOK(r)
    BY <1>0, <1>1 DEF ReaderOK
  <2>2. SnapshotOK(r)'
    BY <1>0, <1>1, <2>1, SnapshotKept
  <2> QED  BY <1>0, <1>1, <2>2 DEF ReaderOK
<1>2. CASE r \notin Reader
  <2>1. PointOK(r) /\ r \in PointReader
    BY <1>0, <1>2 DEF ReaderOK, AnyReader
  <2>2. PointOK(r)'
    BY <1>0, <2>1, PointKept
  <2> QED  BY <1>0, <1>2, <2>2 DEF ReaderOK
<1> QED  BY <1>1, <1>2

\* A reader begins with nothing read and nothing skipped.
LEMMA ReadBeginOK ==
    ASSUME PInv, PInv', RInv, NEW r \in AnyReader, ReadBegin(r)
    PROVE  ReaderOK(r)' /\ \A q \in AnyReader : q # r => reader'[q] = reader[q]
<1>0. /\ ReadersTyped /\ ReaderOK(r) /\ reader[r].ts = 0 /\ now \in Nat /\ txn' = txn
  BY MaxTSAssumption DEF RInv, PInv, ReadBegin, Typed
<1>1. /\ reader[r].resolved = {} /\ \A k \in ReadKeys[r] : reader[r].val[k] = Unread
      /\ reader[r].val = [k \in ReadKeys[r] |-> reader[r].val[k]]
  BY <1>0 DEF ReaderOK
<1>2. CASE r \in Reader
  <2>1. now' = now + 1 /\ reader' = [reader EXCEPT ![r].ts = now']
    BY <1>2 DEF ReadBegin, GetTS
  <2>2. /\ reader'[r].ts = now' /\ reader'[r].resolved = reader[r].resolved
        /\ reader'[r].acked = reader[r].acked /\ reader'[r].val = reader[r].val
        /\ \A q \in AnyReader : q # r => reader'[q] = reader[q]
    BY <1>0, <2>1 DEF ReadersTyped
  <2>3. reader[r].acked = {} /\ now' # 0 /\ now' <= now'
    BY <1>0, <1>2, <2>1 DEF ReaderOK, SnapshotOK
  <2>4. SnapshotOK(r)'
    BY <1>1, <2>2, <2>3 DEF SnapshotOK
  <2> QED  BY <1>1, <1>2, <2>2, <2>3, <2>4 DEF ReaderOK
<1>3. CASE r \notin Reader
  <2> DEFINE done == {t \in Txn : txn[t].st = "committed"}
             x == [reader[r] EXCEPT !.ts = MaxUint64, !.acked = done]
  <2>1. reader' = [reader EXCEPT ![r] = x]
    BY <1>3 DEF ReadBegin
  <2>2. /\ reader'[r].ts = MaxUint64 /\ reader'[r].resolved = reader[r].resolved
        /\ reader'[r].acked = done
        /\ reader'[r].val = reader[r].val
        /\ \A q \in AnyReader : q # r => reader'[q] = reader[q]
    <3> HIDE DEF done
    <3>1. /\ x.ts = MaxUint64 /\ x.acked = done
          /\ x.resolved = reader[r].resolved /\ x.val = reader[r].val
      <4>1. reader[r] = [ts |-> reader[r].ts, resolved |-> reader[r].resolved,
                         acked |-> reader[r].acked, val |-> reader[r].val]
        BY <1>0 DEF ReadersTyped
      <4> QED  BY <4>1
    <3> HIDE DEF x
    <3> QED  BY <1>0, <2>1, <3>1 DEF ReadersTyped
  <2>3. \A t \in reader'[r].acked : t \in Txn /\ St(t)' = "committed"
    BY <1>0, <2>2 DEF St
  <2>4. PointOK(r)'
    BY <1>1, <2>2, <2>3 DEF PointOK
  <2>5. MaxUint64 # 0
    BY MaxTSAssumption DEF MaxUint64
  <2> QED  BY <1>1, <1>3, <2>2, <2>4, <2>5 DEF ReaderOK
<1> QED  BY <1>2, <1>3

\* A reader reads a key that does not block it.
LEMMA ReadKeyOK ==
    ASSUME PInv, PInv', RInv, [Next]_vars, NEW r \in AnyReader, NEW k \in ReadKeys[r],
           ReadKey(r, k)
    PROVE  ReaderOK(r)' /\ \A q \in AnyReader : q # r => reader'[q] = reader[q]
<1> DEFINE ts == reader[r].ts
           new == GetValue(k, ts)
<1>0. /\ ReadersTyped /\ ReaderOK(r) /\ OwnMsgs /\ (\A j \in Key : OwnLock(j))
      /\ ReadKeys[r] \subseteq Key /\ now \in Nat /\ ts \in Nat
      /\ reader[r].val = [j \in ReadKeys[r] |-> reader[r].val[j]]
      /\ ts # 0 /\ ~ReadBlocked(k, ts, reader[r].resolved)
      /\ reader' = [reader EXCEPT ![r].val[k] = new]
      /\ now' = now /\ txn' = txn /\ UNCHANGED <<lock, write>>
  <2>1. ReadersTyped /\ ts \in Nat
    BY DEF PInv, ReadersTyped
  <2>2. ReadKeys[r] \subseteq Key
    BY PercolatorAssumption DEF AnyReader
  <2>3. ReaderOK(r) /\ OwnMsgs /\ (\A j \in Key : OwnLock(j)) /\ now \in Nat
    BY MaxTSAssumption DEF RInv, PInv, Typed
  <2>4. reader[r].val = [j \in ReadKeys[r] |-> reader[r].val[j]]
    BY <2>3 DEF ReaderOK
  <2>5. /\ ts # 0 /\ ~ReadBlocked(k, ts, reader[r].resolved)
        /\ reader' = [reader EXCEPT ![r].val[k] = new]
        /\ now' = now /\ txn' = txn /\ UNCHANGED <<lock, write>>
    BY DEF ReadKey, Pending, storeVars
  <2> HIDE DEF new
  <2> QED  BY <2>1, <2>2, <2>3, <2>4, <2>5
<1> HIDE DEF new
<1>1. /\ \A q \in AnyReader : q # r => reader'[q] = reader[q]
      /\ reader'[r] = [reader[r] EXCEPT !.val[k] = new]
  BY <1>0 DEF ReadersTyped
<1>2. /\ reader'[r].ts = ts /\ reader'[r].resolved = reader[r].resolved
      /\ reader'[r].acked = reader[r].acked /\ reader'[r].val = [reader[r].val EXCEPT ![k] = new]
  <2>1. reader[r] = [ts |-> reader[r].ts, resolved |-> reader[r].resolved,
                     acked |-> reader[r].acked, val |-> reader[r].val]
    BY <1>0 DEF ReadersTyped
  <2> QED  BY <1>1, <2>1
<1>3. /\ reader'[r].val[k] = new /\ \A j \in ReadKeys[r] : j # k => reader'[r].val[j] = reader[r].val[j]
      /\ reader'[r].val = [j \in ReadKeys[r] |-> reader'[r].val[j]]
  BY <1>0, <1>2
<1>4. CASE r \in Reader
  <2>1. SnapshotOK(r)
    BY <1>0, <1>4 DEF ReaderOK
  <2>2. ReadAt(ts, k, new) /\ ts \in 0 .. now
    <3>1. ts \in 0 .. now /\ k \in Key
      BY <1>0, <2>1 DEF SnapshotOK
    <3>2. ReadAt(ts, k, GetValue(k, ts))
      BY <1>0, <1>4, <2>1, <3>1, SnapshotReads
    <3> QED  BY <3>1, <3>2 DEF new
  <2>3. \A j \in ReadKeys[r] : reader'[r].val[j] # Unread => ReadAt(ts, j, reader'[r].val[j])
    BY <1>3, <2>1, <2>2 DEF SnapshotOK
  <2>4. ASSUME NEW j \in ReadKeys[r], reader'[r].val[j] # Unread
        PROVE  ReadAt(ts, j, reader[r].val[j])'
    <3>1. ASSUME NEW v, v = reader'[r].val[j], NEW c \in 0 .. now, c = ts
          PROVE  ReadAt(c, j, v)'
      BY <1>0, <2>3, <2>4, <3>1, ReadAtKept
    <3> QED  BY <1>2, <2>2, <3>1
  <2>5. ASSUME NEW t \in Txn, StartOf(t)' # 0, StartOf(t)' \in reader'[r].resolved
        PROVE  Late(t, ts)'
    <3>1. Late(t, ts)
      BY <1>0, <1>2, <2>1, <2>5 DEF SnapshotOK, StartOf
    <3>2. ASSUME NEW c \in 0 .. now, c = ts
          PROVE  Late(t, c)'
      BY <3>1, <3>2, LateKept
    <3> QED  BY <1>2, <2>2, <3>2
  <2>6. reader'[r].ts <= now' /\ reader'[r].acked = {}
    BY <1>0, <1>2, <2>1 DEF SnapshotOK
  <2>7. SnapshotOK(r)'
    BY <2>4, <2>5, <2>6 DEF SnapshotOK
  <2> QED  BY <1>0, <1>1, <1>2, <1>3, <1>4, <2>7 DEF ReaderOK
<1>5. CASE r \notin Reader
  <2>1. PointOK(r) /\ r \in PointReader /\ ts = MaxUint64
    BY <1>0, <1>5 DEF ReaderOK, AnyReader, PointOK
  <2>2. ASSUME NEW j \in ReadKeys[r], reader'[r].val[j] # Unread,
               \A t \in Pessimistic : PrimaryKey[t] # j
        PROVE  \E c \in 0 .. now' : FreshAt(r, j, c)'
    <3>1. PICK c \in 0 .. now :
                 /\ ReadAt(c, j, reader'[r].val[j])
                 /\ \A t \in reader[r].acked : j \in Keys(t) => CommitAt(t) <= c
      <4>1. CASE j = k
        BY <1>0, <1>3, <2>1, <2>2, <4>1, PointReads DEF new
      <4>2. CASE j # k
        BY <1>3, <2>1, <2>2, <4>2 DEF PointOK, FreshAt
      <4> QED  BY <4>1, <4>2
    <3>2. ASSUME NEW v, v = reader'[r].val[j]
          PROVE  ReadAt(c, j, v)'
      BY <1>0, <3>1, <3>2, ReadAtKept
    <3>3. ReadAt(c, j, reader[r].val[j])'
      BY <3>2
    <3>4. FreshAt(r, j, c)'
      BY <1>0, <1>2, <3>1, <3>3 DEF FreshAt, CommitAt, Keys
    <3> QED  BY <1>0, <3>4
  <2>3. PointOK(r)'
    BY <1>0, <1>2, <2>1, <2>2 DEF PointOK, St, StartOf
  <2> QED  BY <1>0, <1>1, <1>2, <1>3, <1>5, <2>3 DEF ReaderOK
<1> QED  BY <1>4, <1>5

\* A blocked reader asks about the lock; it skips the lock only if its
\* transaction cannot commit at or below the snapshot any more.
LEMMA CheckBlockingOK ==
    ASSUME PInv, PInv', RInv, [Next]_vars, NEW r \in AnyReader, NEW k \in ReadKeys[r],
           CheckBlocking(r, k)
    PROVE  ReaderOK(r)' /\ \A q \in AnyReader : q # r => reader'[q] = reader[q]
<1> DEFINE ts == reader[r].ts
           l == lock[k]
           rb == Expired(l, now)
           status == TxnStatus(l.primary, l.startTS, ts, now, rb)
<1>0. /\ ReadersTyped /\ ReaderOK(r) /\ OwnMsgs /\ (\A j \in Key : OwnLock(j))
      /\ k \in Key /\ KeyInv(k) /\ now \in Nat /\ ts \in Nat
  <2>1. ReadersTyped /\ ts \in Nat
    BY DEF PInv, ReadersTyped
  <2>2. k \in Key
    BY PercolatorAssumption DEF AnyReader
  <2> QED  BY <2>1, <2>2, MaxTSAssumption DEF RInv, PInv, Typed
<1>1. /\ ts # 0 /\ ReadBlocked(k, ts, reader[r].resolved)
      /\ CheckTxnStatus(l.primary, l.startTS, ts, now, rb) /\ txn' = txn
      /\ reader' = IF status = "MinCommitTSPushed"
                   THEN [reader EXCEPT ![r].resolved = @ \cup {l.startTS}] ELSE reader
  BY DEF CheckBlocking, Pending
<1>2. CASE reader' = reader
  BY <1>2, ReaderIdle
<1>3. CASE status = "MinCommitTSPushed"
  <2>1. PICK t \in Txn : StartOf(t) # 0 /\ l.startTS = StartOf(t) /\ l.primary = PrimaryKey[t]
    BY <1>0, <1>1 DEF ReadBlocked, MindsLock, KeyInv, LockShape
  <2> HIDE DEF rb
  <2>2. HasLock(PrimaryKey[t], StartOf(t)) /\ (ts # MaxUint64 => \A c : c = ts => Late(t, c)')
    <3>1. ASSUME NEW c \in Nat, c = ts
          PROVE  HasLock(PrimaryKey[t], StartOf(t)) /\ (c # MaxUint64 => Late(t, c)')
      BY <1>0, <1>1, <1>3, <2>1, <3>1, PushedLate
    <3> QED  BY <1>0, <3>1
  <2>3. /\ \A q \in AnyReader : q # r => reader'[q] = reader[q]
        /\ reader'[r].ts = ts /\ reader'[r].acked = reader[r].acked
        /\ reader'[r].val = reader[r].val
        /\ reader'[r].resolved = reader[r].resolved \cup {StartOf(t)}
    BY <1>0, <1>1, <1>3, <2>1 DEF ReadersTyped
  <2>4. \A u \in Txn : StartOf(u)' = StartOf(t) => u = t
    BY <1>1, <2>1 DEF PInv, Oracle, StartOf
  <2>5. CASE r \in Reader
    <3>1. SnapshotOK(r) /\ ts <= now /\ ts # MaxUint64
      <4>1. SnapshotOK(r) /\ ts <= now
        BY <1>0, <2>5 DEF ReaderOK, SnapshotOK
      <4> QED  BY <1>0, <4>1, MaxTSAssumption DEF PInv, Typed, MaxUint64
    <3>2. \A u \in Txn : StartOf(u)' \in reader'[r].resolved =>
             StartOf(u)' \in reader[r].resolved \/ Late(u, reader[r].ts)'
      BY <2>2, <2>3, <2>4, <3>1
    <3>3. SnapshotOK(r)'
      BY <1>0, <2>3, <2>5, <3>1, <3>2, SnapshotKept
    <3> QED  BY <1>0, <1>1, <2>3, <2>5, <3>3 DEF ReaderOK
  <2>6. CASE r \notin Reader
    <3>1. PointOK(r) /\ r \in PointReader
      BY <1>0, <2>6 DEF ReaderOK, AnyReader
    <3>2. t \notin reader[r].acked /\ \A u \in reader[r].acked : u \in Txn
      BY <2>2, <3>1, AckedPrimary DEF PointOK
    <3>3. \A u \in reader[r].acked : StartOf(u)' \in reader'[r].resolved =>
             StartOf(u)' \in reader[r].resolved
      BY <2>3, <2>4, <3>2
    <3>4. PointOK(r)'
      BY <1>0, <2>3, <3>1, <3>3, PointKept
    <3> QED  BY <1>0, <1>1, <2>3, <2>6, <3>4 DEF ReaderOK
  <2> QED  BY <2>3, <2>5, <2>6
<1> QED  BY <1>1, <1>2, <1>3

-----------------------------------------------------------------------------
(* The invariant and the theorems. *)

\* The readers' invariant holds in the beginning.
LEMMA InitRInv == Init => RInv
<1> SUFFICES ASSUME Init
             PROVE  RInv
  OBVIOUS
<1>1. OwnMsgs
  BY DEF Init, OwnMsgs
<1>2. \A k \in Key : OwnLock(k)
  BY DEF Init, OwnLock, HasLock
<1>3. ASSUME NEW r \in AnyReader
      PROVE  ReaderOK(r)
  <2>1. /\ reader[r].ts = 0 /\ reader[r].resolved = {} /\ reader[r].acked = {}
        /\ reader[r].val = [k \in ReadKeys[r] |-> Unread]
    BY DEF Init
  <2>2. now \in Nat
    BY DEF Init
  <2>3. \A k \in ReadKeys[r] : reader[r].val[k] = Unread
    BY <2>1
  <2>4. SnapshotOK(r) /\ PointOK(r)
    BY <2>1, <2>2, <2>3 DEF SnapshotOK, PointOK
  <2>5. reader[r].val = [k \in ReadKeys[r] |-> reader[r].val[k]]
    BY <2>1
  <2> QED  BY <2>1, <2>3, <2>4, <2>5 DEF ReaderOK
<1> QED  BY <1>1, <1>2, <1>3 DEF RInv

\* Every step keeps it.
LEMMA StepRInv ==
    ASSUME OwnLockSets
    PROVE  PInv /\ RInv /\ [Next]_vars => RInv'
<1> SUFFICES ASSUME PInv, RInv, [Next]_vars
             PROVE  RInv'
  OBVIOUS
<1>0. PInv' /\ OwnMsgs /\ \A k \in Key : OwnLock(k)
  BY StepPInv DEF RInv
<1>1. OwnMsgs' /\ \A k \in Key : OwnLock(k)'
  BY <1>0, OwnMsgsKept, OwnLockKept
<1>2. CASE reader' = reader
  <2>1. \A r \in AnyReader : ReaderOK(r)'
    BY <1>0, <1>2, ReaderIdle
  <2> QED  BY <1>1, <2>1 DEF RInv
<1>3. ASSUME NEW r \in AnyReader,
             ReadBegin(r) \/ \E k \in ReadKeys[r] : ReadKey(r, k) \/ CheckBlocking(r, k)
      PROVE  RInv'
  <2>1. ReaderOK(r)' /\ \A q \in AnyReader : q # r => reader'[q] = reader[q]
    BY <1>0, <1>3, ReadBeginOK, ReadKeyOK, CheckBlockingOK
  <2>2. \A q \in AnyReader : ReaderOK(q)'
    BY <1>0, <2>1, ReaderIdle
  <2> QED  BY <1>1, <2>2 DEF RInv
<1> QED
  BY <1>2, <1>3
     DEF Next, vars, Begin, SendPrewrite, SendCommit, CommitAcked, Abort, HeartBeat, CheckTxn,
         LockKeys, Handle, ResolveRegion, Tick

\* What every reader has read stays what the key shows at the time of the read,
\* if the statements of pessimistic transactions lock only keys that are written.
THEOREM RInvHolds ==
    ASSUME OwnLockSets
    PROVE  Spec => [](PInv /\ RInv)
<1>1. PInv /\ RInv /\ [Next]_vars => (PInv /\ RInv)'
  BY StepPInv, StepRInv
<1> QED  BY <1>1, InitPInv, InitRInv, PTL DEF Spec

\* Snapshot reads are stable for any number of transactions, keys, regions,
\* readers and requests in flight: no commit request, resolver or retry commits
\* at or below a snapshot after it was read, whether mvccLock.check found no
\* lock, ignored one or skipped one that CheckTxnStatus had pushed.
THEOREM SnapshotReadHolds ==
    ASSUME OwnLockSets
    PROVE  Spec => []SnapshotRead
<1>1. PInv /\ RInv => SnapshotRead
  BY DEF RInv, ReaderOK, SnapshotOK, ReadAt, SnapshotRead, AnyReader
<1> QED  BY <1>1, RInvHolds, PTL

\* A point get misses no commit acknowledged before it began, below a primary
\* lock and past skipped locks, unless the primary lock it reads below is that of
\* a pessimistic transaction, which may have seen commits after its start.
THEOREM PointGetFreshHolds ==
    ASSUME OwnLockSets, PlainPointKeys
    PROVE  Spec => []PointGetFresh
<1>1. PInv /\ RInv => PointGetFresh
  <2> SUFFICES ASSUME PInv, RInv, NEW r \in PointReader, NEW k \in ReadKeys[r],
                      NEW t \in reader[r].acked, reader[r].val[k] # Unread, k \in Keys(t)
               PROVE  \E ts \in CommitAt(t) .. MaxTS : reader[r].val[k] = Visible(write[k], ts)
    BY DEF PointGetFresh, CommitAt
  <2>1. ReaderOK(r) /\ r \notin Reader
    BY DEF RInv, AnyReader, ReaderOK, SnapshotOK
  <2>2. PointOK(r) /\ t \in Txn
    BY <2>1 DEF ReaderOK, PointOK
  <2>3. PICK c \in 0 .. now : FreshAt(r, k, c)
    BY <2>2 DEF PointOK, PlainPointKeys
  <2>4. CommitAt(t) <= c /\ reader[r].val[k] = Visible(write[k], c)
    BY <2>3 DEF FreshAt, ReadAt
  <2>5. c \in CommitAt(t) .. MaxTS
    BY <2>2, <2>3, <2>4, TxnTypes, MaxTSAssumption DEF PInv, Typed
  <2> QED  BY <2>4, <2>5
<1> QED  BY <1>1, RInvHolds, PTL

===============================================================================
