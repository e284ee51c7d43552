--------------------------- MODULE MvccStoreProofs ---------------------------
(***************************************************************************)
(* For every set of keys, transactions and timestamps the store of module  *)
(* MvccStore keeps its types, gives a transaction one outcome per key,     *)
(* never locks a settled key again, keeps the promise of a rollback and    *)
(* loses no record but to GC and DeleteRange.  Its deadlock detector never *)
(* holds a cycle, GC disturbs no read at or above the safe point, and a    *)
(* primary lock only ever gains TTL and minCommitTS.                       *)
(*                                                                         *)
(* Every request but GC and DeleteRange changes a key in one of the three  *)
(* ways of KeyStep.  That each request is made of KeySteps is shown action *)
(* by action; that KeySteps preserve the invariant is shown once.          *)
(***************************************************************************)
EXTENDS MvccStore, TLAPS

\* Rollbacks are stored at start timestamps, commits at commit timestamps.
Shaped(w) ==
    IF w.type = "Rollback" THEN w.startTS \in StartTS /\ w.commitTS = w.startTS
    ELSE <<w.startTS, w.commitTS>> \in CommitOf

RecordShape == \A k \in Key : \A w \in write[k] : Shaped(w)

LockStarted == \A k \in Key : lock[k] # NoLock => lock[k].startTS \in StartTS

\* A promised rollback is backed by its tombstone.
Tombstoned == \A t \in rolledBack : RollbackRec(t[2]) \in write[t[1]]

StoreInv == StoreTypeOK /\ LockStarted /\ RecordShape /\ OneFate /\ LockExcludesRecord

IInv == StoreInv /\ TypeOK /\ Tombstoned

\* The transaction has left no record on the key.
Unsettled(k, s) == \A x \in write[k] : x.startTS # s

\* The lock is kept or removed.
KeyUnlock(k) ==
    /\ lock'[k] \in {lock[k], NoLock}
    /\ write'[k] = write[k]

\* A transaction without a record takes or changes the lock.
KeyLock(k) ==
    /\ lock'[k] \in LockRec
    /\ lock'[k].startTS \in StartTS
    /\ Unsettled(k, lock'[k].startTS)
    /\ write'[k] = write[k]

\* A transaction without a record gets one, and holds no lock afterwards.
KeyRecord(k) ==
    \E w \in WriteRec :
        /\ Shaped(w)
        /\ Unsettled(k, w.startTS)
        /\ write'[k] = PutValue(write[k], w)
        /\ lock'[k] \in {lock[k], NoLock}
        /\ lock'[k] # NoLock => lock[k].startTS # w.startTS

KeyStep(k) == KeyUnlock(k) \/ KeyLock(k) \/ KeyRecord(k)

\* GC and DeleteRange only remove.
KeyShrink(k) == lock'[k] \in {lock[k], NoLock} /\ write'[k] \subseteq write[k]

\* Timestamps are positive numbers.
LEMMA TimestampsNat == TS \subseteq Nat \ {0} /\ StartTS \subseteq TS
BY MaxTSAssumption, StartAssumption DEF TS

\* The minCommitTS a request may ask for is a number.
LEMMA MinCommitNat == ASSUME NEW s \in StartTS PROVE MinCommitTS(s) \subseteq Nat
BY TimestampsNat DEF MinCommitTS

-----------------------------------------------------------------------------
(* Preservation by key steps. *)

\* The record of a transaction that had none replaces no other: tombstones and
\* commits of different transactions are stored at different versions.
LEMMA PutFresh ==
    ASSUME StoreInv, NEW k \in Key, NEW w \in WriteRec, Shaped(w), Unsettled(k, w.startTS)
    PROVE  PutValue(write[k], w) = write[k] \cup {w}
<1>1. \A x \in write[k] : x.commitTS # w.commitTS
  <2> SUFFICES ASSUME NEW x \in write[k], x.commitTS = w.commitTS
               PROVE  FALSE
    OBVIOUS
  <2>1. Shaped(x) /\ x.startTS # w.startTS
    BY DEF StoreInv, RecordShape, Unsettled
  <2> QED  BY <2>1, CommitAssumption DEF Shaped
<1> QED  BY <1>1 DEF PutValue

\* No key step removes or replaces a record.
LEMMA KeyStepGrows ==
    ASSUME StoreInv, NEW k \in Key, KeyStep(k)
    PROVE  write[k] \subseteq write'[k]
<1>1. CASE KeyUnlock(k) \/ KeyLock(k)
  BY <1>1 DEF KeyUnlock, KeyLock
<1>2. CASE KeyRecord(k)
  BY <1>2, PutFresh DEF KeyRecord
<1> QED  BY <1>1, <1>2 DEF KeyStep

\* A key step keeps the key's part of the invariant.
LEMMA KeyStepKeeps ==
    ASSUME StoreInv, NEW k \in Key, KeyStep(k)
    PROVE  /\ lock'[k] # NoLock => lock'[k].startTS \in StartTS
           /\ \A w \in write'[k] : Shaped(w)
           /\ \A w, x \in write'[k] : w.startTS = x.startTS => w = x
           /\ lock'[k] # NoLock => \A w \in write'[k] : w.startTS # lock'[k].startTS
<1> USE DEF StoreInv, LockStarted, RecordShape, OneFate, LockExcludesRecord
<1>1. CASE KeyUnlock(k)
  BY <1>1 DEF KeyUnlock
<1>2. CASE KeyLock(k)
  BY <1>2 DEF KeyLock, Unsettled
<1>3. CASE KeyRecord(k)
  <2>1. PICK w \in WriteRec :
           /\ Shaped(w)
           /\ Unsettled(k, w.startTS)
           /\ write'[k] = PutValue(write[k], w)
           /\ lock'[k] \in {lock[k], NoLock}
           /\ lock'[k] # NoLock => lock[k].startTS # w.startTS
    BY <1>3 DEF KeyRecord
  <2>2. write'[k] = write[k] \cup {w}
    BY <2>1, PutFresh
  <2> QED  BY <2>1, <2>2 DEF Unsettled
<1> QED  BY <1>1, <1>2, <1>3 DEF KeyStep

\* The same of a step that only removes.
LEMMA KeyShrinkKeeps ==
    ASSUME StoreInv, NEW k \in Key, KeyShrink(k)
    PROVE  /\ lock'[k] # NoLock => lock'[k].startTS \in StartTS
           /\ \A w \in write'[k] : Shaped(w)
           /\ \A w, x \in write'[k] : w.startTS = x.startTS => w = x
           /\ lock'[k] # NoLock => \A w \in write'[k] : w.startTS # lock'[k].startTS
BY DEF KeyShrink, StoreInv, LockStarted, RecordShape, OneFate, LockExcludesRecord

\* A step that changes every key by a KeyStep or a KeyShrink keeps the invariant.
LEMMA StepsKeepStoreInv ==
    ASSUME StoreInv, StoreTypeOK', \A k \in Key : KeyStep(k) \/ KeyShrink(k)
    PROVE  StoreInv'
<1>1. \A k \in Key :
         /\ lock'[k] # NoLock => lock'[k].startTS \in StartTS
         /\ \A w \in write'[k] : Shaped(w)
         /\ \A w, x \in write'[k] : w.startTS = x.startTS => w = x
         /\ lock'[k] # NoLock => \A w \in write'[k] : w.startTS # lock'[k].startTS
  BY KeyStepKeeps, KeyShrinkKeeps
<1> QED
  BY <1>1 DEF StoreInv, LockStarted, RecordShape, OneFate, LockExcludesRecord, Shaped

-----------------------------------------------------------------------------
(* The operations of the store are made of key steps. *)

\* A transaction that meets no conflict has left no record on the key.
LEMMA NoConflictUnsettled ==
    ASSUME StoreInv, NEW k \in Key, NEW s \in StartTS, NEW f \in Nat, NEW notExist \in BOOLEAN,
           \A p \in CommitOf : p[1] = s => f < p[2],
           CheckConflictValue(k, f, s, notExist) = "ok"
    PROVE  Unsettled(k, s)
<1> SUFFICES ASSUME NEW x \in write[k], x.startTS = s
             PROVE  FALSE
  BY DEF Unsettled
<1>1. x \in WriteRec /\ Shaped(x)
  BY DEF StoreInv, StoreTypeOK, RecordShape
<1>2. CASE x.type = "Rollback"
  <2>1. RollbackFound(k, s)
    BY <1>1, <1>2 DEF RollbackFound, Shaped
  <2>2. ExistingValue(k, s) => ExistingValue(k, 0)
    <3>1. s > 0 /\ s \in Nat
      BY StartAssumption, MaxTSAssumption DEF TS
    <3>2. \A w \in write[k] : w.commitTS \in Nat
      BY MaxTSAssumption DEF StoreInv, StoreTypeOK, WriteRec, TS
    <3> QED  BY <3>1, <3>2 DEF ExistingValue
  <2> QED  BY <2>1, <2>2 DEF CheckConflictValue
<1>3. CASE x.type # "Rollback"
  <2>1. <<s, x.commitTS>> \in CommitOf
    BY <1>1, <1>3 DEF Shaped
  <2>2. f < x.commitTS
    BY <2>1
  <2>3. x.commitTS > f
    BY <2>2, <1>1, MaxTSAssumption DEF WriteRec, TS
  <2> QED  BY <2>3 DEF CheckConflictValue
<1> QED  BY <1>2, <1>3

\* Prewrite locks keys on which its transaction has left no record.
LEMMA PrewriteSteps ==
    ASSUME StoreInv, NEW q, q.startTS \in StartTS, q.primary \in Key, q.ttl \in Nat,
           q.minCommitTS \in Nat,
           \A k \in DOMAIN q.mutations : q.mutations[k] \in MutationOp,
           Prewrite(q)
    PROVE  StoreTypeOK' /\ \A k \in Key : KeyStep(k)
<1>1. CASE ~PrewriteOK(q)
  BY <1>1 DEF Prewrite, StoreInv, StoreTypeOK, KeyStep, KeyUnlock
<1>2. CASE PrewriteOK(q)
  <2> DEFINE Locks(k) == /\ k \in DOMAIN q.mutations
                         /\ q.mutations[k] # "CheckNotExists"
                         /\ HasLock(k, q.startTS) => lock[k].op = "PessimisticLock"
  <2>1. /\ lock' = [k \in Key |-> IF Locks(k) THEN PrewriteLock(k, q) ELSE lock[k]]
        /\ write' = write /\ waitFor' = waitFor
    BY <1>2 DEF Prewrite
  <2>2. ASSUME NEW k \in Key, Locks(k)
        PROVE  PrewriteLock(k, q) \in LockRec /\ PrewriteLock(k, q).startTS = q.startTS
    <3>1. q.mutations[k] \in {"Put", "Del", "Lock", "Insert"}
      BY <2>2, RequestAssumption
    <3>2. lock[k] # NoLock => lock[k] \in LockRec
      BY DEF StoreInv, StoreTypeOK
    <3> QED
      BY <3>1, <3>2, StartAssumption
      DEF PrewriteLock, LockRec, OpType, HasLock, Max2
  <2>3. ASSUME NEW k \in Key, Locks(k)
        PROVE  Unsettled(k, q.startTS)
    <3>1. CASE HasLock(k, q.startTS)
      BY <3>1 DEF HasLock, Unsettled, StoreInv, LockExcludesRecord
    <3>2. CASE ~HasLock(k, q.startTS)
      <4>1. PrewriteMutationError(k, q) = "ok"
        BY <1>2, <2>3 DEF PrewriteOK, PrewriteError
      <4>2. CheckConflictValue(k, q.startTS, q.startTS, FALSE) = "ok"
        BY <4>1, <3>2 DEF PrewriteMutationError
      <4>3. q.startTS \in Nat
        BY TimestampsNat
      <4>4. \A p \in CommitOf : p[1] = q.startTS => q.startTS < p[2]
        BY CommitAssumption
      <4> QED  BY <4>2, <4>3, <4>4, NoConflictUnsettled
    <3> QED  BY <3>1, <3>2
  <2>4. StoreTypeOK'
    BY <2>1, <2>2 DEF StoreInv, StoreTypeOK
  <2>5. ASSUME NEW k \in Key
        PROVE  KeyStep(k)
    <3>1. CASE Locks(k)
      BY <2>1, <2>2, <2>3, <3>1 DEF KeyStep, KeyLock
    <3>2. CASE ~Locks(k)
      BY <2>1, <3>2 DEF KeyStep, KeyUnlock
    <3> QED  BY <3>1, <3>2
  <2> QED  BY <2>4, <2>5
<1> QED  BY <1>1, <1>2

\* PessimisticLock locks keys on which its transaction has left no record.
LEMMA PessimisticLockSteps ==
    ASSUME StoreInv, NEW q, <<q.startTS, q.forUpdateTS>> \in ForUpdateOf, q.primary \in Key,
           q.ttl \in Nat, q.minCommitTS \in Nat, q.notExist \in BOOLEAN, q.keys \subseteq Key,
           PessimisticLock(q)
    PROVE  StoreTypeOK' /\ \A k \in Key : KeyStep(k)
<1>1. q.startTS \in StartTS /\ q.startTS \in TS /\ q.forUpdateTS \in Nat
  <2>1. <<q.startTS, q.forUpdateTS>> \in StartTS \X TS
    BY ForUpdateAssumption
  <2> QED  BY <2>1, TimestampsNat
<1>2. waitFor' \subseteq TS \X TS
  <2>1. PICK new \in NewWaits(q) : waitFor' = waitFor \cup new
    BY DEF PessimisticLock
  <2>2. ASSUME NEW k \in q.keys, PessimisticLockError(k, q) = "Locked"
        PROVE  <<q.startTS, lock[k].startTS>> \in TS \X TS
    <3>1. lock[k] # NoLock
      <4>1. CASE OtherLock(k, q.startTS)
        BY <4>1 DEF OtherLock
      <4>2. CASE ~OtherLock(k, q.startTS)
        BY <2>2, <4>2 DEF PessimisticLockError, CheckConflictValue
      <4> QED  BY <4>1, <4>2
    <3>2. lock[k].startTS \in TS
      BY <3>1 DEF StoreInv, StoreTypeOK, LockRec
    <3> QED  BY <1>1, <3>2
  <2>3. new \subseteq TS \X TS
    BY <2>1, <2>2 DEF NewWaits
  <2> QED  BY <2>1, <2>3 DEF StoreInv, StoreTypeOK
<1>3. CASE ~PessimisticLockOK(q)
  BY <1>2, <1>3 DEF PessimisticLock, StoreInv, StoreTypeOK, KeyStep, KeyUnlock
<1>4. CASE PessimisticLockOK(q)
  <2> DEFINE new == [startTS |-> q.startTS, primary |-> q.primary,
                     op |-> "PessimisticLock", ttl |-> q.ttl,
                     forUpdateTS |-> q.forUpdateTS, minCommitTS |-> q.minCommitTS]
  <2>1. /\ lock' = [k \in Key |-> IF k \in q.keys /\ lock[k] = NoLock THEN new ELSE lock[k]]
        /\ write' = write
    BY <1>4 DEF PessimisticLock
  <2>2. new \in LockRec /\ new.startTS = q.startTS
    BY <1>1 DEF LockRec, OpType
  <2>3. ASSUME NEW k \in q.keys, lock[k] = NoLock
        PROVE  Unsettled(k, q.startTS)
    <3>1. CheckConflictValue(k, q.forUpdateTS, q.startTS, q.notExist) = "ok"
      BY <1>4, <2>3 DEF PessimisticLockOK, PessimisticLockError, OtherLock, HasLock
    <3>2. \A p \in CommitOf : p[1] = q.startTS => q.forUpdateTS < p[2]
      BY ForUpdateAssumption
    <3> QED  BY <1>1, <3>1, <3>2, NoConflictUnsettled
  <2> HIDE DEF new
  <2>4. StoreTypeOK'
    BY <1>2, <2>1, <2>2 DEF StoreInv, StoreTypeOK
  <2>5. ASSUME NEW k \in Key
        PROVE  KeyStep(k)
    <3>1. CASE k \in q.keys /\ lock[k] = NoLock
      BY <1>1, <2>1, <2>2, <2>3, <3>1 DEF KeyStep, KeyLock
    <3>2. CASE ~(k \in q.keys /\ lock[k] = NoLock)
      BY <2>1, <3>2 DEF KeyStep, KeyUnlock
    <3> QED  BY <3>1, <3>2
  <2> QED  BY <2>4, <2>5
<1> QED  BY <1>3, <1>4

\* Giving up a pessimistic lock leaves the records alone.
LEMMA PessimisticRollbackSteps ==
    ASSUME StoreInv, NEW K, NEW s, NEW f, PessimisticRollback(K, s, f)
    PROVE  StoreTypeOK' /\ \A k \in Key : KeyStep(k)
BY DEF PessimisticRollback, StoreInv, StoreTypeOK, KeyStep, KeyUnlock

\* The tombstone of a lock's transaction: well formed, and its first record.
LEMMA LockRollbackRecord ==
    ASSUME StoreInv, NEW k \in Key, lock[k] # NoLock, lock'[k] = NoLock,
           write'[k] = PutValue(write[k], RollbackRec(lock[k].startTS))
    PROVE  KeyRecord(k) /\ write'[k] \in SUBSET WriteRec
<1> DEFINE w == RollbackRec(lock[k].startTS)
<1>1. lock[k].startTS \in StartTS
  BY DEF StoreInv, LockStarted
<1>2. w \in WriteRec /\ Shaped(w) /\ w.startTS = lock[k].startTS
  BY <1>1, StartAssumption DEF RollbackRec, WriteRec, ValueType, Shaped
<1>3. Unsettled(k, w.startTS)
  BY <1>2 DEF Unsettled, StoreInv, LockExcludesRecord
<1>4. write[k] \subseteq WriteRec
  BY DEF StoreInv, StoreTypeOK
<1> HIDE DEF w
<1>5. write'[k] = PutValue(write[k], w)
  BY DEF w
<1> QED  BY <1>2, <1>3, <1>4, <1>5 DEF KeyRecord, PutValue

\* The commit record of a lock.
LEMMA LockCommitRecord ==
    ASSUME StoreInv, NEW k \in Key, lock[k] # NoLock, lock'[k] = NoLock,
           NEW c, <<lock[k].startTS, c>> \in CommitOf,
           write'[k] = PutValue(write[k], CommitRec(lock[k], c))
    PROVE  KeyRecord(k) /\ write'[k] \in SUBSET WriteRec
<1> DEFINE w == CommitRec(lock[k], c)
<1>1. lock[k].startTS \in TS /\ c \in TS
  BY CommitAssumption, StartAssumption
<1>2. w \in WriteRec /\ Shaped(w) /\ w.startTS = lock[k].startTS
  BY <1>1 DEF CommitRec, WriteRec, ValueType, Shaped
<1>3. Unsettled(k, w.startTS)
  BY <1>2 DEF Unsettled, StoreInv, LockExcludesRecord
<1>4. write[k] \subseteq WriteRec
  BY DEF StoreInv, StoreTypeOK
<1> HIDE DEF w
<1>5. write'[k] = PutValue(write[k], w)
  BY DEF w
<1> QED  BY <1>2, <1>3, <1>4, <1>5 DEF KeyRecord, PutValue

\* The tombstone of a transaction that left neither lock nor record.
LEMMA MissingRollbackRecord ==
    ASSUME StoreInv, NEW k \in Key, NEW s \in StartTS, NotPrewritten(k, s),
           lock'[k] = lock[k], write'[k] = PutValue(write[k], RollbackRec(s))
    PROVE  KeyRecord(k) /\ write'[k] \in SUBSET WriteRec
<1> DEFINE w == RollbackRec(s)
<1>1. w \in WriteRec /\ Shaped(w) /\ w.startTS = s
  BY StartAssumption DEF RollbackRec, WriteRec, ValueType, Shaped
<1>2. Unsettled(k, s)
  <2> SUFFICES ASSUME NEW x \in write[k], x.startTS = s
               PROVE  x \in TxnCommitInfo(k, s)
    BY DEF NotPrewritten, Unsettled
  <2>1. \A y \in write[k] : y.startTS = s => y = x
    BY DEF StoreInv, OneFate
  <2>2. x.commitTS <= x.commitTS
    BY MaxTSAssumption DEF StoreInv, StoreTypeOK, WriteRec, TS
  <2> QED  BY <2>1, <2>2 DEF TxnCommitInfo
<1>3. lock[k] # NoLock => lock[k].startTS # s
  BY DEF NotPrewritten, HasLock
<1>4. write[k] \subseteq WriteRec
  BY DEF StoreInv, StoreTypeOK
<1> HIDE DEF w
<1>5. write'[k] = PutValue(write[k], w)
  BY DEF w
<1> QED  BY <1>1, <1>2, <1>3, <1>4, <1>5 DEF KeyRecord, PutValue

\* Types key by key.
LEMMA TypedByKey ==
    ASSUME lock' = [k \in Key |-> lock'[k]], write' = [k \in Key |-> write'[k]],
           \A k \in Key : lock'[k] \in LockRec \cup {NoLock} /\ write'[k] \in SUBSET WriteRec,
           waitFor' \subseteq TS \X TS
    PROVE  StoreTypeOK'
BY DEF StoreTypeOK

\* Rolling back the locks of a transaction.
LEMMA RollbackLocksSteps ==
    ASSUME StoreInv, NEW K, NEW s, RollbackLocks(K, s), waitFor' \subseteq waitFor
    PROVE  StoreTypeOK' /\ \A k \in Key : KeyStep(k)
<1>1. ASSUME NEW k \in Key
      PROVE  /\ KeyStep(k)
             /\ lock'[k] \in LockRec \cup {NoLock}
             /\ write'[k] \in SUBSET WriteRec
  <2>1. CASE k \in K /\ HasLock(k, s)
    BY <2>1, LockRollbackRecord DEF RollbackLocks, HasLock, KeyStep
  <2>2. CASE ~(k \in K /\ HasLock(k, s))
    BY <2>2 DEF RollbackLocks, KeyStep, KeyUnlock, StoreInv, StoreTypeOK
  <2> QED  BY <2>1, <2>2
<1>2. lock' = [k \in Key |-> lock'[k]] /\ write' = [k \in Key |-> write'[k]]
  BY DEF RollbackLocks
<1>3. waitFor' \subseteq TS \X TS
  BY DEF StoreInv, StoreTypeOK
<1> QED  BY <1>1, <1>2, <1>3, TypedByKey

\* Committing the locks of a transaction.
LEMMA CommitLocksSteps ==
    ASSUME StoreInv, NEW K, NEW s, NEW c, <<s, c>> \in CommitOf, CommitLocks(K, s, c),
           waitFor' \subseteq waitFor
    PROVE  StoreTypeOK' /\ \A k \in Key : KeyStep(k)
<1>1. ASSUME NEW k \in Key
      PROVE  /\ KeyStep(k)
             /\ lock'[k] \in LockRec \cup {NoLock}
             /\ write'[k] \in SUBSET WriteRec
  <2>1. CASE k \in K /\ HasLock(k, s)
    BY <2>1, LockCommitRecord DEF CommitLocks, HasLock, KeyStep
  <2>2. CASE ~(k \in K /\ HasLock(k, s))
    BY <2>2 DEF CommitLocks, KeyStep, KeyUnlock, StoreInv, StoreTypeOK
  <2> QED  BY <2>1, <2>2
<1>2. lock' = [k \in Key |-> lock'[k]] /\ write' = [k \in Key |-> write'[k]]
  BY DEF CommitLocks
<1>3. waitFor' \subseteq TS \X TS
  BY DEF StoreInv, StoreTypeOK
<1> QED  BY <1>1, <1>2, <1>3, TypedByKey

\* Rollback also leaves tombstones on keys that were never prewritten.
LEMMA RollbackKeysSteps ==
    ASSUME StoreInv, NEW K, NEW s \in StartTS, RollbackKeys(K, s), waitFor' \subseteq waitFor
    PROVE  StoreTypeOK' /\ \A k \in Key : KeyStep(k)
<1>1. ASSUME NEW k \in Key
      PROVE  /\ KeyStep(k)
             /\ lock'[k] \in LockRec \cup {NoLock}
             /\ write'[k] \in SUBSET WriteRec
  <2>1. CASE k \in K /\ HasLock(k, s)
    BY <2>1, LockRollbackRecord DEF RollbackKeys, HasLock, KeyStep
  <2>2. CASE k \in K /\ NotPrewritten(k, s)
    <3>1. lock'[k] = lock[k] /\ write'[k] = PutValue(write[k], RollbackRec(s))
      BY <2>2 DEF RollbackKeys, NotPrewritten
    <3>2. lock[k] \in LockRec \cup {NoLock}
      BY DEF StoreInv, StoreTypeOK
    <3> QED  BY <2>2, <3>1, <3>2, MissingRollbackRecord DEF KeyStep
  <2>3. CASE ~(k \in K /\ (HasLock(k, s) \/ NotPrewritten(k, s)))
    BY <2>3 DEF RollbackKeys, KeyStep, KeyUnlock, StoreInv, StoreTypeOK
  <2> QED  BY <2>1, <2>2, <2>3
<1>2. lock' = [k \in Key |-> lock'[k]] /\ write' = [k \in Key |-> write'[k]]
  BY DEF RollbackKeys
<1>3. waitFor' \subseteq TS \X TS
  BY DEF StoreInv, StoreTypeOK
<1> QED  BY <1>1, <1>2, <1>3, TypedByKey

\* A step that leaves locks and records alone.
LEMMA IdleSteps ==
    ASSUME StoreInv, lock' = lock, write' = write, waitFor' \subseteq waitFor
    PROVE  StoreTypeOK' /\ \A k \in Key : KeyStep(k)
BY DEF StoreInv, StoreTypeOK, KeyStep, KeyUnlock

\* Commit, with an arbitrary set of keys.
LEMMA CommitSteps ==
    ASSUME StoreInv, NEW K, NEW s, NEW c, <<s, c>> \in CommitOf, Commit(K, s, c)
    PROVE  StoreTypeOK' /\ \A k \in Key : KeyStep(k)
<1>1. waitFor' \subseteq waitFor
  BY DEF Commit, CleanUp
<1> QED  BY <1>1, CommitLocksSteps, IdleSteps DEF Commit

\* Rollback, with an arbitrary set of keys.
LEMMA RollbackSteps ==
    ASSUME StoreInv, NEW K, NEW s \in StartTS, Rollback(K, s)
    PROVE  StoreTypeOK' /\ \A k \in Key : KeyStep(k)
<1>1. waitFor' \subseteq waitFor
  BY DEF Rollback, CleanUp
<1> QED  BY <1>1, RollbackKeysSteps, IdleSteps DEF Rollback

\* Cleanup, which settles an expired lock and otherwise changes nothing.
LEMMA CleanupSteps ==
    ASSUME StoreInv, NEW k \in Key, NEW s, NEW cur, Cleanup(k, s, cur)
    PROVE  StoreTypeOK' /\ \A j \in Key : KeyStep(j)
<1>1. waitFor' \subseteq waitFor
  BY DEF Cleanup, CleanUp
<1> QED  BY <1>1, RollbackLocksSteps, IdleSteps DEF Cleanup

\* A lock whose TTL or minCommitTS changes stays a lock of its transaction.
LEMMA RelockSteps ==
    ASSUME StoreInv, NEW k \in Key, NEW l \in LockRec, lock[k] # NoLock,
           l.startTS = lock[k].startTS,
           lock' = [lock EXCEPT ![k] = l], write' = write, waitFor' = waitFor
    PROVE  StoreTypeOK' /\ \A j \in Key : KeyStep(j)
<1>1. l.startTS \in StartTS /\ Unsettled(k, l.startTS)
  BY DEF StoreInv, LockStarted, LockExcludesRecord, Unsettled
<1>2. StoreTypeOK'
  BY DEF StoreInv, StoreTypeOK
<1>3. ASSUME NEW j \in Key
      PROVE  KeyStep(j)
  <2>1. CASE j = k
    BY <1>1, <2>1 DEF KeyStep, KeyLock, StoreInv, StoreTypeOK
  <2>2. CASE j # k
    BY <2>2 DEF KeyStep, KeyUnlock, StoreInv, StoreTypeOK
  <2> QED  BY <2>1, <2>2
<1> QED  BY <1>2, <1>3

\* CheckTxnStatus on the primary of a transaction.
LEMMA CheckTxnStatusSteps ==
    ASSUME StoreInv, NEW k \in Key, NEW s \in StartTS, NEW caller \in Nat, NEW cur \in Nat,
           NEW r \in BOOLEAN, CheckTxnStatus(k, s, caller, cur, r)
    PROVE  StoreTypeOK' /\ \A j \in Key : KeyStep(j)
<1> DEFINE status == TxnStatus(k, s, caller, cur, r)
<1>0. waitFor' = waitFor
  BY DEF CheckTxnStatus
<1>1. CASE status = "TTLExpireRollback" /\ RollbackLocks({k}, s)
  BY <1>0, <1>1, RollbackLocksSteps
<1>2. CASE /\ status = "MinCommitTSPushed"
           /\ PushMinCommitTS(k, caller, cur)
           /\ UNCHANGED write
  <2>1. lock[k] # NoLock
    <3>1. HasLock(k, s)
      BY <1>2 DEF TxnStatus
    <3> QED  BY <3>1 DEF HasLock
  <2>2. lock[k] \in LockRec
    BY <2>1 DEF StoreInv, StoreTypeOK
  <2> DEFINE min == Max2(caller + 1, cur)
             l == [lock[k] EXCEPT !.minCommitTS = min]
  <2>3. min \in Nat
    BY DEF Max2
  <2> HIDE DEF min
  <2>4. l \in LockRec /\ l.startTS = lock[k].startTS
    BY <2>2, <2>3 DEF LockRec
  <2>5. lock' = lock \/ lock' = [lock EXCEPT ![k] = l]
    BY <1>2 DEF PushMinCommitTS, min
  <2> HIDE DEF l
  <2> QED  BY <1>0, <1>2, <2>1, <2>4, <2>5, IdleSteps, RelockSteps
<1>3. CASE /\ status = "LockNotExistRollback"
           /\ write' = [write EXCEPT ![k] = PutValue(@, RollbackRec(s))]
           /\ UNCHANGED lock
  <2>1. NotPrewritten(k, s)
    BY <1>3 DEF TxnStatus, NotPrewritten
  <2>2. /\ lock'[k] = lock[k]
        /\ write'[k] = PutValue(write[k], RollbackRec(s))
    BY <1>3 DEF StoreInv, StoreTypeOK
  <2>3. KeyRecord(k) /\ write'[k] \in SUBSET WriteRec
    BY <2>1, <2>2, MissingRollbackRecord
  <2>4. StoreTypeOK'
    BY <1>0, <1>3, <2>2, <2>3 DEF StoreInv, StoreTypeOK
  <2>5. \A j \in Key : j # k => KeyStep(j)
    BY <1>3 DEF KeyStep, KeyUnlock, StoreInv, StoreTypeOK
  <2> QED  BY <2>3, <2>4, <2>5 DEF KeyStep
<1>4. CASE UNCHANGED <<lock, write>>
  BY <1>0, <1>4, IdleSteps
<1> QED  BY <1>1, <1>2, <1>3, <1>4 DEF CheckTxnStatus

\* TxnHeartBeat only raises the TTL of a primary lock.
LEMMA HeartBeatSteps ==
    ASSUME StoreInv, NEW k \in Key, NEW s, NEW ttl \in Nat, TxnHeartBeat(k, s, ttl)
    PROVE  StoreTypeOK' /\ \A j \in Key : KeyStep(j)
<1>1. CASE HeartBeatOK(k, s)
  <2>1. lock[k] # NoLock /\ lock[k] \in LockRec
    BY <1>1 DEF HeartBeatOK, HasLock, StoreInv, StoreTypeOK
  <2> DEFINE l == [lock[k] EXCEPT !.ttl = Max2(@, ttl)]
  <2>2. l \in LockRec /\ l.startTS = lock[k].startTS
    BY <2>1 DEF LockRec, Max2
  <2>3. lock' = [lock EXCEPT ![k] = l] /\ write' = write /\ waitFor' = waitFor
    BY <1>1 DEF TxnHeartBeat
  <2> HIDE DEF l
  <2> QED  BY <2>1, <2>2, <2>3, RelockSteps
<1>2. CASE ~HeartBeatOK(k, s)
  BY <1>2, IdleSteps DEF TxnHeartBeat
<1> QED  BY <1>1, <1>2

\* ResolveLock and BatchResolveLock settle locks as they are told.
LEMMA ResolveLocksSteps ==
    ASSUME StoreInv, NEW K, NEW infos,
           \A s \in DOMAIN infos : infos[s] = 0 \/ <<s, infos[s]>> \in CommitOf,
           ResolveLocks(K, infos)
    PROVE  StoreTypeOK' /\ \A k \in Key : KeyStep(k)
<1> DEFINE hit(k) == k \in K /\ lock[k] # NoLock /\ lock[k].startTS \in DOMAIN infos
           rec(k) == IF infos[lock[k].startTS] > 0
                     THEN CommitRec(lock[k], infos[lock[k].startTS])
                     ELSE RollbackRec(lock[k].startTS)
<1>1. /\ lock' = [k \in Key |-> IF hit(k) THEN NoLock ELSE lock[k]]
      /\ write' = [k \in Key |-> IF hit(k) THEN PutValue(write[k], rec(k)) ELSE write[k]]
      /\ waitFor' = waitFor
  BY DEF ResolveLocks
<1>2. ASSUME NEW k \in Key
      PROVE  /\ KeyStep(k)
             /\ lock'[k] \in LockRec \cup {NoLock}
             /\ write'[k] \in SUBSET WriteRec
  <2>1. CASE hit(k)
    <3>1. lock'[k] = NoLock /\ write'[k] = PutValue(write[k], rec(k))
      BY <1>1, <2>1
    <3>2. CASE infos[lock[k].startTS] > 0
      <4>1. rec(k) = CommitRec(lock[k], infos[lock[k].startTS])
        BY <3>2
      <4>2. infos[lock[k].startTS] # 0
        BY <3>2
      <4>3. <<lock[k].startTS, infos[lock[k].startTS]>> \in CommitOf
        BY <2>1, <4>2
      <4> QED  BY <2>1, <3>1, <4>1, <4>3, LockCommitRecord DEF KeyStep
    <3>3. CASE ~(infos[lock[k].startTS] > 0)
      <4>1. rec(k) = RollbackRec(lock[k].startTS)
        BY <3>3
      <4> QED  BY <2>1, <3>1, <4>1, LockRollbackRecord DEF KeyStep
    <3> QED  BY <3>2, <3>3
  <2>2. CASE ~hit(k)
    BY <1>1, <2>2 DEF KeyStep, KeyUnlock, StoreInv, StoreTypeOK
  <2> QED  BY <2>1, <2>2
<1>3. lock' = [k \in Key |-> lock'[k]] /\ write' = [k \in Key |-> write'[k]]
  BY <1>1
<1>4. waitFor' \subseteq TS \X TS
  BY <1>1 DEF StoreInv, StoreTypeOK
<1> QED  BY <1>2, <1>3, <1>4, TypedByKey

-----------------------------------------------------------------------------
(* The requests. *)

\* Requests that answer no promise: all but rollbacks, GC and DeleteRange.
PlainRequest ==
    \/ KvPrewrite \/ KvPessimisticLock \/ KvPessimisticRollback \/ KvCommit
    \/ KvTxnHeartBeat \/ KvResolveLock \/ StoreBatchResolveLock

\* A request whose answer promises no rollback changes each key by a key step.
LEMMA PlainRequestSteps ==
    ASSUME StoreInv, PlainRequest
    PROVE  /\ StoreTypeOK' /\ \A k \in Key : KeyStep(k)
           /\ rolledBack' = rolledBack /\ cleanedUp' = cleanedUp
<1>1. CASE KvPrewrite
  <2>1. PICK s \in StartTS, K \in KeySet, ttl \in LockTTL, f \in BOOLEAN :
          \E m \in [K -> MutationOp], min \in MinCommitTS(s), P \in SUBSET K :
             /\ f = FALSE => P = {}
             /\ Prewrite([mutations |-> m, startTS |-> s, primary |-> PrimaryOf[s],
                          ttl |-> ttl, minCommitTS |-> min, pessimistic |-> P,
                          forUpdateTS |-> IF f THEN s ELSE 0, resolved |-> {}])
             /\ UNCHANGED told
    BY <1>1 DEF KvPrewrite
  <2>2. PICK m \in [K -> MutationOp], min \in MinCommitTS(s), P \in SUBSET K :
             /\ Prewrite([mutations |-> m, startTS |-> s, primary |-> PrimaryOf[s],
                          ttl |-> ttl, minCommitTS |-> min, pessimistic |-> P,
                          forUpdateTS |-> IF f THEN s ELSE 0, resolved |-> {}])
             /\ UNCHANGED told
    BY <2>1
  <2> DEFINE q == [mutations |-> m, startTS |-> s, primary |-> PrimaryOf[s],
                   ttl |-> ttl, minCommitTS |-> min, pessimistic |-> P,
                   forUpdateTS |-> IF f THEN s ELSE 0, resolved |-> {}]
  <2>3. PrimaryOf[s] \in Key /\ ttl \in Nat
    BY RequestAssumption
  <2>4. min \in Nat
    BY MinCommitNat
  <2>5. /\ q.startTS \in StartTS /\ q.primary \in Key /\ q.ttl \in Nat /\ q.minCommitTS \in Nat
        /\ \A k \in DOMAIN q.mutations : q.mutations[k] \in MutationOp
        /\ Prewrite(q)
    BY <2>2, <2>3, <2>4
  <2> HIDE DEF q
  <2>6. StoreTypeOK' /\ \A k \in Key : KeyStep(k)
    BY <2>5, PrewriteSteps
  <2> QED  BY <2>2, <2>6 DEF told
<1>2. CASE KvPessimisticLock
  <2>1. PICK p \in ForUpdateOf, K \in KeySet, ttl \in LockTTL :
          \E min \in MinCommitTS(p[1]), notExist, noWait \in BOOLEAN :
            /\ PessimisticLock([keys |-> K, startTS |-> p[1], primary |-> PrimaryOf[p[1]],
                                ttl |-> ttl, forUpdateTS |-> p[2], minCommitTS |-> min,
                                notExist |-> notExist, noWait |-> noWait])
            /\ UNCHANGED told
    BY <1>2 DEF KvPessimisticLock
  <2>2. PICK min \in MinCommitTS(p[1]), notExist \in BOOLEAN, noWait \in BOOLEAN :
            /\ PessimisticLock([keys |-> K, startTS |-> p[1], primary |-> PrimaryOf[p[1]],
                                ttl |-> ttl, forUpdateTS |-> p[2], minCommitTS |-> min,
                                notExist |-> notExist, noWait |-> noWait])
            /\ UNCHANGED told
    BY <2>1
  <2> DEFINE q == [keys |-> K, startTS |-> p[1], primary |-> PrimaryOf[p[1]],
                   ttl |-> ttl, forUpdateTS |-> p[2], minCommitTS |-> min,
                   notExist |-> notExist, noWait |-> noWait]
  <2>3. p \in StartTS \X TS /\ p = <<p[1], p[2]>>
    BY ForUpdateAssumption
  <2>4. PrimaryOf[p[1]] \in Key /\ ttl \in Nat
    BY <2>3, RequestAssumption
  <2>5. min \in Nat
    <3>1. p[1] \in StartTS
      BY <2>3
    <3> QED  BY <3>1, MinCommitNat
  <2>6. /\ q.startTS = p[1] /\ q.forUpdateTS = p[2] /\ q.primary \in Key /\ q.ttl \in Nat
        /\ q.minCommitTS \in Nat /\ q.notExist \in BOOLEAN /\ q.keys \subseteq Key
        /\ PessimisticLock(q)
    BY <2>2, <2>4, <2>5 DEF KeySet
  <2> HIDE DEF q
  <2>7. <<q.startTS, q.forUpdateTS>> \in ForUpdateOf
    BY <2>3, <2>6
  <2>8. StoreTypeOK' /\ \A k \in Key : KeyStep(k)
    BY <2>6, <2>7, PessimisticLockSteps
  <2> QED  BY <2>2, <2>8 DEF told
<1>3. CASE KvPessimisticRollback
  BY <1>3, PessimisticRollbackSteps DEF KvPessimisticRollback, told
<1>4. CASE KvCommit
  <2>1. PICK p \in CommitOf, K \in KeySet : Commit(K, p[1], p[2]) /\ UNCHANGED told
    BY <1>4 DEF KvCommit
  <2>2. <<p[1], p[2]>> \in CommitOf
    BY CommitAssumption
  <2> QED  BY <2>1, <2>2, CommitSteps DEF told
<1>5. CASE KvTxnHeartBeat
  <2>1. PICK s \in StartTS, ttl \in LockTTL :
           TxnHeartBeat(PrimaryOf[s], s, ttl) /\ UNCHANGED told
    BY <1>5 DEF KvTxnHeartBeat
  <2>2. PrimaryOf[s] \in Key /\ ttl \in Nat
    BY RequestAssumption
  <2> QED  BY <2>1, <2>2, HeartBeatSteps DEF told
<1>6. CASE KvResolveLock
  <2>1. PICK K \in KeySet, s \in StartTS :
           /\ \/ ResolveLock(K, s, 0)
              \/ \E p \in CommitOf : p[1] = s /\ ResolveLock(K, s, p[2])
           /\ UNCHANGED told
    BY <1>6 DEF KvResolveLock
  <2>2. PICK c : ResolveLock(K, s, c) /\ (c = 0 \/ <<s, c>> \in CommitOf)
    <3>1. CASE ResolveLock(K, s, 0)
      BY <3>1
    <3>2. CASE \E p \in CommitOf : p[1] = s /\ ResolveLock(K, s, p[2])
      <4>1. PICK p \in CommitOf : p[1] = s /\ ResolveLock(K, s, p[2])
        BY <3>2
      <4>2. <<s, p[2]>> \in CommitOf
        BY <4>1, CommitAssumption
      <4> QED  BY <4>1, <4>2
    <3> QED  BY <2>1, <3>1, <3>2
  <2> DEFINE infos == [x \in {s} |-> c]
  <2>3. \A x \in DOMAIN infos : infos[x] = 0 \/ <<x, infos[x]>> \in CommitOf
    BY <2>2
  <2>4. ResolveLocks(K, infos)
    BY <2>2 DEF ResolveLock
  <2> HIDE DEF infos
  <2> QED  BY <2>1, <2>3, <2>4, ResolveLocksSteps DEF told
<1>7. CASE StoreBatchResolveLock
  <2>1. PICK K \in KeySet, S \in SUBSET StartTS :
          \E infos \in [S -> {0} \cup {p[2] : p \in CommitOf}] :
            /\ \A s \in S : infos[s] = 0 \/ <<s, infos[s]>> \in CommitOf
            /\ BatchResolveLock(K, infos)
            /\ UNCHANGED told
    BY <1>7 DEF StoreBatchResolveLock
  <2>2. PICK infos \in [S -> {0} \cup {p[2] : p \in CommitOf}] :
            /\ \A s \in S : infos[s] = 0 \/ <<s, infos[s]>> \in CommitOf
            /\ BatchResolveLock(K, infos)
            /\ UNCHANGED told
    BY <2>1
  <2>3. \A s \in DOMAIN infos : infos[s] = 0 \/ <<s, infos[s]>> \in CommitOf
    BY <2>2
  <2> QED  BY <2>2, <2>3, ResolveLocksSteps DEF BatchResolveLock, told
<1> QED  BY <1>1, <1>2, <1>3, <1>4, <1>5, <1>6, <1>7 DEF PlainRequest

\* Whoever is told that a settled transaction is rolled back, the tombstone is there.
LEMMA RolledBackRecord ==
    ASSUME StoreInv, NEW k \in Key, NEW s \in StartTS,
           TxnCommitInfo(k, s) # {}, ~Committed(k, s)
    PROVE  RollbackRec(s) \in write[k]
<1>1. PICK w \in TxnCommitInfo(k, s) : w.type = "Rollback"
  BY DEF Committed
<1>2. w \in write[k] /\ w.startTS = s
  BY DEF TxnCommitInfo
<1>3. w \in WriteRec /\ w.commitTS = s
  BY <1>1, <1>2 DEF StoreInv, StoreTypeOK, RecordShape, Shaped
<1> QED  BY <1>1, <1>2, <1>3 DEF RollbackRec, WriteRec

\* BatchRollback, Cleanup and CheckTxnStatus back their answer with a tombstone.
LEMMA RollbackRequestSteps ==
    ASSUME StoreInv, TypeOK, KvBatchRollback \/ KvCleanup \/ KvCheckTxnStatus
    PROVE  /\ StoreTypeOK' /\ \A k \in Key : KeyStep(k)
           /\ rolledBack' \subseteq Key \X StartTS /\ cleanedUp' \subseteq Key \X StartTS
           /\ \A t \in rolledBack' \ rolledBack : RollbackRec(t[2]) \in write'[t[1]]
<1>0. rolledBack \subseteq Key \X StartTS /\ cleanedUp \subseteq Key \X StartTS
  BY DEF TypeOK
<1>1. CASE KvBatchRollback
  <2>1. PICK s \in StartTS, K \in KeySet :
          /\ Rollback(K, s)
          /\ rolledBack' = IF RollbackOK(K, s) THEN rolledBack \cup (K \X {s}) ELSE rolledBack
          /\ UNCHANGED cleanedUp
    BY <1>1 DEF KvBatchRollback
  <2>2. StoreTypeOK' /\ \A k \in Key : KeyStep(k)
    BY <2>1, RollbackSteps
  <2>3. ASSUME NEW k \in K, RollbackOK(K, s)
        PROVE  RollbackRec(s) \in write'[k]
    <3>1. k \in Key /\ RollbackKeys(K, s)
      BY <2>1, <2>3 DEF Rollback, KeySet
    <3>2. CASE HasLock(k, s) \/ NotPrewritten(k, s)
      BY <3>1, <3>2 DEF RollbackKeys, PutValue
    <3>3. CASE ~(HasLock(k, s) \/ NotPrewritten(k, s))
      <4>1. write'[k] = write[k]
        BY <3>1, <3>3 DEF RollbackKeys
      <4>2. TxnCommitInfo(k, s) # {} /\ ~Committed(k, s)
        BY <2>3, <3>3 DEF RollbackOK, RollbackError, NotPrewritten
      <4> QED  BY <3>1, <4>1, <4>2, RolledBackRecord
    <3> QED  BY <3>2, <3>3
  <2>4. rolledBack' \subseteq Key \X StartTS
    BY <1>0, <2>1 DEF KeySet
  <2>5. \A t \in rolledBack' \ rolledBack : RollbackRec(t[2]) \in write'[t[1]]
    BY <2>1, <2>3
  <2> QED  BY <1>0, <2>1, <2>2, <2>4, <2>5
<1>2. CASE KvCleanup
  <2>1. PICK s \in StartTS, k \in Key, cur \in CheckTS \cup {0} :
          /\ Cleanup(k, s, cur)
          /\ cleanedUp' \in {cleanedUp, cleanedUp \cup {<<k, s>>}}
          /\ UNCHANGED rolledBack
    BY <1>2 DEF KvCleanup
  <2>2. StoreTypeOK' /\ \A j \in Key : KeyStep(j)
    BY <2>1, CleanupSteps
  <2> QED  BY <1>0, <2>1, <2>2
<1>3. CASE KvCheckTxnStatus
  <2>1. PICK s \in StartTS, caller \in CheckTS, cur \in CheckTS, r \in BOOLEAN :
          /\ CheckTxnStatus(PrimaryOf[s], s, caller, cur, r)
          /\ rolledBack' = IF TxnStatus(PrimaryOf[s], s, caller, cur, r) \in
                               {"TTLExpireRollback", "RolledBack", "LockNotExistRollback"}
                           THEN rolledBack \cup {<<PrimaryOf[s], s>>} ELSE rolledBack
          /\ UNCHANGED cleanedUp
    BY <1>3 DEF KvCheckTxnStatus
  <2> DEFINE k == PrimaryOf[s]
             status == TxnStatus(k, s, caller, cur, r)
  <2>2. k \in Key
    BY RequestAssumption
  <2>3. caller \in Nat /\ cur \in Nat
    BY RequestAssumption, TimestampsNat, MaxTSAssumption DEF MaxUint64
  <2> HIDE DEF k
  <2>4. CheckTxnStatus(k, s, caller, cur, r)
    BY <2>1 DEF k
  <2>5. StoreTypeOK' /\ \A j \in Key : KeyStep(j)
    BY <2>2, <2>3, <2>4, CheckTxnStatusSteps
  <2>6. ASSUME status \in {"TTLExpireRollback", "RolledBack", "LockNotExistRollback"}
        PROVE  RollbackRec(s) \in write'[k]
    <3>1. CASE status = "TTLExpireRollback"
      <4>1. HasLock(k, s)
        BY <3>1 DEF TxnStatus
      <4>2. RollbackLocks({k}, s)
        BY <2>4, <3>1 DEF CheckTxnStatus
      <4> QED  BY <2>2, <4>1, <4>2 DEF RollbackLocks, PutValue
    <3>2. CASE status = "RolledBack"
      <4>1. TxnCommitInfo(k, s) # {} /\ ~Committed(k, s)
        BY <3>2 DEF TxnStatus
      <4>2. write' = write
        BY <2>4, <3>2 DEF CheckTxnStatus
      <4> QED  BY <2>2, <4>1, <4>2, RolledBackRecord
    <3>3. CASE status = "LockNotExistRollback"
      <4>1. write' = [write EXCEPT ![k] = PutValue(@, RollbackRec(s))]
        BY <2>4, <3>3 DEF CheckTxnStatus
      <4> QED  BY <2>2, <4>1 DEF PutValue, StoreInv, StoreTypeOK
    <3> QED  BY <2>6, <3>1, <3>2, <3>3
  <2>7. /\ status \in {"TTLExpireRollback", "RolledBack", "LockNotExistRollback"}
                => rolledBack' = rolledBack \cup {<<k, s>>}
        /\ status \notin {"TTLExpireRollback", "RolledBack", "LockNotExistRollback"}
                => rolledBack' = rolledBack
    BY <2>1 DEF k
  <2> HIDE DEF status
  <2>8. rolledBack' \subseteq Key \X StartTS
    BY <1>0, <2>2, <2>7
  <2>9. \A t \in rolledBack' \ rolledBack : RollbackRec(t[2]) \in write'[t[1]]
    BY <2>6, <2>7
  <2> QED  BY <1>0, <2>1, <2>5, <2>8, <2>9
<1> QED  BY <1>1, <1>2, <1>3

\* GC keeps the tombstones newer than the safe point; DeleteRange keeps those
\* outside its range.
LEMMA RemovalSteps ==
    ASSUME IInv, KvGC \/ KvDeleteRange
    PROVE  /\ StoreTypeOK' /\ \A k \in Key : KeyShrink(k)
           /\ rolledBack' \subseteq rolledBack /\ cleanedUp' \subseteq cleanedUp
           /\ Tombstoned'
<1>0. /\ StoreTypeOK /\ rolledBack \subseteq Key \X StartTS
      /\ \A t \in rolledBack : RollbackRec(t[2]) \in write[t[1]]
  BY DEF IInv, StoreInv, TypeOK, Tombstoned
<1>1. CASE KvGC
  <2>1. PICK K \in KeySet, sp \in CheckTS :
          /\ ~GCError(K, sp)
          /\ GC(K, sp)
          /\ rolledBack' = {t \in rolledBack : ~(t[1] \in K /\ t[2] <= sp)}
          /\ cleanedUp' = {t \in cleanedUp : ~(t[1] \in K /\ t[2] <= sp)}
    BY <1>1 DEF KvGC
  <2>2. /\ lock' = lock /\ waitFor' = waitFor
        /\ write' = [k \in Key |-> IF k \in K THEN GCKeep(write[k], sp) ELSE write[k]]
    BY <2>1 DEF GC
  <2>3. \A k \in Key : GCKeep(write[k], sp) \subseteq write[k]
    BY DEF GCKeep
  <2>4. StoreTypeOK' /\ \A k \in Key : KeyShrink(k)
    BY <1>0, <2>2, <2>3 DEF StoreTypeOK, KeyShrink
  <2>5. Tombstoned'
    <3> SUFFICES ASSUME NEW t \in rolledBack'
                 PROVE  RollbackRec(t[2]) \in write'[t[1]]
      BY DEF Tombstoned, RollbackRec
    <3>1. /\ t \in rolledBack /\ ~(t[1] \in K /\ t[2] <= sp)
          /\ t[1] \in Key /\ t[2] \in StartTS
          /\ RollbackRec(t[2]) \in write[t[1]]
      BY <1>0, <2>1
    <3>2. CASE t[1] \in K
      <4>1. sp \in Nat
        BY RequestAssumption, TimestampsNat, MaxTSAssumption DEF MaxUint64
      <4>2. t[2] \in Nat
        BY <3>1, TimestampsNat
      <4>3. RollbackRec(t[2]).commitTS > sp
        BY <3>1, <3>2, <4>1, <4>2 DEF RollbackRec
      <4>4. RollbackRec(t[2]) \in GCKeep(write[t[1]], sp)
        BY <3>1, <4>3 DEF GCKeep
      <4> QED  BY <2>2, <3>1, <3>2, <4>4
    <3>3. CASE t[1] \notin K
      BY <2>2, <3>1, <3>3
    <3> QED  BY <3>2, <3>3
  <2> QED  BY <2>1, <2>4, <2>5
<1>2. CASE KvDeleteRange
  <2>1. PICK K \in KeySet :
          /\ DeleteRange(K)
          /\ rolledBack' = {t \in rolledBack : t[1] \notin K}
          /\ cleanedUp' = {t \in cleanedUp : t[1] \notin K}
    BY <1>2 DEF KvDeleteRange
  <2>2. StoreTypeOK' /\ \A k \in Key : KeyShrink(k)
    BY <1>0, <2>1 DEF DeleteRange, StoreTypeOK, KeyShrink
  <2>3. Tombstoned'
    BY <1>0, <2>1 DEF DeleteRange, Tombstoned, RollbackRec
  <2> QED  BY <2>1, <2>2, <2>3
<1> QED  BY <1>1, <1>2

-----------------------------------------------------------------------------
(* The invariant and the theorems. *)

\* The empty store satisfies the invariant (NewMVCCLevelDB).
LEMMA InitIInv == Init => IInv
BY DEF Init, StoreInit, IInv, StoreInv, TypeOK, StoreTypeOK, Tombstoned, LockStarted,
       RecordShape, OneFate, LockExcludesRecord

\* Every request the store handles keeps the invariant.
LEMMA StepIInv ==
    ASSUME IInv, [Next]_vars
    PROVE  IInv'
<1>0. StoreInv /\ TypeOK /\ Tombstoned
  BY DEF IInv
<1>1. CASE PlainRequest \/ KvBatchRollback \/ KvCleanup \/ KvCheckTxnStatus
  <2>1. /\ StoreTypeOK' /\ \A k \in Key : KeyStep(k)
        /\ rolledBack' \subseteq Key \X StartTS /\ cleanedUp' \subseteq Key \X StartTS
        /\ \A t \in rolledBack' \ rolledBack : RollbackRec(t[2]) \in write'[t[1]]
    <3>1. CASE PlainRequest
      BY <1>0, <3>1, PlainRequestSteps DEF TypeOK
    <3>2. CASE KvBatchRollback \/ KvCleanup \/ KvCheckTxnStatus
      BY <1>0, <3>2, RollbackRequestSteps
    <3> QED  BY <1>1, <3>1, <3>2
  <2>2. StoreInv'
    BY <1>0, <2>1, StepsKeepStoreInv
  <2>3. \A t \in rolledBack : RollbackRec(t[2]) \in write'[t[1]]
    <3>1. \A t \in rolledBack : t[1] \in Key /\ RollbackRec(t[2]) \in write[t[1]]
      BY <1>0 DEF TypeOK, Tombstoned
    <3>2. \A k \in Key : write[k] \subseteq write'[k]
      BY <1>0, <2>1, KeyStepGrows
    <3> QED  BY <3>1, <3>2
  <2>4. Tombstoned'
    BY <2>1, <2>3 DEF Tombstoned, RollbackRec
  <2> QED  BY <2>1, <2>2, <2>4 DEF IInv, TypeOK
<1>2. CASE KvGC \/ KvDeleteRange
  <2>1. /\ StoreTypeOK' /\ \A k \in Key : KeyShrink(k)
        /\ rolledBack' \subseteq rolledBack /\ cleanedUp' \subseteq cleanedUp
        /\ Tombstoned'
    BY <1>2, RemovalSteps
  <2>2. StoreInv'
    BY <1>0, <2>1, StepsKeepStoreInv
  <2> QED  BY <1>0, <2>1, <2>2 DEF IInv, TypeOK
<1>3. CASE UNCHANGED vars
  BY <1>3 DEF vars, IInv, StoreInv, TypeOK, StoreTypeOK, Tombstoned, LockStarted,
              RecordShape, Shaped, OneFate, LockExcludesRecord, RollbackRec
<1> QED  BY <1>1, <1>2, <1>3 DEF Next, PlainRequest

\* Spec keeps the inductive invariant: whatever requests the MVCCLevelDB handles,
\* in any order and any number of times.
THEOREM Invariance == Spec => []IInv
BY InitIInv, StepIInv, PTL DEF Spec

\* The store's records keep the shape of mvccLock and mvccValue.
THEOREM TypeCorrect == Spec => []TypeOK
<1>1. IInv => TypeOK
  BY DEF IInv
<1> QED  BY <1>1, Invariance, PTL

\* A transaction leaves at most one record on a key (getTxnCommitInfo is
\* consulted before commitLock and writeRollback put one).
THEOREM OneFateHolds == Spec => []OneFate
<1>1. IInv => OneFate
  BY DEF IInv, StoreInv
<1> QED  BY <1>1, Invariance, PTL

\* A settled key is not locked again by its transaction (checkConflictValue).
THEOREM LockExcludesRecordHolds == Spec => []LockExcludesRecord
<1>1. IInv => LockExcludesRecord
  BY DEF IInv, StoreInv
<1> QED  BY <1>1, Invariance, PTL

\* The answer "rolled back" of Rollback and CheckTxnStatus is final until the
\* tombstone is collected.
THEOREM RollbackFinalHolds == Spec => []RollbackFinal
<1>1. IInv => RollbackFinal
  <2> SUFFICES ASSUME IInv, NEW t \in rolledBack
               PROVE  /\ ~HasLock(t[1], t[2])
                      /\ \A w \in write[t[1]] : w.startTS = t[2] => w.type = "Rollback"
    BY DEF RollbackFinal
  <2>1. t[1] \in Key /\ RollbackRec(t[2]) \in write[t[1]]
    BY DEF IInv, TypeOK, Tombstoned
  <2>2. RollbackRec(t[2]).startTS = t[2] /\ RollbackRec(t[2]).type = "Rollback"
    BY DEF RollbackRec
  <2> QED  BY <2>1, <2>2 DEF IInv, StoreInv, OneFate, LockExcludesRecord, HasLock
<1> QED  BY <1>1, Invariance, PTL

\* No request but GC and DeleteRange removes or overwrites a record.
THEOREM HistoryKeptHolds == Spec => HistoryKept
<1> DEFINE Kept == \/ \A k \in Key : write[k] \subseteq write'[k]
                   \/ \E K \in KeySet, sp \in CheckTS : GC(K, sp)
                   \/ \E K \in KeySet : DeleteRange(K)
<1>1. ASSUME IInv, [Next]_vars
      PROVE  [Kept]_vars
  <2>0. StoreInv /\ TypeOK
    BY <1>1 DEF IInv
  <2>1. CASE PlainRequest
    BY <2>0, <2>1, PlainRequestSteps, KeyStepGrows
  <2>2. CASE KvBatchRollback \/ KvCleanup \/ KvCheckTxnStatus
    BY <2>0, <2>2, RollbackRequestSteps, KeyStepGrows
  <2>3. CASE KvGC
    BY <2>3 DEF KvGC
  <2>4. CASE KvDeleteRange
    BY <2>4 DEF KvDeleteRange
  <2>5. CASE UNCHANGED vars
    BY <2>5
  <2> QED  BY <1>1, <2>1, <2>2, <2>3, <2>4, <2>5 DEF Next, PlainRequest
<1>2. [][Kept]_vars => HistoryKept
  BY PTL DEF HistoryKept
<1> QED  BY <1>1, <1>2, Invariance, PTL DEF Spec

-----------------------------------------------------------------------------
(* The deadlock detector. *)

\* An edge leads from its waiter to its holder.
LEMMA ReachesEdge ==
    ASSUME NEW E, NEW e \in E
    PROVE  Reaches(E, e[1], e[2])
BY DEF Reaches

\* A path can be continued.
LEMMA ReachesTransitive ==
    ASSUME NEW E, NEW a, NEW b, NEW c, Reaches(E, a, b), Reaches(E, b, c)
    PROVE  Reaches(E, a, c)
BY DEF Reaches

\* Removing edges adds no path.
LEMMA ReachesMonotone ==
    ASSUME NEW E, NEW F, E \subseteq F, NEW a, NEW b, Reaches(E, a, b)
    PROVE  Reaches(F, a, b)
BY DEF Reaches

\* What can be reached is closed under the edges, as the breadth of doDetect is.
LEMMA ReachableClosed ==
    ASSUME NEW E, E \subseteq TS \X TS, NEW a \in TS,
           NEW R, R = {x \in TS : Reaches(E, a, x)}
    PROVE  /\ R \in SUBSET TS /\ a \in R
           /\ \A e \in E : e[1] \in R => e[2] \in R
<1>1. Reaches(E, a, a)
  BY DEF Reaches
<1>2. ASSUME NEW e \in E, e[1] \in R
      PROVE  e[2] \in R
  <2>1. Reaches(E, a, e[1]) /\ e[2] \in TS
    BY <1>2
  <2>2. Reaches(E, a, e[2])
    BY <2>1, ReachesEdge, ReachesTransitive
  <2> QED  BY <2>1, <2>2
<1> QED  BY <1>1, <1>2

\* Registering edges of one waiter to holders that do not reach it closes no
\* cycle (Detector.Detect).
LEMMA DetectKeepsAcyclic ==
    ASSUME NEW E, NEW N, NEW s, E \subseteq TS \X TS, N \subseteq TS \X TS,
           \A e \in E : ~Reaches(E, e[2], e[1]),
           \A n \in N : n[1] = s /\ ~Reaches(E, n[2], s)
    PROVE  \A e \in E \cup N : ~Reaches(E \cup N, e[2], e[1])
<1> DEFINE R(a) == {x \in TS : Reaches(E, a, x)}
<1>0. \A a \in TS : /\ R(a) \in SUBSET TS /\ a \in R(a)
                    /\ \A e \in E : e[1] \in R(a) => e[2] \in R(a)
  BY ReachableClosed
<1>1. ASSUME NEW a \in TS, s \notin R(a)
      PROVE  \A e \in E \cup N : e[1] \in R(a) => e[2] \in R(a)
  BY <1>0, <1>1
<1>2. ASSUME NEW n \in N
      PROVE  ~Reaches(E \cup N, n[2], n[1])
  <2>1. n[2] \in TS /\ n[1] = s /\ s \notin R(n[2])
    OBVIOUS
  <2>2. \A e \in E \cup N : e[1] \in R(n[2]) => e[2] \in R(n[2])
    BY <1>1, <2>1
  <2> HIDE DEF R
  <2> QED  BY <1>0, <2>1, <2>2 DEF Reaches
<1>3. ASSUME NEW e \in E
      PROVE  ~Reaches(E \cup N, e[2], e[1])
  <2>1. e[1] \in TS /\ e[2] \in TS /\ e[1] \notin R(e[2])
    OBVIOUS
  <2>2. CASE s \notin R(e[2])
    <3>1. \A f \in E \cup N : f[1] \in R(e[2]) => f[2] \in R(e[2])
      BY <1>1, <2>1, <2>2
    <3> HIDE DEF R
    <3> QED  BY <1>0, <2>1, <3>1 DEF Reaches
  <2>3. CASE s \in R(e[2])
    <3>1. ASSUME NEW n \in N
          PROVE  e[1] \notin R(n[2])
      <4> SUFFICES ASSUME Reaches(E, n[2], e[1])
                   PROVE  FALSE
        OBVIOUS
      <4>1. Reaches(E, n[2], e[2])
        BY ReachesEdge, ReachesTransitive
      <4>2. Reaches(E, e[2], s)
        BY <2>3
      <4>3. Reaches(E, n[2], s)
        BY <4>1, <4>2, ReachesTransitive
      <4> QED  BY <4>3
    <3> HIDE DEF R
    <3> DEFINE S == {x \in TS : x \in R(e[2]) \/ \E n \in N : x \in R(n[2])}
    <3>2. S \in SUBSET TS /\ e[2] \in S /\ e[1] \notin S
      BY <1>0, <2>1, <3>1
    <3>3. ASSUME NEW f \in E \cup N, f[1] \in S
          PROVE  f[2] \in S
      <4>1. f[2] \in TS
        OBVIOUS
      <4>2. CASE f \in N
        BY <1>0, <4>1, <4>2
      <4>3. CASE f \in E
        BY <1>0, <2>1, <3>3, <4>1, <4>3
      <4> QED  BY <4>2, <4>3
    <3> HIDE DEF S
    <3> QED  BY <3>2, <3>3 DEF Reaches
  <2> QED  BY <2>2, <2>3
<1> QED  BY <1>2, <1>3

\* The edges PessimisticLock registers leave the requester for the holders of
\* locks that do not reach it.
LEMMA NewWaitsTested ==
    ASSUME NEW q, NEW new \in NewWaits(q)
    PROVE  \A n \in new : n[1] = q.startTS /\ ~Reaches(waitFor, n[2], q.startTS)
<1>1. ASSUME NEW k \in q.keys, PessimisticLockError(k, q) = "Locked"
      PROVE  ~Reaches(waitFor, lock[k].startTS, q.startTS)
  <2>1. CASE OtherLock(k, q.startTS)
    BY <1>1, <2>1 DEF PessimisticLockError, Deadlock
  <2>2. CASE ~OtherLock(k, q.startTS)
    BY <1>1, <2>2 DEF PessimisticLockError, CheckConflictValue
  <2> QED  BY <2>1, <2>2
<1> QED  BY <1>1 DEF NewWaits

\* A request only forgets what transactions wait for, or adds edges that
\* PessimisticLock had tested.
LEMMA WaitsStep ==
    ASSUME [Next]_vars
    PROVE  \/ waitFor' \subseteq waitFor
           \/ \E q : \E new \in NewWaits(q) : waitFor' = waitFor \cup new
<1>0. /\ \A q : Prewrite(q) => waitFor' = waitFor
      /\ \A q : PessimisticLock(q) => \E new \in NewWaits(q) : waitFor' = waitFor \cup new
      /\ \A K, s, f : PessimisticRollback(K, s, f) => waitFor' = waitFor
      /\ \A K, s, c : Commit(K, s, c) => waitFor' \subseteq waitFor
      /\ \A K, s : Rollback(K, s) => waitFor' \subseteq waitFor
      /\ \A k, s, c : Cleanup(k, s, c) => waitFor' \subseteq waitFor
      /\ \A k, s, ttl : TxnHeartBeat(k, s, ttl) => waitFor' = waitFor
      /\ \A k, s, t, c, r : CheckTxnStatus(k, s, t, c, r) => waitFor' = waitFor
      /\ \A K, infos : ResolveLocks(K, infos) => waitFor' = waitFor
      /\ \A K, sp : GC(K, sp) => waitFor' = waitFor
      /\ \A K : DeleteRange(K) => waitFor' = waitFor
  BY DEF Prewrite, PessimisticLock, PessimisticRollback, Commit, Rollback, Cleanup, CleanUp,
         TxnHeartBeat, CheckTxnStatus, ResolveLocks, GC, DeleteRange
<1>1. CASE KvPessimisticLock
  BY <1>0, <1>1 DEF KvPessimisticLock
<1>2. CASE KvPrewrite \/ KvPessimisticRollback
  BY <1>0, <1>2 DEF KvPrewrite, KvPessimisticRollback
<1>3. CASE KvCommit \/ KvBatchRollback \/ KvCleanup
  BY <1>0, <1>3 DEF KvCommit, KvBatchRollback, KvCleanup
<1>4. CASE KvCheckTxnStatus \/ KvTxnHeartBeat
  BY <1>0, <1>4 DEF KvCheckTxnStatus, KvTxnHeartBeat
<1>5. CASE KvResolveLock \/ StoreBatchResolveLock
  BY <1>0, <1>5 DEF KvResolveLock, ResolveLock, StoreBatchResolveLock, BatchResolveLock
<1>6. CASE KvGC \/ KvDeleteRange
  BY <1>0, <1>6 DEF KvGC, KvDeleteRange
<1>7. CASE UNCHANGED vars
  BY <1>7 DEF vars
<1> QED  BY <1>1, <1>2, <1>3, <1>4, <1>5, <1>6, <1>7 DEF Next

\* The detector's graph never contains a cycle, however lock waits and the
\* CleanUp of finished transactions interleave.
THEOREM WaitForAcyclicHolds == Spec => []WaitForAcyclic
<1>1. Init => WaitForAcyclic
  BY DEF Init, StoreInit, WaitForAcyclic
<1>2. ASSUME IInv, IInv', WaitForAcyclic, [Next]_vars
      PROVE  WaitForAcyclic'
  <2>0. waitFor \subseteq TS \X TS /\ waitFor' \subseteq TS \X TS
    BY <1>2 DEF IInv, TypeOK, StoreTypeOK
  <2>1. \A e \in waitFor : ~Reaches(waitFor, e[2], e[1])
    BY <1>2 DEF WaitForAcyclic
  <2>2. \A e \in waitFor' : ~Reaches(waitFor', e[2], e[1])
    <3>1. CASE waitFor' \subseteq waitFor
      BY <2>1, <3>1, ReachesMonotone
    <3>2. CASE \E q : \E new \in NewWaits(q) : waitFor' = waitFor \cup new
      <4>1. PICK q : \E new \in NewWaits(q) : waitFor' = waitFor \cup new
        BY <3>2
      <4>2. PICK new \in NewWaits(q) : waitFor' = waitFor \cup new
        BY <4>1
      <4>3. new \subseteq TS \X TS
        BY <2>0, <4>2
      <4>4. \A n \in new : n[1] = q.startTS /\ ~Reaches(waitFor, n[2], q.startTS)
        BY NewWaitsTested
      <4> QED  BY <2>0, <2>1, <4>2, <4>3, <4>4, DetectKeepsAcyclic
    <3> QED  BY <1>2, <3>1, <3>2, WaitsStep
  <2> QED  BY <2>2 DEF WaitForAcyclic, Reaches
<1> QED  BY <1>1, <1>2, Invariance, PTL DEF Spec

-----------------------------------------------------------------------------
(* Garbage collection. *)

\* No two records of a key are stored at the same version.
LEMMA VersionUnique ==
    ASSUME StoreInv, NEW k \in Key, NEW w \in write[k], NEW x \in write[k],
           w.commitTS = x.commitTS
    PROVE  w = x
<1>1. Shaped(w) /\ Shaped(x)
  BY DEF StoreInv, RecordShape
<1>2. w.startTS = x.startTS
  BY <1>1, CommitAssumption DEF Shaped
<1> QED  BY <1>2 DEF StoreInv, OneFate

\* A read at or above the safe point finds the same value in what GC keeps.
LEMMA GCKeepVisible ==
    ASSUME NEW recs, recs \subseteq WriteRec, NEW sp \in Nat, NEW ts \in Nat, sp <= ts,
           \A w, x \in recs : w.commitTS = x.commitTS => w = x
    PROVE  Visible(GCKeep(recs, sp), ts) = Visible(recs, ts)
<1> DEFINE kept == GCKeep(recs, sp)
           seen(R) == {w \in R : w.type \in {"Put", "Delete"} /\ w.commitTS <= ts}
           top(R, w) == w \in seen(R) /\ \A x \in seen(R) : x.commitTS <= w.commitTS
<1>1. \A w \in recs : w.commitTS \in Nat
  BY TimestampsNat DEF WriteRec
<1>2. \A w : w \in kept <=> /\ w \in recs
                            /\ \/ w.commitTS > sp
                               \/ /\ w.type = "Put"
                                  /\ \A x \in recs : x.type \in {"Put", "Delete"} /\ x.commitTS <= sp
                                                     => x.commitTS <= w.commitTS
  BY DEF GCKeep
<1> HIDE DEF kept
<1>3. ASSUME NEW R, R \subseteq recs, NEW w, top(R, w), w.type = "Put"
      PROVE  Visible(R, ts) = w.startTS
  <2>1. \A x \in seen(R) : (\A y \in seen(R) : y.commitTS <= x.commitTS) => x = w
    BY <1>1, <1>3
  <2>2. w = CHOOSE x \in seen(R) : \A y \in seen(R) : y.commitTS <= x.commitTS
    BY <1>3, <2>1
  <2> QED  BY <1>3, <2>2 DEF Visible
<1>4. ASSUME NEW R, ~\E w : top(R, w) /\ w.type = "Put"
      PROVE  Visible(R, ts) = 0
  BY <1>4 DEF Visible
<1>5. ASSUME NEW w, top(recs, w), w.type = "Put"
      PROVE  top(kept, w)
  BY <1>1, <1>2, <1>5
<1>6. ASSUME NEW w, top(kept, w), w.type = "Put"
      PROVE  top(recs, w)
  <2> SUFFICES ASSUME NEW x \in seen(recs), ~(x.commitTS <= w.commitTS)
               PROVE  FALSE
    BY <1>2, <1>6
  <2>1. x \notin kept
    BY <1>6
  <2>2. x.commitTS <= sp
    BY <1>1, <1>2, <2>1
  <2> QED  BY <1>1, <1>2, <1>6, <2>2
<1>7. kept \subseteq recs
  BY <1>2
<1> HIDE DEF top
<1>8. CASE \E w : top(recs, w) /\ w.type = "Put"
  BY <1>3, <1>5, <1>7, <1>8 DEF kept
<1>9. CASE ~\E w : top(recs, w) /\ w.type = "Put"
  BY <1>4, <1>6, <1>9 DEF kept
<1> QED  BY <1>8, <1>9

\* The timestamps of readers and of GC are numbers.
LEMMA CheckTSNat == CheckTS \subseteq Nat
BY RequestAssumption, TimestampsNat, MaxTSAssumption DEF MaxUint64

\* GC at a safe point leaves every read at or above it as it was.
THEOREM GCKeepsReadsHolds == Spec => GCKeepsReads
<1> DEFINE Kept == \A K \in KeySet, sp \in CheckTS : GC(K, sp) =>
                       \A k \in Key, ts \in CheckTS :
                          ts >= sp => Visible(write'[k], ts) = Visible(write[k], ts)
<1>1. ASSUME IInv
      PROVE  Kept
  <2> SUFFICES ASSUME NEW K \in KeySet, NEW sp \in CheckTS, GC(K, sp),
                      NEW k \in Key, NEW ts \in CheckTS, ts >= sp
               PROVE  Visible(write'[k], ts) = Visible(write[k], ts)
    OBVIOUS
  <2>1. sp \in Nat /\ ts \in Nat /\ sp <= ts
    BY CheckTSNat
  <2>2. write[k] \subseteq WriteRec /\ \A w, x \in write[k] : w.commitTS = x.commitTS => w = x
    BY <1>1, VersionUnique DEF IInv, StoreInv, StoreTypeOK
  <2>3. write'[k] \in {write[k], GCKeep(write[k], sp)}
    BY DEF GC
  <2> QED  BY <2>1, <2>2, <2>3, GCKeepVisible
<1>2. [][Kept]_vars => GCKeepsReads
  BY PTL DEF GCKeepsReads
<1> QED  BY <1>1, <1>2, Invariance, PTL DEF Spec

-----------------------------------------------------------------------------
(* Primary locks. *)

\* Every lock names the primary key its transaction chose.
LockPrimary == \A k \in Key : lock[k] # NoLock => lock[k].primary = PrimaryOf[lock[k].startTS]

\* The lock is kept, removed, taken by another transaction, or replaced by one
\* of its own transaction that lowers nothing on the primary.
LockStep(k) ==
    \/ lock'[k] \in {lock[k], NoLock}
    \/ /\ lock'[k].primary = PrimaryOf[lock'[k].startTS]
       /\ lock[k] # NoLock /\ lock[k].startTS = lock'[k].startTS /\ lock[k].primary = k
          => /\ lock'[k].ttl >= lock[k].ttl
             /\ lock'[k].minCommitTS >= lock[k].minCommitTS

\* Prewrite carries the TTL and the minCommitTS of the pessimistic lock it
\* replaces over to the primary lock.
LEMMA PrewriteLockStep ==
    ASSUME StoreTypeOK, LockPrimary, NEW q, q.primary = PrimaryOf[q.startTS], q.ttl \in Nat,
           q.minCommitTS \in Nat, Prewrite(q), NEW k \in Key
    PROVE  LockStep(k)
<1>1. CASE lock'[k] = lock[k]
  BY <1>1 DEF LockStep
<1>2. CASE lock'[k] = PrewriteLock(k, q)
  <2>1. /\ lock'[k].startTS = q.startTS /\ lock'[k].primary = q.primary
        /\ HasLock(k, q.startTS) /\ k = q.primary
           => /\ lock'[k].ttl = Max2(q.ttl, lock[k].ttl)
              /\ lock'[k].minCommitTS = Max2(q.minCommitTS, lock[k].minCommitTS)
    BY <1>2 DEF PrewriteLock
  <2>2. ASSUME lock[k] # NoLock, lock[k].startTS = q.startTS, lock[k].primary = k
        PROVE  /\ lock'[k].ttl >= lock[k].ttl
               /\ lock'[k].minCommitTS >= lock[k].minCommitTS
    <3>1. HasLock(k, q.startTS) /\ k = q.primary
      BY <2>2 DEF HasLock, LockPrimary
    <3>2. lock[k].ttl \in Nat /\ lock[k].minCommitTS \in Nat
      BY <2>2 DEF StoreTypeOK, LockRec
    <3> QED  BY <2>1, <3>1, <3>2 DEF Max2
  <2> QED  BY <2>1, <2>2 DEF LockStep
<1> QED  BY <1>1, <1>2 DEF Prewrite

\* PessimisticLock only locks keys without a lock.
LEMMA PessimisticLockStep ==
    ASSUME NEW q, q.primary = PrimaryOf[q.startTS], PessimisticLock(q), NEW k \in Key,
           StoreTypeOK
    PROVE  LockStep(k)
<1> DEFINE new == [startTS |-> q.startTS, primary |-> q.primary, op |-> "PessimisticLock",
                   ttl |-> q.ttl, forUpdateTS |-> q.forUpdateTS, minCommitTS |-> q.minCommitTS]
<1>1. new.primary = PrimaryOf[new.startTS]
  OBVIOUS
<1>2. lock'[k] = lock[k] \/ (lock[k] = NoLock /\ lock'[k] = new)
  BY DEF PessimisticLock
<1> HIDE DEF new
<1> QED  BY <1>1, <1>2 DEF LockStep

\* CheckTxnStatus pushes minCommitTS upwards only.
LEMMA CheckTxnStatusLockStep ==
    ASSUME StoreTypeOK, LockPrimary, NEW j \in Key, NEW s, NEW caller \in Nat, NEW cur \in Nat,
           NEW r, CheckTxnStatus(j, s, caller, cur, r), NEW k \in Key
    PROVE  LockStep(k)
<1>1. CASE RollbackLocks({j}, s)
  BY <1>1 DEF RollbackLocks, LockStep
<1>2. CASE /\ TxnStatus(j, s, caller, cur, r) = "MinCommitTSPushed"
           /\ PushMinCommitTS(j, caller, cur)
  <2>1. HasLock(j, s)
    BY <1>2 DEF TxnStatus
  <2>2. lock[j] \in LockRec /\ lock[j].primary = PrimaryOf[lock[j].startTS]
    BY <2>1 DEF HasLock, StoreTypeOK, LockPrimary
  <2> DEFINE min == Max2(caller + 1, cur)
  <2>3. min \in Nat /\ min >= caller + 1
    BY DEF Max2
  <2>4. \/ lock' = lock
        \/ /\ lock[j].minCommitTS < caller + 1
           /\ lock' = [lock EXCEPT ![j].minCommitTS = min]
    BY <1>2 DEF PushMinCommitTS
  <2> HIDE DEF min
  <2>5. CASE lock' = lock
    BY <2>5 DEF LockStep
  <2>6. CASE /\ lock[j].minCommitTS < caller + 1
             /\ lock' = [lock EXCEPT ![j].minCommitTS = min]
             /\ k = j
    <3>1. lock'[k] = [lock[k] EXCEPT !.minCommitTS = min]
      BY <2>6 DEF StoreTypeOK
    <3>2. /\ lock'[k].startTS = lock[k].startTS /\ lock'[k].primary = lock[k].primary
          /\ lock'[k].ttl = lock[k].ttl /\ lock'[k].minCommitTS = min
      BY <2>2, <2>6, <3>1 DEF LockRec
    <3>3. lock[k].ttl \in Nat /\ lock[k].minCommitTS \in Nat
      BY <2>2, <2>6 DEF LockRec
    <3>4. lock'[k].ttl >= lock[k].ttl /\ lock'[k].minCommitTS >= lock[k].minCommitTS
      BY <2>3, <2>6, <3>2, <3>3
    <3> QED  BY <2>2, <2>6, <3>2, <3>4 DEF LockStep
  <2>7. CASE lock' = [lock EXCEPT ![j].minCommitTS = min] /\ k # j
    BY <2>7 DEF LockStep, StoreTypeOK
  <2> QED  BY <2>4, <2>5, <2>6, <2>7
<1>3. CASE UNCHANGED lock
  BY <1>3 DEF LockStep
<1> QED  BY <1>1, <1>2, <1>3 DEF CheckTxnStatus

\* A heartbeat raises the TTL.
LEMMA HeartBeatLockStep ==
    ASSUME StoreTypeOK, LockPrimary, NEW j \in Key, NEW s, NEW ttl \in Nat,
           TxnHeartBeat(j, s, ttl), NEW k \in Key
    PROVE  LockStep(k)
<1>1. CASE HeartBeatOK(j, s) /\ k = j
  <2>1. lock[k] \in LockRec /\ lock[k].primary = PrimaryOf[lock[k].startTS]
    BY <1>1 DEF HeartBeatOK, HasLock, StoreTypeOK, LockPrimary
  <2>2. lock'[k] = [lock[k] EXCEPT !.ttl = Max2(@, ttl)]
    BY <1>1 DEF TxnHeartBeat, StoreTypeOK
  <2>3. /\ lock'[k].startTS = lock[k].startTS /\ lock'[k].primary = lock[k].primary
        /\ lock'[k].ttl = Max2(lock[k].ttl, ttl) /\ lock'[k].minCommitTS = lock[k].minCommitTS
    BY <2>1, <2>2 DEF LockRec
  <2>4. lock[k].ttl \in Nat /\ lock[k].minCommitTS \in Nat
    BY <2>1 DEF LockRec
  <2>5. lock'[k].ttl >= lock[k].ttl /\ lock'[k].minCommitTS >= lock[k].minCommitTS
    BY <2>3, <2>4 DEF Max2
  <2> QED  BY <2>1, <2>3, <2>5 DEF LockStep
<1>2. CASE ~(HeartBeatOK(j, s) /\ k = j)
  BY <1>2 DEF TxnHeartBeat, StoreTypeOK, LockStep
<1> QED  BY <1>1, <1>2

\* Every request changes every lock in one of these ways.
LEMMA RequestLockStep ==
    ASSUME IInv, LockPrimary, [Next]_vars, NEW k \in Key
    PROVE  LockStep(k)
<1>0. StoreTypeOK
  BY DEF IInv, TypeOK
<1>1. CASE KvPrewrite
  <2>1. PICK q : /\ q.primary = PrimaryOf[q.startTS] /\ q.ttl \in Nat /\ q.minCommitTS \in Nat
                 /\ Prewrite(q)
    <3>1. PICK s \in StartTS, K \in KeySet, ttl \in LockTTL, f \in BOOLEAN :
            \E m \in [K -> MutationOp], min \in MinCommitTS(s), P \in SUBSET K :
               Prewrite([mutations |-> m, startTS |-> s, primary |-> PrimaryOf[s],
                         ttl |-> ttl, minCommitTS |-> min, pessimistic |-> P,
                         forUpdateTS |-> IF f THEN s ELSE 0, resolved |-> {}])
      BY <1>1, ZenonT(40) DEF KvPrewrite
    <3>2. PICK m \in [K -> MutationOp], min \in MinCommitTS(s), P \in SUBSET K :
               Prewrite([mutations |-> m, startTS |-> s, primary |-> PrimaryOf[s],
                         ttl |-> ttl, minCommitTS |-> min, pessimistic |-> P,
                         forUpdateTS |-> IF f THEN s ELSE 0, resolved |-> {}])
      BY <3>1
    <3> DEFINE q == [mutations |-> m, startTS |-> s, primary |-> PrimaryOf[s],
                     ttl |-> ttl, minCommitTS |-> min, pessimistic |-> P,
                     forUpdateTS |-> IF f THEN s ELSE 0, resolved |-> {}]
    <3>3. ttl \in Nat /\ min \in Nat
      BY RequestAssumption, MinCommitNat
    <3>4. /\ q.primary = PrimaryOf[q.startTS] /\ q.ttl \in Nat /\ q.minCommitTS \in Nat
          /\ Prewrite(q)
      BY <3>2, <3>3
    <3> QED  BY <3>4
  <2> QED  BY <1>0, <2>1, PrewriteLockStep
<1>2. CASE KvPessimisticLock
  <2>1. PICK p \in ForUpdateOf, K \in KeySet, ttl \in LockTTL :
          \E min \in MinCommitTS(p[1]), notExist, noWait \in BOOLEAN :
            PessimisticLock([keys |-> K, startTS |-> p[1], primary |-> PrimaryOf[p[1]],
                             ttl |-> ttl, forUpdateTS |-> p[2], minCommitTS |-> min,
                             notExist |-> notExist, noWait |-> noWait])
    BY <1>2 DEF KvPessimisticLock
  <2>2. PICK min \in MinCommitTS(p[1]), notExist \in BOOLEAN, noWait \in BOOLEAN :
            PessimisticLock([keys |-> K, startTS |-> p[1], primary |-> PrimaryOf[p[1]],
                             ttl |-> ttl, forUpdateTS |-> p[2], minCommitTS |-> min,
                             notExist |-> notExist, noWait |-> noWait])
    BY <2>1
  <2> DEFINE q == [keys |-> K, startTS |-> p[1], primary |-> PrimaryOf[p[1]],
                   ttl |-> ttl, forUpdateTS |-> p[2], minCommitTS |-> min,
                   notExist |-> notExist, noWait |-> noWait]
  <2>3. q.primary = PrimaryOf[q.startTS] /\ PessimisticLock(q)
    BY <2>2
  <2> HIDE DEF q
  <2> QED  BY <1>0, <2>3, PessimisticLockStep
<1>3. CASE KvPessimisticRollback
  BY <1>3 DEF KvPessimisticRollback, PessimisticRollback, LockStep
<1>4. CASE KvCommit
  BY <1>4 DEF KvCommit, Commit, CommitLocks, LockStep
<1>5. CASE KvBatchRollback \/ KvCleanup
  <2>1. \A K, s : Rollback(K, s) => LockStep(k)
    BY DEF Rollback, RollbackKeys, LockStep
  <2>2. \A j, s, cur : Cleanup(j, s, cur) => LockStep(k)
    BY DEF Cleanup, RollbackLocks, LockStep
  <2> QED  BY <1>5, <2>1, <2>2 DEF KvBatchRollback, KvCleanup
<1>6. CASE KvCheckTxnStatus
  <2>1. PICK s \in StartTS, caller \in CheckTS, cur \in CheckTS, r \in BOOLEAN :
           CheckTxnStatus(PrimaryOf[s], s, caller, cur, r)
    BY <1>6 DEF KvCheckTxnStatus
  <2>2. PrimaryOf[s] \in Key /\ caller \in Nat /\ cur \in Nat
    BY RequestAssumption, CheckTSNat
  <2> QED  BY <1>0, <2>1, <2>2, CheckTxnStatusLockStep
<1>7. CASE KvTxnHeartBeat
  <2>1. PICK s \in StartTS, ttl \in LockTTL : TxnHeartBeat(PrimaryOf[s], s, ttl)
    BY <1>7 DEF KvTxnHeartBeat
  <2>2. PrimaryOf[s] \in Key /\ ttl \in Nat
    BY RequestAssumption
  <2> QED  BY <1>0, <2>1, <2>2, HeartBeatLockStep
<1>8. CASE KvResolveLock \/ StoreBatchResolveLock
  <2>1. \A K, infos : ResolveLocks(K, infos) => LockStep(k)
    BY DEF ResolveLocks, LockStep
  <2> QED  BY <1>8, <2>1 DEF KvResolveLock, ResolveLock, StoreBatchResolveLock, BatchResolveLock
<1>9. CASE KvGC \/ KvDeleteRange
  <2>1. \A K, sp : GC(K, sp) => LockStep(k)
    BY DEF GC, LockStep
  <2>2. \A K : DeleteRange(K) => LockStep(k)
    BY DEF DeleteRange, LockStep
  <2> QED  BY <1>9, <2>1, <2>2 DEF KvGC, KvDeleteRange
<1>10. CASE UNCHANGED vars
  BY <1>10 DEF vars, LockStep
<1> QED  BY <1>1, <1>2, <1>3, <1>4, <1>5, <1>6, <1>7, <1>8, <1>9, <1>10 DEF Next

\* While a transaction keeps its primary lock, no request lowers its TTL or its
\* minCommitTS, so what a reader pushed or a heartbeat was granted stands.
THEOREM PrimaryLockMonotoneHolds == Spec => PrimaryLockMonotone
<1> DEFINE Up == \A k \in Key :
                   (/\ lock[k] # NoLock /\ lock'[k] # NoLock
                    /\ lock[k].startTS = lock'[k].startTS /\ lock[k].primary = k)
                   => /\ lock'[k].ttl >= lock[k].ttl
                      /\ lock'[k].minCommitTS >= lock[k].minCommitTS
<1>1. Init => LockPrimary
  BY DEF Init, StoreInit, LockPrimary
<1>2. ASSUME IInv, LockPrimary, [Next]_vars
      PROVE  LockPrimary' /\ Up
  <2>1. \A k \in Key : LockStep(k)
    BY <1>2, RequestLockStep
  <2>2. LockPrimary'
    BY <1>2, <2>1 DEF LockStep, LockPrimary
  <2>3. \A k \in Key : lock[k] # NoLock => lock[k].ttl \in Nat /\ lock[k].minCommitTS \in Nat
    BY <1>2 DEF IInv, TypeOK, StoreTypeOK, LockRec
  <2>4. Up
    BY <2>1, <2>3 DEF LockStep
  <2> QED  BY <2>2, <2>4
<1>3. [][Up]_vars => PrimaryLockMonotone
  BY PTL DEF PrimaryLockMonotone
<1>4. Spec => []LockPrimary
  BY <1>1, <1>2, Invariance, PTL DEF Spec
<1> QED  BY <1>2, <1>3, <1>4, Invariance, PTL DEF Spec

=============================================================================
