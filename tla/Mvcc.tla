-------------------------------- MODULE Mvcc --------------------------------
(***************************************************************************)
(* The multi-version store of the mock EinsteinDB server: the state a      *)
(* MVCCLevelDB keeps and what each operation of the MVCCStore interface    *)
(* answers and writes (mvcc_leveldb.go, mvcc.go).  The module fixes no     *)
(* next-state relation: MvccStore drives the operations with arbitrary     *)
(* requests, Percolator with the requests of two-phase-commit clients.     *)
(*                                                                         *)
(* Every operation runs under MVCCLevelDB.mu and reaches LevelDB with one  *)
(* atomic batch, so each is one action.  A value is identified by the      *)
(* start timestamp of the transaction that wrote it; 0 is "no value".      *)
(***************************************************************************)
EXTENDS Integers, FiniteSets

CONSTANTS
    Key,        \* the keys of the store
    MaxTS,      \* bound on the timestamps the oracle hands out
    Logical,    \* how many timestamps share one physical clock reading
    NoLock      \* marks a key without a lock

ASSUME MaxTSAssumption == MaxTS \in Nat \ {0}
ASSUME LogicalAssumption == Logical \in Nat \ {0}

VARIABLES
    lock,       \* lock[k]: the lock stored under (k, lockVer), or NoLock
    write,      \* write[k]: the value records stored under (k, commitTS)
    waitFor     \* edges <<waiter, holder>> of the deadlock detector

storeVars == <<lock, write, waitFor>>

TS == 1 .. MaxTS

\* math.MaxUint64, larger than every timestamp of the oracle.
MaxUint64 == MaxTS + 1

OpType == {"Put", "Del", "Lock", "PessimisticLock"}

ValueType == {"Put", "Delete", "Rollback", "Lock"}

\* struct mvccLock; the value is identified by startTS, txnSize is not kept.
LockRec == [startTS : TS, primary : Key, op : OpType, ttl : Nat,
            forUpdateTS : Nat, minCommitTS : Nat]

\* struct mvccValue.
WriteRec == [type : ValueType, startTS : TS, commitTS : TS]

ASSUME NoLockAssumption == NoLock \notin LockRec

StoreTypeOK ==
    /\ lock \in [Key -> LockRec \cup {NoLock}]
    /\ write \in [Key -> SUBSET WriteRec]
    /\ waitFor \in SUBSET (TS \X TS)

StoreInit ==
    /\ lock = [k \in Key |-> NoLock]
    /\ write = [k \in Key |-> {}]
    /\ waitFor = {}

-----------------------------------------------------------------------------
(* What the operations look up. *)

\* oracle.ExtractPhysical drops the logical part of a timestamp.
ExtractPhysical(ts) == ts \div Logical

\* The lock's owner has not sent a heartbeat for longer than the TTL.
Expired(l, currentTS) ==
    ExtractPhysical(l.startTS) + l.ttl < ExtractPhysical(currentTS)

HasLock(k, startTS) == lock[k] # NoLock /\ lock[k].startTS = startTS

OtherLock(k, startTS) == lock[k] # NoLock /\ lock[k].startTS # startTS

\* Mutant of PutValue: older tombstones are collapsed into the new record.
PutValueCollapsing(recs, w) ==
    {x \in recs : x.type # "Rollback" /\ x.commitTS # w.commitTS} \cup {w}

\* LevelDB's Put replaces the record stored under the same version.
PutValue(recs, w) == {x \in recs : x.commitTS # w.commitTS} \cup {w}

RollbackRec(startTS) ==
    [type |-> "Rollback", startTS |-> startTS, commitTS |-> startTS]

\* getTxnCommitInfo: the newest record the transaction left on the key, as a
\* set of at most one record.
TxnCommitInfo(k, startTS) ==
    {w \in write[k] : /\ w.startTS = startTS
                      /\ \A x \in write[k] :
                            x.startTS = startTS => x.commitTS <= w.commitTS}

\* Mutant of Committed: any record of the transaction counts as a commit.
CommittedByAnyRecord(k, startTS) == TxnCommitInfo(k, startTS) # {}

Committed(k, startTS) ==
    \E w \in TxnCommitInfo(k, startTS) : w.type # "Rollback"

CommitTSOf(k, startTS) ==
    (CHOOSE w \in TxnCommitInfo(k, startTS) : TRUE).commitTS

\* checkConflictValue: any record newer than forUpdateTS is a conflict, a
\* rollback record included; otherwise the first offending record decides.
RollbackFound(k, startTS) ==
    \E w \in write[k] : w.type = "Rollback" /\ w.commitTS = startTS

ExistingValue(k, after) ==
    \E w \in write[k] :
        /\ w.type \in {"Put", "Lock"} /\ w.commitTS > after
        /\ \A x \in write[k] : x.type = "Delete" => x.commitTS < w.commitTS

\* Mutant of CheckConflictValue: the tombstone is not looked for.
CheckConflictIgnoringRollback(k, forUpdateTS, startTS, notExist) ==
    IF \E w \in write[k] : w.commitTS > forUpdateTS THEN "WriteConflict"
    ELSE IF notExist /\ ExistingValue(k, 0) THEN "AlreadyExist"
    ELSE "ok"

CheckConflictValue(k, forUpdateTS, startTS, notExist) ==
    IF \E w \in write[k] : w.commitTS > forUpdateTS THEN "WriteConflict"
    ELSE IF RollbackFound(k, startTS) /\ ~(notExist /\ ExistingValue(k, startTS))
         THEN "AlreadyRollbacked"
    ELSE IF notExist /\ ExistingValue(k, 0) THEN "AlreadyExist"
    ELSE "ok"

\* getValue below the lock: the newest put or delete at or below ts.
Visible(recs, ts) ==
    LET seen == {w \in recs : w.type \in {"Put", "Delete"} /\ w.commitTS <= ts}
    IN  IF \E w \in seen : w.type = "Put" /\ \A x \in seen : x.commitTS <= w.commitTS
        THEN (CHOOSE w \in seen : \A x \in seen : x.commitTS <= w.commitTS).startTS
        ELSE 0

\* mvccLock.check: the locks a snapshot read at ts has to mind, the point get
\* of the latest version that reads below a primary lock, and the rest.
MindsLock(k, ts) ==
    /\ lock[k] # NoLock
    /\ lock[k].startTS <= ts
    /\ lock[k].op \notin {"Lock", "PessimisticLock"}

\* Mutant of PointGetBelow: the lock need not be the primary lock.
PointGetBelowAny(k, ts) == MindsLock(k, ts) /\ ts = MaxUint64

PointGetBelow(k, ts) ==
    MindsLock(k, ts) /\ ts = MaxUint64 /\ lock[k].primary = k

ReadBlocked(k, ts, resolved) ==
    /\ MindsLock(k, ts)
    /\ ~PointGetBelow(k, ts)
    /\ lock[k].startTS \notin resolved

\* Get of an unblocked key under snapshot isolation.
GetValue(k, ts) ==
    Visible(write[k], IF PointGetBelow(k, ts) THEN lock[k].startTS - 1 ELSE ts)

-----------------------------------------------------------------------------
(* The deadlock detector, called by PessimisticLock, Commit, Rollback and  *)
(* Cleanup.                                                                *)

\* b can be reached from a along the edges E: it is in every closed set with a.
Reaches(E, a, b) ==
    \A S \in SUBSET TS :
        (a \in S /\ \A e \in E : e[1] \in S => e[2] \in S) => b \in S

\* Detector.Detect refuses an edge that closes a cycle and registers it otherwise.
Deadlock(waiter, holder) == Reaches(waitFor, holder, waiter)

\* Detector.CleanUp forgets what a finished transaction waited for.
CleanUp(startTS) == waitFor' = {e \in waitFor : e[1] # startTS}

-----------------------------------------------------------------------------
(* Pessimistic locks. *)

\* Mutant of PessimisticLockError: newer commits are not looked for.
PessimisticLockUnchecked(k, q) ==
    IF OtherLock(k, q.startTS)
    THEN IF Deadlock(q.startTS, lock[k].startTS) THEN "Deadlock" ELSE "Locked"
    ELSE "ok"

PessimisticLockError(k, q) ==
    IF OtherLock(k, q.startTS)
    THEN IF Deadlock(q.startTS, lock[k].startTS) THEN "Deadlock" ELSE "Locked"
    ELSE IF HasLock(k, q.startTS) THEN "ok"
    ELSE CheckConflictValue(k, q.forUpdateTS, q.startTS, q.notExist)

PessimisticLockOK(q) == \A k \in q.keys : PessimisticLockError(k, q) = "ok"

\* Mutant of NewWaits: the edge is registered before it is tested for a cycle.
NewWaitsUntested(q) ==
    LET blocked == {k \in q.keys : PessimisticLockError(k, q) \in {"Locked", "Deadlock"}}
    IN  {{<<q.startTS, lock[k].startTS>> : k \in blocked}}

\* The holders q.startTS is registered to wait for.  LockNoWait stops at the
\* first locked key; otherwise every mutation is tried.
NewWaits(q) ==
    LET blocked == {k \in q.keys : PessimisticLockError(k, q) = "Locked"}
        edges(K) == {<<q.startTS, lock[k].startTS>> : k \in K}
    IN  IF q.noWait /\ blocked # {} THEN {edges({k}) : k \in blocked}
        ELSE {edges(blocked)}

\* All keys or none are locked; the caller's own lock is left as it is.
PessimisticLock(q) ==
    /\ lock' = IF PessimisticLockOK(q)
               THEN [k \in Key |->
                      IF k \in q.keys /\ lock[k] = NoLock
                      THEN [startTS |-> q.startTS, primary |-> q.primary,
                            op |-> "PessimisticLock", ttl |-> q.ttl,
                            forUpdateTS |-> q.forUpdateTS,
                            minCommitTS |-> q.minCommitTS]
                      ELSE lock[k]]
               ELSE lock
    /\ \E new \in NewWaits(q) : waitFor' = waitFor \cup new
    /\ UNCHANGED write

\* No tombstone is left for a pessimistic lock that is given up.
PessimisticRollback(keys, startTS, forUpdateTS) ==
    /\ lock' = [k \in Key |->
                 IF /\ k \in keys /\ HasLock(k, startTS)
                    /\ lock[k].op = "PessimisticLock"
                    /\ lock[k].forUpdateTS <= forUpdateTS
                 THEN NoLock ELSE lock[k]]
    /\ UNCHANGED <<write, waitFor>>

-----------------------------------------------------------------------------
(* Prewrite and commit.  q.mutations maps the request's keys to their     *)
(* operations, q.pessimistic holds the keys flagged IsPessimisticLock and *)
(* q.resolved the ResolvedLocks of the request's context.                 *)

\* An insert reads at its own start timestamp, and so minds its own lock too.
InsertError(k, q) ==
    IF q.mutations[k] \in {"Insert", "CheckNotExists"} /\ q.forUpdateTS = 0
    THEN IF ReadBlocked(k, q.startTS, q.resolved) THEN "Locked"
         ELSE IF GetValue(k, q.startTS) # 0 THEN "AlreadyExist" ELSE "ok"
    ELSE "ok"

\* Mutant of PrewriteMutationError: newer commits are not looked for.
PrewriteMutationUnchecked(k, q) ==
    IF OtherLock(k, q.startTS) THEN "Locked"
    ELSE IF ~HasLock(k, q.startTS) /\ k \in q.pessimistic THEN "PessimisticLockNotFound"
    ELSE IF ~HasLock(k, q.startTS) /\ RollbackFound(k, q.startTS) THEN "AlreadyRollbacked"
    ELSE "ok"

PrewriteMutationError(k, q) ==
    IF OtherLock(k, q.startTS) THEN "Locked"
    ELSE IF HasLock(k, q.startTS) THEN "ok"
    ELSE IF k \in q.pessimistic THEN "PessimisticLockNotFound"
    ELSE CheckConflictValue(k, q.startTS, q.startTS, FALSE)

PrewriteError(k, q) ==
    IF InsertError(k, q) # "ok" \/ q.mutations[k] = "CheckNotExists"
    THEN InsertError(k, q) ELSE PrewriteMutationError(k, q)

PrewriteOK(q) == \A k \in DOMAIN q.mutations : PrewriteError(k, q) = "ok"

Max2(a, b) == IF a < b THEN b ELSE a

\* Mutant of PrewriteLock: what the pessimistic lock held is not carried over.
PrewriteLockFresh(k, q) ==
    [startTS |-> q.startTS, primary |-> q.primary,
     op |-> IF q.mutations[k] = "Insert" THEN "Put" ELSE q.mutations[k],
     ttl |-> q.ttl, forUpdateTS |-> 0,
     minCommitTS |-> IF k = q.primary THEN q.minCommitTS ELSE 0]

\* The lock prewriteMutation stores.  A pessimistic lock it overwrites keeps
\* its longer TTL; minCommitTS is only stored on the primary.
PrewriteLock(k, q) ==
    LET ttl == IF HasLock(k, q.startTS) THEN Max2(q.ttl, lock[k].ttl) ELSE q.ttl
        min == IF HasLock(k, q.startTS)
               THEN Max2(q.minCommitTS, lock[k].minCommitTS) ELSE q.minCommitTS
    IN  [startTS |-> q.startTS, primary |-> q.primary,
         op |-> IF q.mutations[k] = "Insert" THEN "Put" ELSE q.mutations[k],
         ttl |-> ttl, forUpdateTS |-> 0,
         minCommitTS |-> IF k = q.primary THEN min ELSE 0]

Prewrite(q) ==
    /\ lock' = IF PrewriteOK(q)
               THEN [k \in Key |->
                      IF /\ k \in DOMAIN q.mutations
                         /\ q.mutations[k] # "CheckNotExists"
                         /\ HasLock(k, q.startTS) => lock[k].op = "PessimisticLock"
                      THEN PrewriteLock(k, q) ELSE lock[k]]
               ELSE lock
    /\ UNCHANGED <<write, waitFor>>

\* Mutant of CommitRec: the lock's operation is stored as the value's type.
CommitRecUnconverted(l, commitTS) ==
    [type |-> l.op, startTS |-> l.startTS, commitTS |-> commitTS]

\* commitLock: every lock that is neither a put nor a lock becomes a delete.
CommitRec(l, commitTS) ==
    [type |-> IF l.op \in {"Put", "Lock"} THEN l.op ELSE "Delete",
     startTS |-> l.startTS, commitTS |-> commitTS]

\* Mutant of CommitError: minCommitTS is not compared.
CommitErrorUnpushed(k, startTS, commitTS) ==
    IF HasLock(k, startTS) \/ Committed(k, startTS) THEN "ok" ELSE "TxnNotFound"

\* Mutant of CommitError: a missing lock is taken for a repeated request.
CommitErrorLenient(k, startTS, commitTS) ==
    IF HasLock(k, startTS) /\ lock[k].minCommitTS > commitTS THEN "CommitTSExpired" ELSE "ok"

CommitError(k, startTS, commitTS) ==
    IF ~HasLock(k, startTS)
    THEN IF Committed(k, startTS) THEN "ok" ELSE "TxnNotFound"
    ELSE IF lock[k].minCommitTS > commitTS THEN "CommitTSExpired" ELSE "ok"

CommitOK(keys, startTS, commitTS) ==
    \A k \in keys : CommitError(k, startTS, commitTS) = "ok"

\* The batch that commits (commitTS > 0) or rolls back the locks startTS holds
\* on the keys of K, shared by Commit, Rollback and the resolvers.
CommitLocks(K, startTS, commitTS) ==
    /\ lock' = [k \in Key |->
                 IF k \in K /\ HasLock(k, startTS) THEN NoLock ELSE lock[k]]
    /\ write' = [k \in Key |->
                  IF k \in K /\ HasLock(k, startTS)
                  THEN PutValue(write[k], CommitRec(lock[k], commitTS))
                  ELSE write[k]]

\* Mutant of RollbackLocks: the lock is not deleted with the tombstone's write.
RollbackLocksKeepLock(K, startTS) ==
    /\ write' = [k \in Key |->
                  IF k \in K /\ HasLock(k, startTS)
                  THEN PutValue(write[k], RollbackRec(startTS))
                  ELSE write[k]]
    /\ UNCHANGED lock

RollbackLocks(K, startTS) ==
    /\ lock' = [k \in Key |->
                 IF k \in K /\ HasLock(k, startTS) THEN NoLock ELSE lock[k]]
    /\ write' = [k \in Key |->
                  IF k \in K /\ HasLock(k, startTS)
                  THEN PutValue(write[k], RollbackRec(startTS))
                  ELSE write[k]]

Commit(keys, startTS, commitTS) ==
    /\ IF CommitOK(keys, startTS, commitTS)
       THEN CommitLocks(keys, startTS, commitTS)
       ELSE UNCHANGED <<lock, write>>
    /\ CleanUp(startTS)

-----------------------------------------------------------------------------
(* Rollback, the deprecated Cleanup and CheckTxnStatus. *)

\* The transaction left neither a lock nor a record on the key.
NotPrewritten(k, startTS) ==
    ~HasLock(k, startTS) /\ TxnCommitInfo(k, startTS) = {}

\* Mutant of RollbackError: getTxnCommitInfo is not consulted.
RollbackErrorUnchecked(k, startTS) == "ok"

RollbackError(k, startTS) ==
    IF ~HasLock(k, startTS) /\ Committed(k, startTS) THEN "AlreadyCommitted" ELSE "ok"

RollbackOK(keys, startTS) == \A k \in keys : RollbackError(k, startTS) = "ok"

\* rollbackKey: a key that was never prewritten gets a tombstone as well.
RollbackKeys(keys, startTS) ==
    /\ lock' = [k \in Key |->
                 IF k \in keys /\ HasLock(k, startTS) THEN NoLock ELSE lock[k]]
    /\ write' = [k \in Key |->
                  IF k \in keys /\ (HasLock(k, startTS) \/ NotPrewritten(k, startTS))
                  THEN PutValue(write[k], RollbackRec(startTS))
                  ELSE write[k]]

Rollback(keys, startTS) ==
    /\ IF RollbackOK(keys, startTS) THEN RollbackKeys(keys, startTS)
       ELSE UNCHANGED <<lock, write>>
    /\ CleanUp(startTS)

CleanupError(k, startTS, currentTS) ==
    IF HasLock(k, startTS)
    THEN IF currentTS = 0 \/ Expired(lock[k], currentTS) THEN "ok" ELSE "Locked"
    ELSE RollbackError(k, startTS)

\* The batch with the tombstone of a key that was never prewritten is built
\* and dropped: only the rollback of a lock is written.
Cleanup(k, startTS, currentTS) ==
    /\ IF HasLock(k, startTS) /\ CleanupError(k, startTS, currentTS) = "ok"
       THEN RollbackLocks({k}, startTS)
       ELSE UNCHANGED <<lock, write>>
    /\ CleanUp(startTS)

\* Mutant of TxnStatus: the TTL is not looked at.
TxnStatusUnexpiring(k, lockTS, callerStartTS, currentTS, rollbackIfNotExist) ==
    IF HasLock(k, lockTS)
    THEN IF callerStartTS = MaxUint64 \/ lock[k].minCommitTS > 0
         THEN "MinCommitTSPushed" ELSE "Alive"
    ELSE IF Committed(k, lockTS) THEN "Committed"
    ELSE IF TxnCommitInfo(k, lockTS) # {} THEN "RolledBack"
    ELSE IF rollbackIfNotExist THEN "LockNotExistRollback"
    ELSE "TxnNotFound"

\* CheckTxnStatus decides by the primary lock, then by the record it left.
TxnStatus(k, lockTS, callerStartTS, currentTS, rollbackIfNotExist) ==
    IF HasLock(k, lockTS)
    THEN IF Expired(lock[k], currentTS) THEN "TTLExpireRollback"
         ELSE IF callerStartTS = MaxUint64 \/ lock[k].minCommitTS > 0
              THEN "MinCommitTSPushed" ELSE "Alive"
    ELSE IF Committed(k, lockTS) THEN "Committed"
    ELSE IF TxnCommitInfo(k, lockTS) # {} THEN "RolledBack"
    ELSE IF rollbackIfNotExist THEN "LockNotExistRollback"
    ELSE "TxnNotFound"

\* A live large transaction is pushed above the reader, and to the current
\* time while at it; a point get of the latest version pushes nothing.
PushMinCommitTS(k, callerStartTS, currentTS) ==
    lock' = IF /\ callerStartTS # MaxUint64
               /\ lock[k].minCommitTS < callerStartTS + 1
            THEN [lock EXCEPT ![k].minCommitTS = Max2(callerStartTS + 1, currentTS)]
            ELSE lock

CheckTxnStatus(k, lockTS, callerStartTS, currentTS, rollbackIfNotExist) ==
    LET status == TxnStatus(k, lockTS, callerStartTS, currentTS, rollbackIfNotExist)
    IN  /\ \/ status = "TTLExpireRollback" /\ RollbackLocks({k}, lockTS)
           \/ /\ status = "MinCommitTSPushed"
              /\ PushMinCommitTS(k, callerStartTS, currentTS)
              /\ UNCHANGED write
           \/ /\ status = "LockNotExistRollback"
              /\ write' = [write EXCEPT ![k] = PutValue(@, RollbackRec(lockTS))]
              /\ UNCHANGED lock
           \/ /\ status \in {"Alive", "Committed", "RolledBack", "TxnNotFound"}
              /\ UNCHANGED <<lock, write>>
        /\ UNCHANGED waitFor

\* Only the owner's primary lock is extended, and never shortened.
HeartBeatOK(k, startTS) == HasLock(k, startTS) /\ lock[k].primary = k

TxnHeartBeat(k, startTS, adviseTTL) ==
    /\ lock' = IF HeartBeatOK(k, startTS)
               THEN [lock EXCEPT ![k].ttl = Max2(@, adviseTTL)] ELSE lock
    /\ UNCHANGED <<write, waitFor>>

-----------------------------------------------------------------------------
(* Operations on a range of keys. *)

\* ScanLock: the locks a resolver has to settle before a safe point.
ScanLock(range, maxTS) ==
    {k \in range : lock[k] # NoLock /\ lock[k].startTS <= maxTS}

\* ResolveLock and BatchResolveLock: infos maps start timestamps to commit
\* timestamps, 0 for a rollback.  minCommitTS is not consulted.
ResolveLocks(range, infos) ==
    LET hit(k) == k \in range /\ lock[k] # NoLock /\ lock[k].startTS \in DOMAIN infos
        rec(k) == IF infos[lock[k].startTS] > 0
                  THEN CommitRec(lock[k], infos[lock[k].startTS])
                  ELSE RollbackRec(lock[k].startTS)
    IN  /\ lock' = [k \in Key |-> IF hit(k) THEN NoLock ELSE lock[k]]
        /\ write' = [k \in Key |-> IF hit(k) THEN PutValue(write[k], rec(k))
                                   ELSE write[k]]
        /\ UNCHANGED waitFor

ResolveLock(range, startTS, commitTS) ==
    ResolveLocks(range, [s \in {startTS} |-> commitTS])

BatchResolveLock(range, txnInfos) == ResolveLocks(range, txnInfos)

\* Mutant of GCKeep: a tombstone or lock record counts as the newest version.
GCKeepNewestRecord(recs, safePoint) ==
    {w \in recs : \/ w.commitTS > safePoint
                  \/ /\ w.type = "Put"
                     /\ \A x \in recs : x.commitTS <= safePoint => x.commitTS <= w.commitTS}

\* GC of one key: of the records up to the safe point only the newest put or
\* delete may stay, and it stays if it is a put.
GCKeep(recs, safePoint) ==
    {w \in recs : \/ w.commitTS > safePoint
                  \/ /\ w.type = "Put"
                     /\ \A x \in recs : x.type \in {"Put", "Delete"} /\ x.commitTS <= safePoint
                                        => x.commitTS <= w.commitTS}

GCError(range, safePoint) == ScanLock(range, safePoint) # {}

GC(range, safePoint) ==
    /\ write' = IF GCError(range, safePoint) THEN write
                ELSE [k \in Key |-> IF k \in range THEN GCKeep(write[k], safePoint)
                                    ELSE write[k]]
    /\ UNCHANGED <<lock, waitFor>>

\* DeleteRange drops locks and records alike.
DeleteRange(range) ==
    /\ lock' = [k \in Key |-> IF k \in range THEN NoLock ELSE lock[k]]
    /\ write' = [k \in Key |-> IF k \in range THEN {} ELSE write[k]]
    /\ UNCHANGED waitFor

=============================================================================
