------------------------------ MODULE MvccStore ------------------------------
(***************************************************************************)
(* The store under every sequence of requests a cluster of clients can     *)
(* produce: any order, repeated, late, for any subset of keys.  The only   *)
(* discipline is the timestamp oracle's (FIDelClient.GetTS never returns a *)
(* timestamp twice): a start timestamp is no commit timestamp, a commit    *)
(* timestamp belongs to one transaction and is newer than the timestamps   *)
(* that transaction took before.                                           *)
(***************************************************************************)
EXTENDS Mvcc

CONSTANTS
    StartTS,        \* the start timestamps, one per transaction
    CommitOf,       \* <<s, c>>: transaction s may try to commit at c
    ForUpdateOf,    \* <<s, f>>: transaction s locks pessimistically at f
    PrimaryOf,      \* the primary key of each transaction
    MutationOp,     \* operations of prewrite requests
    LockTTL,        \* lock TTLs, also advised by heartbeats
    CheckTS         \* timestamps that readers, resolvers and GC come with

ASSUME StartAssumption == StartTS \subseteq TS
ASSUME CommitAssumption ==
    /\ CommitOf \subseteq StartTS \X (TS \ StartTS)
    /\ \A p \in CommitOf : p[1] < p[2]
    /\ \A p, q \in CommitOf : p[2] = q[2] => p[1] = q[1]
ASSUME ForUpdateAssumption ==
    /\ ForUpdateOf \subseteq StartTS \X TS
    /\ \A p \in ForUpdateOf : p[1] <= p[2]
    /\ \A p \in ForUpdateOf, q \in CommitOf : p[1] = q[1] => p[2] < q[2]
ASSUME RequestAssumption ==
    /\ PrimaryOf \in [StartTS -> Key]
    /\ MutationOp \subseteq {"Put", "Del", "Lock", "Insert", "CheckNotExists"}
    /\ LockTTL \subseteq Nat
    /\ CheckTS \subseteq TS \cup {MaxUint64}

VARIABLES
    rolledBack,     \* <<k, s>>: Rollback or CheckTxnStatus answered "rolled back"
    cleanedUp       \* <<k, s>>: Cleanup answered "rolled back"

vars == <<lock, write, waitFor, rolledBack, cleanedUp>>

told == <<rolledBack, cleanedUp>>

Init ==
    /\ StoreInit
    /\ rolledBack = {}
    /\ cleanedUp = {}

KeySet == SUBSET Key \ {{}}

\* A large transaction asks for minCommitTS = startTS + 1, the others for none.
MinCommitTS(s) == {0, s + 1}

KvPrewrite ==
    \E s \in StartTS, K \in KeySet, ttl \in LockTTL, f \in BOOLEAN :
    \E m \in [K -> MutationOp], min \in MinCommitTS(s), P \in SUBSET K :
        /\ f = FALSE => P = {}
        /\ Prewrite([mutations |-> m, startTS |-> s, primary |-> PrimaryOf[s],
                     ttl |-> ttl, minCommitTS |-> min, pessimistic |-> P,
                     forUpdateTS |-> IF f THEN s ELSE 0, resolved |-> {}])
        /\ UNCHANGED told

KvPessimisticLock ==
    \E p \in ForUpdateOf, K \in KeySet, ttl \in LockTTL :
    \E min \in MinCommitTS(p[1]), notExist, noWait \in BOOLEAN :
        /\ PessimisticLock([keys |-> K, startTS |-> p[1], primary |-> PrimaryOf[p[1]],
                            ttl |-> ttl, forUpdateTS |-> p[2], minCommitTS |-> min,
                            notExist |-> notExist, noWait |-> noWait])
        /\ UNCHANGED told

KvPessimisticRollback ==
    \E p \in ForUpdateOf, K \in KeySet :
        PessimisticRollback(K, p[1], p[2]) /\ UNCHANGED told

KvCommit ==
    \E p \in CommitOf, K \in KeySet : Commit(K, p[1], p[2]) /\ UNCHANGED told

KvBatchRollback ==
    \E s \in StartTS, K \in KeySet :
        /\ Rollback(K, s)
        /\ rolledBack' = IF RollbackOK(K, s) THEN rolledBack \cup (K \X {s})
                         ELSE rolledBack
        /\ UNCHANGED cleanedUp

KvCleanup ==
    \E s \in StartTS, k \in Key, cur \in CheckTS \cup {0} :
        /\ Cleanup(k, s, cur)
        /\ cleanedUp' = IF CleanupError(k, s, cur) = "ok" THEN cleanedUp \cup {<<k, s>>}
                        ELSE cleanedUp
        /\ UNCHANGED rolledBack

KvCheckTxnStatus ==
    \E s \in StartTS, caller, cur \in CheckTS, r \in BOOLEAN :
        LET k == PrimaryOf[s] IN
        /\ CheckTxnStatus(k, s, caller, cur, r)
        /\ rolledBack' =
             IF TxnStatus(k, s, caller, cur, r) \in
                    {"TTLExpireRollback", "RolledBack", "LockNotExistRollback"}
             THEN rolledBack \cup {<<k, s>>} ELSE rolledBack
        /\ UNCHANGED cleanedUp

KvTxnHeartBeat ==
    \E s \in StartTS, ttl \in LockTTL :
        TxnHeartBeat(PrimaryOf[s], s, ttl) /\ UNCHANGED told

KvResolveLock ==
    \E K \in KeySet, s \in StartTS :
        /\ \/ ResolveLock(K, s, 0)
           \/ \E p \in CommitOf : p[1] = s /\ ResolveLock(K, s, p[2])
        /\ UNCHANGED told

StoreBatchResolveLock ==
    \E K \in KeySet, S \in SUBSET StartTS :
    \E infos \in [S -> {0} \cup {p[2] : p \in CommitOf}] :
        /\ \A s \in S : infos[s] = 0 \/ <<s, infos[s]>> \in CommitOf
        /\ BatchResolveLock(K, infos)
        /\ UNCHANGED told

\* The answers a collected tombstone backed are no longer promised.
KvGC ==
    \E K \in KeySet, sp \in CheckTS :
        LET kept(T) == {t \in T : ~(t[1] \in K /\ t[2] <= sp)} IN
        /\ ~GCError(K, sp)
        /\ GC(K, sp)
        /\ rolledBack' = kept(rolledBack)
        /\ cleanedUp' = kept(cleanedUp)

KvDeleteRange ==
    \E K \in KeySet :
        LET kept(T) == {t \in T : t[1] \notin K} IN
        /\ DeleteRange(K)
        /\ rolledBack' = kept(rolledBack)
        /\ cleanedUp' = kept(cleanedUp)

Next ==
    \/ KvPrewrite \/ KvPessimisticLock \/ KvPessimisticRollback
    \/ KvCommit \/ KvBatchRollback \/ KvCleanup \/ KvCheckTxnStatus
    \/ KvTxnHeartBeat \/ KvResolveLock \/ StoreBatchResolveLock
    \/ KvGC \/ KvDeleteRange

Spec == Init /\ [][Next]_vars

-----------------------------------------------------------------------------
(* Properties. *)

TypeOK ==
    /\ StoreTypeOK
    /\ rolledBack \in SUBSET (Key \X StartTS)
    /\ cleanedUp \in SUBSET (Key \X StartTS)

\* A transaction leaves at most one record on a key: it is never both committed
\* and rolled back there, and never committed twice, whatever requests are
\* repeated (commitKey and rollbackKey consult getTxnCommitInfo).
OneFate ==
    \A k \in Key : \A w, x \in write[k] : w.startTS = x.startTS => w = x

\* A transaction that holds a lock on a key has left no record there: a late or
\* repeated prewrite or pessimistic lock is refused once the key is settled
\* (checkConflictValue), so no lock outlives its outcome.
LockExcludesRecord ==
    \A k \in Key : lock[k] # NoLock =>
        \A w \in write[k] : w.startTS # lock[k].startTS

\* After Rollback or CheckTxnStatus has told a client that a transaction is
\* rolled back on a key, that transaction neither locks nor commits the key
\* again until the tombstone is collected (GC, DeleteRange).
RollbackFinal ==
    \A t \in rolledBack :
        /\ ~HasLock(t[1], t[2])
        /\ \A w \in write[t[1]] : w.startTS = t[2] => w.type = "Rollback"

\* The same promise for the deprecated Cleanup.
CleanupFinal ==
    \A t \in cleanedUp :
        /\ ~HasLock(t[1], t[2])
        /\ \A w \in write[t[1]] : w.startTS = t[2] => w.type = "Rollback"

\* The detector's wait-for graph never contains a cycle: Detect refuses the
\* edge that would close one.
WaitForAcyclic ==
    \A e \in waitFor : ~Reaches(waitFor, e[2], e[1])

\* No operation but GC and DeleteRange removes or overwrites a record, although
\* rollbacks and commits are stored in the same (key, version) space.
HistoryKept ==
    [][ \/ \A k \in Key : write[k] \subseteq write'[k]
        \/ \E K \in KeySet, sp \in CheckTS : GC(K, sp)
        \/ \E K \in KeySet : DeleteRange(K) ]_vars

\* GC at a safe point leaves every read at or above it as it was.
GCKeepsReads ==
    [][ \A K \in KeySet, sp \in CheckTS : GC(K, sp) =>
            \A k \in Key, ts \in CheckTS :
                ts >= sp => Visible(write'[k], ts) = Visible(write[k], ts) ]_vars

\* While a transaction keeps its primary lock, neither a heartbeat, a push nor
\* the prewrite that replaces a pessimistic lock lowers its TTL or minCommitTS.
PrimaryLockMonotone ==
    [][ \A k \in Key :
          (/\ lock[k] # NoLock /\ lock'[k] # NoLock
           /\ lock[k].startTS = lock'[k].startTS /\ lock[k].primary = k)
          => /\ lock'[k].ttl >= lock[k].ttl
             /\ lock'[k].minCommitTS >= lock[k].minCommitTS ]_vars

=============================================================================
