----------------------------- MODULE Percolator ------------------------------
(***************************************************************************)
(* Two-phase-commit clients, snapshot readers and lock resolvers over the  *)
(* store of module Mvcc.  The server side (which handler of rpc.go calls   *)
(* which store operation) is the repository's; the client is external and  *)
(* is modelled from the requests those handlers accept.                    *)
(*                                                                         *)
(* Requests are never removed from msgs and nothing forces their handling: *)
(* a request may be lost, delayed past anything else, or handled twice.    *)
(* A client that takes no further step has crashed.                        *)
(***************************************************************************)
EXTENDS Mvcc

CONSTANTS
    Txn,            \* the transactions
    Mutations,      \* Mutations[t]: the keys t writes and how
    PrimaryKey,     \* PrimaryKey[t]: a key of DOMAIN Mutations[t]
    Pessimistic,    \* transactions that take pessimistic locks first
    Large,          \* transactions that ask for a minCommitTS
    LockSets,       \* LockSets[t]: key sets a statement of t may lock
    MaxStatements,  \* bound on the locking statements of a transaction
    Reader,         \* snapshot readers
    PointReader,    \* point gets of the latest version (at MaxUint64)
    ReadKeys,       \* ReadKeys[r]: the keys r reads
    Region,         \* RegionOf[k]: the region of key k; a request goes to one region
    RegionOf,
    TTL,            \* TTL of a new lock, in physical clock units
    Loaded,         \* keys that hold a value from the start, written by <<1, 2>>
    LastReadTS      \* bound on the snapshots of readers, so that time is left
                    \* for the locks below them to expire

ASSUME PercolatorAssumption ==
    /\ Pessimistic \subseteq Txn /\ Large \subseteq Txn
    /\ \A t \in Txn : PrimaryKey[t] \in DOMAIN Mutations[t] /\ DOMAIN Mutations[t] \subseteq Key
    /\ \A t \in Txn : \A k \in DOMAIN Mutations[t] :
          Mutations[t][k] \in {"Put", "Del", "Lock", "Insert"}
    /\ RegionOf \in [Key -> Region]
    /\ \A r \in Reader \cup PointReader : ReadKeys[r] \subseteq Key
    /\ TTL \in Nat /\ LastReadTS \in Nat
    /\ Loaded \subseteq Key /\ (Loaded # {} => MaxTS > 2)

VARIABLES
    now,        \* the last timestamp of the oracle
    txn,        \* the clients' side of the transactions
    msgs,       \* requests ever sent
    resps,      \* answers of the store that a client waits for
    known,      \* <<s, c>>: a resolver learnt that s committed at c (0: rolled back)
    reader      \* snapshot, skipped locks and values read

clientVars == <<now, txn, msgs, resps>>
vars == <<lock, write, waitFor, now, txn, msgs, resps, known, reader>>

AnyReader == Reader \cup PointReader

\* No value read yet.
Unread == -1

Init ==
    /\ lock = [k \in Key |-> NoLock]
    /\ write = [k \in Key |->
                 IF k \in Loaded THEN {[type |-> "Put", startTS |-> 1, commitTS |-> 2]}
                 ELSE {}]
    /\ waitFor = {}
    /\ now = IF Loaded = {} THEN 0 ELSE 2
    /\ txn = [t \in Txn |-> [st |-> "init", startTS |-> 0, forUpdateTS |-> 0,
                             commitTS |-> 0, stmts |-> 0]]
    /\ msgs = {} /\ resps = {} /\ known = {}
    /\ reader = [r \in AnyReader |->
                  [ts |-> 0, resolved |-> {}, acked |-> {},
                   val |-> [k \in ReadKeys[r] |-> Unread]]]

\* FIDelClient.GetTS: strictly increasing, never the same twice.
GetTS == now < MaxTS /\ now' = now + 1

Regions(K) == {RegionOf[k] : k \in K}

In(g) == {k \in Key : RegionOf[k] = g}

Keys(t) == DOMAIN Mutations[t]

-----------------------------------------------------------------------------
(* The committing client. *)

Begin(t) ==
    /\ txn[t].st = "init"
    /\ GetTS
    /\ txn' = [txn EXCEPT ![t].st = "active", ![t].startTS = now']
    /\ UNCHANGED <<msgs, resps, known, reader>>
    /\ UNCHANGED storeVars

\* A statement locks its keys at a fresh forUpdateTS.  If it replaces a failed
\* one, the locks of that one are given up asynchronously.
LockKeys(t, K) ==
    LET old == txn[t].forUpdateTS IN
    /\ t \in Pessimistic
    /\ txn[t].st \in {"active", "locking"}
    /\ txn[t].stmts < MaxStatements
    /\ GetTS
    /\ txn' = [txn EXCEPT ![t].st = "locking", ![t].forUpdateTS = now',
                          ![t].stmts = @ + 1]
    /\ msgs' = msgs
         \cup {[type |-> "pessimisticLock", txn |-> t, keys |-> K \cap In(g), ts |-> now'] :
                    g \in Regions(K)}
         \cup {[type |-> "pessimisticRollback", txn |-> t, keys |-> m.keys, ts |-> old] :
                    m \in {m \in msgs : m.type = "pessimisticLock" /\ m.txn = t /\ m.ts = old}}
    /\ UNCHANGED <<resps, known, reader>>
    /\ UNCHANGED storeVars

\* The last statement has locked all its keys, and they are the keys t writes.
Locked(t) ==
    /\ \A m \in msgs : (m.type = "pessimisticLock" /\ m.txn = t /\ m.ts = txn[t].forUpdateTS)
                        => m.keys \subseteq Keys(t)
    /\ \A k \in Keys(t) : \E a \in resps :
        /\ a.type = "pessimisticLock" /\ a.txn = t
        /\ a.ts = txn[t].forUpdateTS /\ k \in a.keys

SendPrewrite(t) ==
    /\ IF t \in Pessimistic THEN txn[t].st = "locking" /\ Locked(t)
       ELSE txn[t].st = "active"
    /\ txn' = [txn EXCEPT ![t].st = "prewriting"]
    /\ msgs' = msgs \cup {[type |-> "prewrite", txn |-> t, keys |-> Keys(t) \cap In(g), ts |-> 0] :
                            g \in Regions(Keys(t))}
    /\ UNCHANGED <<now, resps, known, reader>>
    /\ UNCHANGED storeVars

CommitMsg(t, g, c) == [type |-> "commit", txn |-> t, keys |-> Keys(t) \cap In(g), ts |-> c]

PrimaryRegion(t) == RegionOf[PrimaryKey[t]]

Prewritten(t) ==
    \A g \in Regions(Keys(t)) :
        [type |-> "prewrite", txn |-> t, keys |-> Keys(t) \cap In(g), ts |-> 0] \in resps

\* The commit timestamp is taken once all keys are prewritten, and again each
\* time the store answers that it is below minCommitTS.
SendCommit(t) ==
    /\ \/ txn[t].st = "prewriting" /\ Prewritten(t)
       \/ /\ txn[t].st = "committing"
          /\ [type |-> "commitTSExpired", txn |-> t, ts |-> txn[t].commitTS] \in resps
    /\ GetTS
    /\ txn' = [txn EXCEPT ![t].st = "committing", ![t].commitTS = now']
    /\ msgs' = msgs \cup {CommitMsg(t, PrimaryRegion(t), now')}
    /\ UNCHANGED <<resps, known, reader>>
    /\ UNCHANGED storeVars

\* The primary is committed: the application is told, the secondaries follow.
CommitAcked(t) ==
    /\ txn[t].st = "committing"
    /\ [type |-> "commit", txn |-> t, ts |-> txn[t].commitTS] \in resps
    /\ txn' = [txn EXCEPT ![t].st = "committed"]
    /\ msgs' = msgs \cup {CommitMsg(t, g, txn[t].commitTS) :
                            g \in Regions(Keys(t)) \ {PrimaryRegion(t)}}
    /\ UNCHANGED <<now, resps, known, reader>>
    /\ UNCHANGED storeVars

\* Before a commit request is out the client may give up for any reason; later
\* only when the store answers that the transaction is not there.
Abort(t) ==
    /\ \/ txn[t].st \in {"active", "locking", "prewriting"}
       \/ /\ txn[t].st = "committing"
          /\ [type |-> "txnNotFound", txn |-> t, ts |-> txn[t].commitTS] \in resps
    /\ txn' = [txn EXCEPT ![t].st = "aborted"]
    /\ msgs' = msgs \cup {[type |-> "rollback", txn |-> t, keys |-> Keys(t) \cap In(g), ts |-> 0] :
                            g \in Regions(Keys(t))}
    /\ UNCHANGED <<now, resps, known, reader>>
    /\ UNCHANGED storeVars

\* The TTL manager of a transaction in flight extends the primary lock.
HeartBeat(t) ==
    /\ t \in Large
    /\ txn[t].st \in {"locking", "prewriting", "committing"}
    /\ TxnHeartBeat(PrimaryKey[t], txn[t].startTS,
                    ExtractPhysical(now) - ExtractPhysical(txn[t].startTS) + TTL)
    /\ UNCHANGED <<now, txn, msgs, resps, known, reader>>

-----------------------------------------------------------------------------
(* The store handles a request; answers nobody waits for are not kept. *)

MinCommitTSFor(t, ts) == IF t \in Large THEN ts + 1 ELSE 0

PrewriteRequest(t, K) ==
    [mutations |-> [k \in K |-> Mutations[t][k]], startTS |-> txn[t].startTS,
     primary |-> PrimaryKey[t], ttl |-> TTL,
     forUpdateTS |-> txn[t].forUpdateTS,
     minCommitTS |-> MinCommitTSFor(t, Max2(txn[t].startTS, txn[t].forUpdateTS)),
     pessimistic |-> IF t \in Pessimistic THEN K ELSE {}, resolved |-> {}]

PessimisticLockRequest(t, K, f) ==
    [keys |-> K, startTS |-> txn[t].startTS, primary |-> PrimaryKey[t], ttl |-> TTL,
     forUpdateTS |-> f, minCommitTS |-> MinCommitTSFor(t, f),
     notExist |-> FALSE, noWait |-> FALSE]

HandlePrewrite(m) ==
    /\ m.type = "prewrite"
    /\ Prewrite(PrewriteRequest(m.txn, m.keys))
    /\ resps' = IF PrewriteOK(PrewriteRequest(m.txn, m.keys)) THEN resps \cup {m} ELSE resps

HandlePessimisticLock(m) ==
    LET q == PessimisticLockRequest(m.txn, m.keys, m.ts) IN
    /\ m.type = "pessimisticLock"
    /\ PessimisticLock(q)
    /\ resps' = IF PessimisticLockOK(q) THEN resps \cup {m} ELSE resps

HandlePessimisticRollback(m) ==
    /\ m.type = "pessimisticRollback"
    /\ PessimisticRollback(m.keys, txn[m.txn].startTS, m.ts)
    /\ UNCHANGED resps

\* The answer to a commit is that of the first key that fails.
HandleCommit(m) ==
    LET s == txn[m.txn].startTS
        failed == {k \in m.keys : CommitError(k, s, m.ts) # "ok"}
    IN  /\ m.type = "commit"
        /\ Commit(m.keys, s, m.ts)
        /\ \E answer \in IF failed = {} THEN {"commit"}
                         ELSE {CommitError(k, s, m.ts) : k \in failed} :
              resps' = resps \cup
                {[type |-> CASE answer = "commit" -> "commit"
                             [] answer = "TxnNotFound" -> "txnNotFound"
                             [] OTHER -> "commitTSExpired",
                  txn |-> m.txn, ts |-> m.ts]}

HandleRollback(m) ==
    /\ m.type = "rollback"
    /\ Rollback(m.keys, txn[m.txn].startTS)
    /\ UNCHANGED resps

Handle(m) ==
    /\ \/ HandlePrewrite(m) \/ HandlePessimisticLock(m) \/ HandlePessimisticRollback(m)
       \/ HandleCommit(m) \/ HandleRollback(m)
    /\ UNCHANGED <<now, txn, msgs, known, reader>>

-----------------------------------------------------------------------------
(* Readers and lock resolvers. *)

ReadBegin(r) ==
    /\ reader[r].ts = 0
    /\ IF r \in Reader
       THEN now < LastReadTS /\ GetTS /\ reader' = [reader EXCEPT ![r].ts = now']
       ELSE /\ UNCHANGED now
            /\ reader' = [reader EXCEPT ![r].ts = MaxUint64,
                            ![r].acked = {t \in Txn : txn[t].st = "committed"}]
    /\ UNCHANGED <<txn, msgs, resps, known>>
    /\ UNCHANGED storeVars

Pending(r, k) == reader[r].ts # 0 /\ k \in ReadKeys[r] /\ reader[r].val[k] = Unread

ReadKey(r, k) ==
    /\ Pending(r, k)
    /\ ~ReadBlocked(k, reader[r].ts, reader[r].resolved)
    /\ reader' = [reader EXCEPT ![r].val[k] = GetValue(k, reader[r].ts)]
    /\ UNCHANGED <<now, txn, msgs, resps, known>>
    /\ UNCHANGED storeVars

\* What a resolver learns from the answer of CheckTxnStatus.
Learn(p, s, status) ==
    known' = CASE status = "Committed" -> known \cup {<<s, CommitTSOf(p, s)>>}
               [] status \in {"TTLExpireRollback", "RolledBack", "LockNotExistRollback"} ->
                    known \cup {<<s, 0>>}
               [] OTHER -> known

\* A blocked reader checks the lock's transaction at its primary, and asks for a
\* tombstone if the lock it met has expired.
CheckBlocking(r, k) ==
    LET l == lock[k]
        rb == Expired(l, now)
        status == TxnStatus(l.primary, l.startTS, reader[r].ts, now, rb)
    IN  /\ Pending(r, k)
        /\ ReadBlocked(k, reader[r].ts, reader[r].resolved)
        /\ CheckTxnStatus(l.primary, l.startTS, reader[r].ts, now, rb)
        /\ Learn(l.primary, l.startTS, status)
        /\ reader' = IF status = "MinCommitTSPushed"
                     THEN [reader EXCEPT ![r].resolved = @ \cup {l.startTS}] ELSE reader
        /\ UNCHANGED <<now, txn, msgs, resps>>

\* Any other resolver: a blocked writer or the GC worker.  Its request may come
\* long after it met the lock, so the lock need not be there any more.
CheckTxn(t) ==
    LET p == PrimaryKey[t]
        s == txn[t].startTS
    IN  /\ s # 0
        /\ \E rb \in {FALSE, ExtractPhysical(s) + TTL < ExtractPhysical(now)} :
              /\ CheckTxnStatus(p, s, 0, now, rb)
              /\ Learn(p, s, TxnStatus(p, s, 0, now, rb))
        /\ UNCHANGED <<now, txn, msgs, resps, reader>>

\* A settled outcome is applied to all locks of the transaction in a region, at
\* any later time.
ResolveRegion(g, o) ==
    /\ o \in known
    /\ ResolveLock(In(g), o[1], o[2])
    /\ UNCHANGED <<now, txn, msgs, resps, known, reader>>

\* Other users of the oracle make time pass.
Tick ==
    /\ GetTS
    /\ UNCHANGED <<txn, msgs, resps, known, reader>>
    /\ UNCHANGED storeVars

Next ==
    \/ \E t \in Txn : \/ Begin(t) \/ SendPrewrite(t) \/ SendCommit(t) \/ CommitAcked(t)
                      \/ Abort(t) \/ HeartBeat(t) \/ CheckTxn(t)
                      \/ \E K \in LockSets[t] : LockKeys(t, K)
    \/ \E m \in msgs : Handle(m)
    \/ \E r \in AnyReader : \/ ReadBegin(r)
                            \/ \E k \in ReadKeys[r] : ReadKey(r, k) \/ CheckBlocking(r, k)
    \/ \E g \in Region, o \in known : ResolveRegion(g, o)
    \/ Tick

Spec == Init /\ [][Next]_vars

-----------------------------------------------------------------------------
(* Properties. *)

TxnState == {"init", "active", "locking", "prewriting", "committing", "committed", "aborted"}

TypeOK ==
    /\ StoreTypeOK
    /\ now \in 0 .. MaxTS
    /\ \A t \in Txn : /\ txn[t].st \in TxnState
                      /\ {txn[t].startTS, txn[t].forUpdateTS, txn[t].commitTS} \subseteq 0 .. MaxTS
    /\ known \subseteq TS \X (0 .. MaxTS)
    /\ \A r \in AnyReader : /\ reader[r].ts \in 0 .. MaxUint64
                            /\ reader[r].resolved \subseteq TS

\* The records transaction t left on key k.
Outcome(t, k) == {w \in write[k] : txn[t].startTS # 0 /\ w.startTS = txn[t].startTS}

CommittedOn(t, k) == {w \in Outcome(t, k) : w.type # "Rollback"}

\* A transaction commits on all its keys at one timestamp or on none: no
\* interleaving of late prewrites, commits, rollbacks, TTL expiry and resolvers
\* commits one key and rolls back another.
CommitAtomic ==
    \A t \in Txn : \A k, j \in Key :
        \A w \in CommittedOn(t, k), x \in Outcome(t, j) :
            x.type # "Rollback" /\ x.commitTS = w.commitTS

\* What a snapshot reader has read stays what its snapshot shows: no write
\* commits later with a commit timestamp at or below the reader's, whether the
\* lock was absent, ignored, skipped after a minCommitTS push or resolved.
SnapshotRead ==
    \A r \in Reader : \A k \in ReadKeys[r] :
        reader[r].val[k] # Unread => reader[r].val[k] = Visible(write[k], reader[r].ts)

\* A point get of the latest version shows the key as it was at some time not
\* before any commit that was acknowledged before it began, although it reads
\* below primary locks and skips others.
PointGetFresh ==
    \A r \in PointReader : \A k \in ReadKeys[r], t \in reader[r].acked :
        reader[r].val[k] # Unread /\ k \in Keys(t) =>
            \E ts \in txn[t].commitTS .. MaxTS : reader[r].val[k] = Visible(write[k], ts)

\* Of two transactions that commit on the same key, the later one has seen the
\* earlier: it conflicts on anything newer than its start (its forUpdateTS if
\* it is pessimistic), so no update is lost.
NoLostUpdate ==
    \A t, u \in Txn : \A k \in Key : \A w \in CommittedOn(t, k), x \in CommittedOn(u, k) :
        w.commitTS < x.commitTS =>
            w.commitTS <= IF u \in Pessimistic THEN txn[u].forUpdateTS ELSE txn[u].startTS

\* An acknowledged commit is never lost: each key of the transaction carries its
\* commit record or still its lock, which only a commit can turn into a record.
AckedDurable ==
    \A t \in Txn : txn[t].st = "committed" =>
        \A k \in Keys(t) :
            \/ \E w \in CommittedOn(t, k) : w.commitTS = txn[t].commitTS
            \/ HasLock(k, txn[t].startTS) /\ lock[k].op # "PessimisticLock"

\* A transaction reported as failed to the application never takes effect.
AbortedNeverCommits ==
    \A t \in Txn : txn[t].st = "aborted" => \A k \in Key : CommittedOn(t, k) = {}

-----------------------------------------------------------------------------
(* Liveness.  A reader keeps retrying and resolving (its client's back-off  *)
(* loop), the oracle's clock advances, committing clients may crash.        *)

ReaderStep(r) ==
    \E k \in ReadKeys[r] : ReadKey(r, k) \/ CheckBlocking(r, k)

ResolveBlocking(r) ==
    \E k \in ReadKeys[r], o \in known :
        /\ Pending(r, k) /\ HasLock(k, o[1])
        /\ ResolveRegion(RegionOf[k], o)

FairSpec ==
    /\ Spec
    /\ WF_vars(Tick)
    /\ \A r \in AnyReader : WF_vars(ReaderStep(r)) /\ WF_vars(ResolveBlocking(r))

\* Every snapshot read ends, even if the client that locked the key has crashed:
\* its locks expire, or are skipped once minCommitTS is pushed.
ReadsComplete ==
    \A r \in Reader : reader[r].ts # 0 ~> \A k \in ReadKeys[r] : reader[r].val[k] # Unread

=============================================================================
