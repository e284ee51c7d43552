--------------------------- MODULE PercolatorProofs ---------------------------
(***************************************************************************)
(* Proofs about module Percolator, for any transactions, keys, regions and *)
(* readers and any number of requests in flight.                           *)
(*                                                                         *)
(* The inductive invariant PInv says, of the store, that every lock and    *)
(* record belongs to one transaction and that a transaction's primary key  *)
(* decides for all its keys (Decided); of the requests in flight, what     *)
(* their client knew when it sent them (MsgOK); of the answers and of what *)
(* resolvers learnt, what stays true whatever happens later (RespOK,       *)
(* KnownOK).  Each operation of the store is shown to be a StoreStep of    *)
(* one transaction, each step of a client a ClientStep, and those two keep *)
(* PInv.                                                                   *)
(***************************************************************************)
EXTENDS Percolator, TLAPS

\* The client's side of a transaction.
StartOf(t) == txn[t].startTS
CommitAt(t) == txn[t].commitTS
ForUpdateOf(t) == txn[t].forUpdateTS
St(t) == txn[t].st

\* The requests of the clients.
MsgType == {"pessimisticLock", "pessimisticRollback", "prewrite", "commit", "rollback"}
Msg == [type : MsgType, txn : Txn, keys : SUBSET Key, ts : 0 .. MaxTS]

\* The types of the store, the oracle and the clients.
Typed ==
    /\ StoreTypeOK
    /\ now \in 0 .. MaxTS
    /\ txn \in [Txn -> [st : TxnState, startTS : 0 .. MaxTS, forUpdateTS : 0 .. MaxTS,
                        commitTS : 0 .. MaxTS, stmts : Nat]]
    /\ msgs \subseteq Msg

\* The types of the readers.
ReadersTyped ==
    /\ reader = [r \in AnyReader |-> reader[r]]
    /\ \A r \in AnyReader :
          /\ reader[r] = [ts |-> reader[r].ts, resolved |-> reader[r].resolved,
                          acked |-> reader[r].acked, val |-> reader[r].val]
          /\ reader[r].ts \in Nat

\* Timestamps come from one oracle and are used once; a client has a commit
\* timestamp exactly in the states that follow SendCommit.
Oracle ==
    /\ Loaded # {} => now >= 2
    /\ \A t \in Txn :
         /\ StartOf(t) <= now /\ ForUpdateOf(t) <= now /\ CommitAt(t) <= now
         /\ (StartOf(t) # 0) <=> (St(t) # "init")
         /\ StartOf(t) # 0 /\ Loaded # {} => StartOf(t) > 2
         /\ CommitAt(t) # 0 => /\ StartOf(t) # 0
                               /\ StartOf(t) < CommitAt(t) /\ ForUpdateOf(t) < CommitAt(t)
                               /\ St(t) \in {"committing", "committed", "aborted"}
         /\ St(t) \in {"committing", "committed"} => CommitAt(t) # 0
    /\ \A t, u \in Txn :
         /\ StartOf(t) # 0 /\ StartOf(t) = StartOf(u) => t = u
         /\ CommitAt(t) # 0 => CommitAt(t) # StartOf(u)
         /\ CommitAt(t) # 0 /\ CommitAt(t) = CommitAt(u) => t = u

\* A lock belongs to a transaction; of prewrite locks only the primary's carries a
\* minCommitTS.
LockShape(k) ==
    lock[k] # NoLock => \E t \in Txn :
        /\ StartOf(t) # 0 /\ lock[k].startTS = StartOf(t) /\ lock[k].primary = PrimaryKey[t]
        /\ lock[k].op # "PessimisticLock" /\ k # PrimaryKey[t] => lock[k].minCommitTS = 0

\* The record of a value loaded before the first transaction.
InitialRec == [type |-> "Put", startTS |-> 1, commitTS |-> 2]

\* A record belongs to a transaction, or was loaded.  A commit record carries the
\* last commit timestamp its client took.
RecShape(k, w) ==
    \/ k \in Loaded /\ w = InitialRec
    \/ \E t \in Txn : /\ StartOf(t) # 0 /\ w.startTS = StartOf(t)
                      /\ IF w.type = "Rollback" THEN w.commitTS = StartOf(t)
                         ELSE w.commitTS = CommitAt(t) /\ CommitAt(t) # 0

\* The transaction has a tombstone on the key.
RolledBackOn(t, k) == \E w \in Outcome(t, k) : w.type = "Rollback"

\* The newest commit t may have seen on the keys it writes.
Seen(t) == IF t \in Pessimistic THEN ForUpdateOf(t) ELSE StartOf(t)

\* Updates that t commits on k were preceded only by what t may have seen.
SeenBefore(k) ==
    \A t \in Txn : \A w \in write[k], x \in CommittedOn(t, k) :
        w.type # "Rollback" /\ w.commitTS < x.commitTS => w.commitTS <= Seen(t)

\* While t holds a lock no newer commit reaches the key.
LockSeen(k) ==
    \A t \in Txn : StartOf(t) # 0 /\ HasLock(k, StartOf(t)) =>
        \A w \in write[k] : w.type # "Rollback" => w.commitTS <= Seen(t)

\* The invariant of one key: a transaction has one record on it or one lock.
KeyInv(k) ==
    /\ LockShape(k)
    /\ \A w \in write[k] : RecShape(k, w)
    /\ \A w, x \in write[k] : w.startTS = x.startTS => w = x
    /\ lock[k] # NoLock => \A w \in write[k] : w.startTS # lock[k].startTS
    /\ LockSeen(k)
    /\ SeenBefore(k)

\* The primary decides: commits elsewhere follow its commit, tombstones follow its
\* tombstone unless the client gave up.  A client that gave up has not asked for
\* a commit, or was told that the primary is rolled back.
Decided(t) ==
    LET p == PrimaryKey[t] IN
    /\ \A k \in Key : CommittedOn(t, k) # {} => CommittedOn(t, p) # {}
    /\ CommittedOn(t, p) # {} =>
          \A k \in Keys(t) : RegionOf[k] = RegionOf[p] => Outcome(t, k) # {}
    /\ \A k \in Key : RolledBackOn(t, k) => St(t) = "aborted" \/ RolledBackOn(t, p)
    /\ St(t) = "aborted" => RolledBackOn(t, p) \/ CommitAt(t) = 0
    /\ St(t) = "committed" => CommittedOn(t, p) # {}

\* The key is prewritten: locked, or settled already.
Held(t, k) ==
    \/ HasLock(k, StartOf(t)) /\ lock[k].op # "PessimisticLock"
    \/ Outcome(t, k) # {}

\* What a request in flight implies about its client.  A commit request whose
\* timestamp was replaced is one the store has refused.
MsgOK(m) ==
    LET t == m.txn IN
    /\ StartOf(t) # 0
    /\ m.type = "prewrite" => m.keys \subseteq Keys(t)
    /\ m.type = "pessimisticLock" => t \in Pessimistic /\ m.ts <= ForUpdateOf(t)
    /\ m.type = "rollback" => St(t) = "aborted"
    /\ m.type = "commit" =>
         /\ CommitAt(t) # 0 /\ m.ts # 0
         /\ \E g \in Regions(Keys(t)) : m.keys = Keys(t) \cap In(g)
         /\ PrimaryKey[t] \in m.keys \/ (St(t) = "committed" /\ m.ts = CommitAt(t))
         /\ \/ m.ts = CommitAt(t)
            \/ [type |-> "commitTSExpired", txn |-> t, ts |-> m.ts] \in resps

\* What an answer implies, from the moment it is given on.
RespOK(a) ==
    LET t == a.txn
        p == PrimaryKey[t]
    IN
    /\ t \in Txn /\ StartOf(t) # 0
    /\ a.type = "prewrite" => \A k \in a.keys : k \in Key /\ Held(t, k)
    /\ a.type = "commit" => CommittedOn(t, p) # {}
    /\ a.type = "txnNotFound" => St(t) = "aborted" \/ RolledBackOn(t, p)
    /\ a.type = "commitTSExpired" =>
          /\ a.ts \in Nat /\ Held(t, p)
          /\ HasLock(p, StartOf(t)) => lock[p].minCommitTS > a.ts
          /\ \A w \in CommittedOn(t, p) : w.commitTS # a.ts

\* What a resolver learnt is decided on the primary.
KnownOK(o) ==
    \E t \in Txn :
        /\ o[1] = StartOf(t) /\ StartOf(t) # 0
        /\ IF o[2] = 0 THEN RolledBackOn(t, PrimaryKey[t])
           ELSE o[2] = CommitAt(t) /\ CommittedOn(t, PrimaryKey[t]) # {}

\* A commit timestamp is taken once every key is prewritten.
CommitPrewritten == \A t \in Txn : CommitAt(t) # 0 => Prewritten(t)

\* The inductive invariant.
PInv ==
    /\ Typed /\ ReadersTyped /\ Oracle /\ CommitPrewritten
    /\ \A k \in Key : KeyInv(k)
    /\ \A t \in Txn : Decided(t)
    /\ \A m \in msgs : MsgOK(m)
    /\ \A a \in resps : RespOK(a)
    /\ \A o \in known : KnownOK(o)

-----------------------------------------------------------------------------
(* Steps of the store on behalf of one transaction, key by key. *)

\* Nothing happens to the key.
KeyIdle(k) == lock'[k] = lock[k] /\ write'[k] = write[k]

\* A pessimistic lock is given up.
KeyDrop(t, k) ==
    /\ HasLock(k, StartOf(t)) /\ lock[k].op = "PessimisticLock"
    /\ lock'[k] = NoLock /\ write'[k] = write[k]

\* A request of t asks for a lock on the key.
AskedFor(t, k) ==
    \E m \in msgs : m.txn = t /\ k \in m.keys /\ m.type \in {"prewrite", "pessimisticLock"}

\* The transaction, which has no record here, takes the lock or changes it.
KeyLock(t, k) ==
    /\ ~OtherLock(k, StartOf(t)) /\ Outcome(t, k) = {}
    /\ lock'[k] \in LockRec
    /\ lock'[k].startTS = StartOf(t) /\ lock'[k].primary = PrimaryKey[t]
    /\ lock'[k].op # "PessimisticLock" /\ k # PrimaryKey[t] => lock'[k].minCommitTS = 0
    /\ HasLock(k, StartOf(t)) /\ lock[k].op # "PessimisticLock" =>
          lock'[k].op = lock[k].op /\ lock'[k].minCommitTS >= lock[k].minCommitTS
    /\ HasLock(k, StartOf(t)) \/ \A w \in write[k] : w.commitTS <= Seen(t)
    /\ HasLock(k, StartOf(t)) \/ AskedFor(t, k)
    /\ write'[k] = write[k]

\* The transaction, which has no record here, gets a tombstone.
KeyRollback(t, k) ==
    /\ Outcome(t, k) = {}
    /\ lock'[k] = IF HasLock(k, StartOf(t)) THEN NoLock ELSE lock[k]
    /\ write'[k] = PutValue(write[k], RollbackRec(StartOf(t)))

\* Its lock becomes a commit record.
KeyCommit(t, k) ==
    /\ HasLock(k, StartOf(t)) /\ CommitAt(t) # 0
    /\ k = PrimaryKey[t] => lock[k].minCommitTS <= CommitAt(t)
    /\ lock'[k] = NoLock
    /\ write'[k] = PutValue(write[k], CommitRec(lock[k], CommitAt(t)))

\* What an operation for t may do to a key.
KeyStep(t, k) ==
    KeyIdle(k) \/ KeyDrop(t, k) \/ KeyLock(t, k) \/ KeyRollback(t, k) \/ KeyCommit(t, k)

\* A step of the store for t.  Tombstones follow the primary's unless the client
\* gave up, commits follow the primary's, and the primary is committed together
\* with the rest of its region.
StoreStep(t) ==
    /\ StartOf(t) # 0
    /\ \A k \in Key : KeyStep(t, k)
    /\ lock' = [k \in Key |-> lock'[k]] /\ write' = [k \in Key |-> write'[k]]
    /\ waitFor' \subseteq TS \X TS
    /\ \A k \in Key : KeyRollback(t, k) => St(t) = "aborted" \/ RolledBackOn(t, PrimaryKey[t])'
    /\ \A k \in Key : KeyCommit(t, k) => CommittedOn(t, PrimaryKey[t])' # {}
    /\ KeyCommit(t, PrimaryKey[t]) =>
          \A k \in Keys(t) : RegionOf[k] = RegionOf[PrimaryKey[t]] => Outcome(t, k)' # {}
    /\ UNCHANGED <<now, txn, msgs>>

\* The timestamps are numbers.
LEMMA TxnTypes ==
    ASSUME Typed, NEW t \in Txn
    PROVE  /\ StartOf(t) \in 0 .. MaxTS /\ ForUpdateOf(t) \in 0 .. MaxTS
           /\ CommitAt(t) \in 0 .. MaxTS /\ Seen(t) \in 0 .. MaxTS
           /\ StartOf(t) \in Nat /\ ForUpdateOf(t) \in Nat
           /\ CommitAt(t) \in Nat /\ Seen(t) \in Nat
BY MaxTSAssumption DEF Typed, StartOf, ForUpdateOf, CommitAt, Seen

\* A transaction's record has a version of its own: it replaces no other.
LEMMA PutFresh ==
    ASSUME Typed, Oracle, NEW k \in Key, KeyInv(k), NEW t \in Txn, StartOf(t) # 0,
           Outcome(t, k) = {}, NEW w \in WriteRec, w.startTS = StartOf(t),
           IF w.type = "Rollback" THEN w.commitTS = StartOf(t)
           ELSE w.commitTS = CommitAt(t) /\ CommitAt(t) # 0
    PROVE  PutValue(write[k], w) = write[k] \cup {w}
<1> SUFFICES ASSUME NEW x \in write[k], x.commitTS = w.commitTS
             PROVE  FALSE
  BY DEF PutValue
<1>0. x.startTS # StartOf(t)
  BY DEF Outcome, StartOf
<1>1. RecShape(k, x)
  BY DEF KeyInv
<1>2. CASE k \in Loaded /\ x = InitialRec
  <2>1. x.commitTS = 2 /\ StartOf(t) > 2
    BY <1>2 DEF InitialRec, Oracle
  <2>2. CommitAt(t) # 0 => CommitAt(t) > 2
    BY <2>1, TxnTypes DEF Oracle
  <2> QED  BY <2>1, <2>2, TxnTypes
<1>3. CASE \E u \in Txn : /\ StartOf(u) # 0 /\ x.startTS = StartOf(u)
                          /\ IF x.type = "Rollback" THEN x.commitTS = StartOf(u)
                             ELSE x.commitTS = CommitAt(u) /\ CommitAt(u) # 0
  BY <1>0, <1>3 DEF Oracle
<1> QED  BY <1>1, <1>2, <1>3 DEF RecShape

\* A transaction that holds a lock has no record on the key.
LEMMA LockedUnsettled ==
    ASSUME NEW k \in Key, KeyInv(k), NEW t \in Txn, HasLock(k, StartOf(t))
    PROVE  Outcome(t, k) = {}
BY DEF KeyInv, HasLock, Outcome, StartOf

\* What a key step writes: at most one record, of the step's transaction.
LEMMA KeyStepRecords ==
    ASSUME Typed, Oracle, NEW k \in Key, KeyInv(k), NEW t \in Txn, StartOf(t) # 0, KeyStep(t, k)
    PROVE  /\ write[k] \subseteq write'[k] /\ write'[k] \subseteq WriteRec
           /\ \A w \in write'[k] :
                \/ w \in write[k]
                \/ /\ w.startTS = StartOf(t) /\ Outcome(t, k) = {}
                   /\ write'[k] = write[k] \cup {w}
                   /\ lock'[k] # NoLock => lock[k] # NoLock /\ lock[k].startTS # StartOf(t)
                   /\ lock'[k] \in {lock[k], NoLock}
                   /\ \/ w.type = "Rollback" /\ w.commitTS = StartOf(t) /\ KeyRollback(t, k)
                      \/ w.type # "Rollback" /\ w.commitTS = CommitAt(t) /\ KeyCommit(t, k)
<1>0. write[k] \subseteq WriteRec /\ StartOf(t) \in TS
  BY TxnTypes, MaxTSAssumption DEF Typed, StoreTypeOK, TS
<1>1. CASE KeyIdle(k) \/ KeyDrop(t, k) \/ KeyLock(t, k)
  BY <1>0, <1>1 DEF KeyIdle, KeyDrop, KeyLock
<1>2. CASE KeyRollback(t, k)
  <2> DEFINE w == RollbackRec(StartOf(t))
  <2>1. /\ w \in WriteRec /\ w.startTS = StartOf(t) /\ w.commitTS = StartOf(t)
        /\ w.type = "Rollback"
    BY <1>0 DEF RollbackRec, WriteRec, ValueType
  <2> HIDE DEF w
  <2>2. Outcome(t, k) = {} /\ write'[k] = PutValue(write[k], w)
    BY <1>2 DEF KeyRollback, w
  <2>3. write'[k] = write[k] \cup {w}
    BY <2>1, <2>2, PutFresh
  <2>4. /\ lock'[k] # NoLock => lock[k] # NoLock /\ lock[k].startTS # StartOf(t)
        /\ lock'[k] \in {lock[k], NoLock}
    BY <1>2 DEF KeyRollback, HasLock
  <2> QED  BY <1>0, <1>2, <2>1, <2>2, <2>3, <2>4
<1>3. CASE KeyCommit(t, k)
  <2> DEFINE w == CommitRec(lock[k], CommitAt(t))
  <2>0. lock[k].startTS = StartOf(t) /\ CommitAt(t) # 0 /\ CommitAt(t) \in TS
    BY <1>3, TxnTypes, MaxTSAssumption DEF KeyCommit, HasLock, TS
  <2>1. /\ w \in WriteRec /\ w.startTS = StartOf(t) /\ w.commitTS = CommitAt(t)
        /\ w.type # "Rollback"
    BY <1>0, <2>0 DEF CommitRec, WriteRec, ValueType
  <2> HIDE DEF w
  <2>2. Outcome(t, k) = {} /\ write'[k] = PutValue(write[k], w) /\ lock'[k] = NoLock
    BY <1>3, LockedUnsettled DEF KeyCommit, w
  <2>3. write'[k] = write[k] \cup {w}
    BY <2>0, <2>1, <2>2, PutFresh
  <2> QED  BY <1>0, <1>3, <2>0, <2>1, <2>2, <2>3
<1> QED  BY <1>1, <1>2, <1>3 DEF KeyStep

\* What t may have seen is older than its commit.
LEMMA SeenBelowCommit ==
    ASSUME Typed, Oracle, NEW t \in Txn, CommitAt(t) # 0
    PROVE  Seen(t) < CommitAt(t)
BY DEF Oracle, Seen

\* A key step keeps the invariant of its key.
LEMMA KeyStepKeeps ==
    ASSUME Typed, Oracle, NEW k \in Key, KeyInv(k), NEW t \in Txn, StartOf(t) # 0, KeyStep(t, k),
           txn' = txn
    PROVE  KeyInv(k)' /\ lock'[k] \in LockRec \cup {NoLock}
<1> DEFINE New(w) ==
             /\ w.startTS = StartOf(t) /\ Outcome(t, k) = {}
             /\ write'[k] = write[k] \cup {w}
             /\ lock'[k] # NoLock => lock[k] # NoLock /\ lock[k].startTS # StartOf(t)
             /\ lock'[k] \in {lock[k], NoLock}
             /\ \/ w.type = "Rollback" /\ w.commitTS = StartOf(t) /\ KeyRollback(t, k)
                \/ w.type # "Rollback" /\ w.commitTS = CommitAt(t) /\ KeyCommit(t, k)
<1>1. /\ write[k] \subseteq write'[k] /\ write'[k] \subseteq WriteRec
      /\ \A w \in write'[k] : w \in write[k] \/ New(w)
  BY KeyStepRecords
<1>2. \A u \in Txn : /\ StartOf(u)' = StartOf(u) /\ CommitAt(u)' = CommitAt(u)
                     /\ Seen(u)' = Seen(u) /\ St(u)' = St(u)
  BY DEF StartOf, CommitAt, Seen, ForUpdateOf, St
<1>3. \A w \in write[k] : w.startTS = StartOf(t) => Outcome(t, k) # {}
  BY DEF Outcome, StartOf
<1>4. lock'[k] \in LockRec \cup {NoLock} /\ (KeyLock(t, k) \/ lock'[k] \in {lock[k], NoLock})
  BY DEF KeyStep, KeyIdle, KeyDrop, KeyLock, KeyRollback, KeyCommit, Typed, StoreTypeOK
<1>5. LockShape(k)'
  <2>1. CASE KeyLock(t, k)
    BY <1>2, <2>1 DEF LockShape, KeyLock
  <2>2. CASE lock'[k] \in {lock[k], NoLock}
    BY <1>2, <2>2 DEF LockShape, KeyInv
  <2> QED  BY <1>4, <2>1, <2>2
<1>6. ASSUME NEW w \in write'[k]
      PROVE  RecShape(k, w)'
  <2>1. CASE w \in write[k]
    BY <1>2, <2>1 DEF KeyInv, RecShape, InitialRec
  <2>2. CASE New(w)
    BY <1>2, <2>2 DEF RecShape, KeyCommit
  <2> QED  BY <1>1, <2>1, <2>2
<1>7. ASSUME NEW w \in write'[k], NEW x \in write'[k], w.startTS = x.startTS
      PROVE  w = x
  BY <1>1, <1>3, <1>7 DEF KeyInv
<1>8. ASSUME lock'[k] # NoLock, NEW w \in write'[k]
      PROVE  w.startTS # lock'[k].startTS
  <2>1. CASE KeyLock(t, k)
    BY <1>3, <2>1 DEF KeyLock
  <2>2. CASE lock'[k] = lock[k]
    BY <1>1, <1>8, <2>2 DEF KeyInv
  <2> QED  BY <1>4, <1>8, <2>1, <2>2
<1>9. LockSeen(k)'
  <2> SUFFICES ASSUME NEW u \in Txn, StartOf(u) # 0, lock'[k] # NoLock,
                      lock'[k].startTS = StartOf(u), NEW w \in write'[k], w.type # "Rollback"
               PROVE  w.commitTS <= Seen(u)
    BY <1>2 DEF LockSeen, HasLock
  <2>1. w \in write[k]
    BY <1>1 DEF KeyCommit
  <2>2. CASE KeyLock(t, k)
    <3>1. u = t
      BY <2>2 DEF KeyLock, Oracle
    <3> QED  BY <2>1, <2>2, <3>1 DEF KeyLock, KeyInv, LockSeen
  <2>3. CASE lock'[k] = lock[k]
    BY <2>1, <2>3 DEF KeyInv, LockSeen, HasLock
  <2> QED  BY <1>4, <2>2, <2>3
<1>10. SeenBefore(k)'
  <2> SUFFICES ASSUME NEW u \in Txn, StartOf(u) # 0, NEW w \in write'[k], NEW x \in write'[k],
                      x.startTS = StartOf(u), w.type # "Rollback", x.type # "Rollback",
                      w.commitTS < x.commitTS
               PROVE  w.commitTS <= Seen(u)
    BY <1>2 DEF SeenBefore, CommittedOn, Outcome, StartOf
  <2>0. w.commitTS \in Nat /\ x.commitTS \in Nat
    BY <1>1, MaxTSAssumption DEF WriteRec, TS
  <2>1. CASE w \in write[k] /\ x \in write[k]
    BY <2>1 DEF KeyInv, SeenBefore, CommittedOn, Outcome, StartOf
  <2>2. CASE w \in write[k] /\ New(x)
    <3>1. u = t
      BY <2>2 DEF Oracle
    <3>2. HasLock(k, StartOf(t))
      BY <2>2 DEF KeyCommit
    <3> QED  BY <2>2, <3>1, <3>2 DEF KeyInv, LockSeen
  <2>3. CASE New(w) /\ x \in write[k]
    <3>1. HasLock(k, StartOf(t)) /\ CommitAt(t) # 0 /\ w.commitTS = CommitAt(t)
      BY <2>3 DEF KeyCommit
    <3>2. x.commitTS <= Seen(t)
      BY <2>3, <3>1 DEF KeyInv, LockSeen
    <3> QED  BY <2>0, <3>1, <3>2, TxnTypes, SeenBelowCommit
  <2>4. CASE New(w) /\ New(x)
    BY <2>0, <2>4
  <2> QED  BY <1>1, <2>1, <2>2, <2>3, <2>4
<1> QED  BY <1>4, <1>5, <1>6, <1>7, <1>8, <1>9, <1>10 DEF KeyInv

\* Records only accumulate, and a step for t adds records of t only.
LEMMA StoreStepRecords ==
    ASSUME PInv, NEW t \in Txn, StoreStep(t), NEW k \in Key, NEW u \in Txn
    PROVE  /\ Outcome(u, k) \subseteq Outcome(u, k)'
           /\ \A w \in Outcome(u, k)' :
                \/ w \in Outcome(u, k)
                \/ u = t /\ w.type = "Rollback" /\ KeyRollback(t, k)
                \/ u = t /\ w.type # "Rollback" /\ w.commitTS = CommitAt(t) /\ KeyCommit(t, k)
<1>1. Typed /\ Oracle /\ KeyInv(k) /\ StartOf(t) # 0 /\ KeyStep(t, k) /\ txn' = txn
  BY DEF PInv, StoreStep
<1>2. /\ write[k] \subseteq write'[k]
      /\ \A w \in write'[k] :
           \/ w \in write[k]
           \/ /\ w.startTS = StartOf(t)
              /\ \/ w.type = "Rollback" /\ KeyRollback(t, k)
                 \/ w.type # "Rollback" /\ w.commitTS = CommitAt(t) /\ KeyCommit(t, k)
  BY <1>1, KeyStepRecords
<1>3. /\ \A w : w \in Outcome(u, k) <=> w \in write[k] /\ StartOf(u) # 0 /\ w.startTS = StartOf(u)
      /\ \A w : w \in Outcome(u, k)' <=> w \in write'[k] /\ StartOf(u) # 0 /\ w.startTS = StartOf(u)
  BY <1>1 DEF Outcome, StartOf
<1>4. StartOf(u) # 0 /\ StartOf(u) = StartOf(t) => u = t
  BY <1>1 DEF Oracle
<1> QED  BY <1>2, <1>3, <1>4

\* A prewritten key keeps its lock until it has a record, and the lock's
\* minCommitTS is not lowered.
LEMMA StoreStepHeld ==
    ASSUME PInv, NEW t \in Txn, StoreStep(t), NEW k \in Key, NEW u \in Txn, StartOf(u) # 0,
           Held(u, k)
    PROVE  /\ Held(u, k)'
           /\ HasLock(k, StartOf(u))' =>
                HasLock(k, StartOf(u)) /\ lock'[k].minCommitTS >= lock[k].minCommitTS
<1>0. Typed /\ Oracle /\ KeyInv(k) /\ StartOf(t) # 0 /\ KeyStep(t, k) /\ txn' = txn
  BY DEF PInv, StoreStep
<1>1. KeyInv(k)' /\ Outcome(u, k) \subseteq Outcome(u, k)' /\ StartOf(u)' = StartOf(u)
  BY <1>0, KeyStepKeeps, StoreStepRecords DEF StartOf
<1>2. CASE Outcome(u, k) # {}
  <2>1. Outcome(u, k)' # {}
    BY <1>1, <1>2
  <2>2. ~HasLock(k, StartOf(u))'
    BY <1>1, <2>1, LockedUnsettled DEF KeyInv, HasLock, Outcome, StartOf
  <2> QED  BY <2>1, <2>2 DEF Held
<1>3. CASE HasLock(k, StartOf(u)) /\ lock[k].op # "PessimisticLock"
  <2>0. lock[k].minCommitTS >= lock[k].minCommitTS
    BY <1>0, <1>3 DEF HasLock, Typed, StoreTypeOK, LockRec
  <2>1. CASE lock'[k] = lock[k]
    BY <1>1, <1>3, <2>0, <2>1 DEF Held, HasLock
  <2>2. CASE KeyLock(t, k)
    <3>1. HasLock(k, StartOf(t)) /\ StartOf(u) = StartOf(t)
      BY <1>3, <2>2 DEF KeyLock, HasLock, OtherLock
    <3>2. /\ lock'[k] # NoLock /\ lock'[k].startTS = StartOf(u)
          /\ lock'[k].op # "PessimisticLock" /\ lock'[k].minCommitTS >= lock[k].minCommitTS
      BY <1>3, <2>2, <3>1, NoLockAssumption DEF KeyLock
    <3> QED  BY <1>1, <1>3, <3>2 DEF Held, HasLock
  <2>3. CASE KeyCommit(t, k) \/ (KeyRollback(t, k) /\ lock'[k] # lock[k])
    <3>1. HasLock(k, StartOf(t)) /\ lock'[k] = NoLock
      BY <2>3 DEF KeyCommit, KeyRollback
    <3>2. u = t
      BY <1>0, <1>3, <3>1 DEF HasLock, Oracle
    <3>3. \E w \in write'[k] : w.startTS = StartOf(t)
      <4>1. lock[k].startTS = StartOf(t)
        BY <3>1 DEF HasLock
      <4>2. PICK w : w.startTS = StartOf(t) /\ write'[k] = PutValue(write[k], w)
        <5>1. /\ RollbackRec(StartOf(t)).startTS = StartOf(t)
              /\ CommitRec(lock[k], CommitAt(t)).startTS = StartOf(t)
          BY <4>1 DEF RollbackRec, CommitRec
        <5> QED  BY <2>3, <5>1 DEF KeyCommit, KeyRollback
      <4> QED  BY <4>2 DEF PutValue
    <3>4. Outcome(u, k)' # {}
      BY <1>0, <3>2, <3>3 DEF Outcome, StartOf
    <3> QED  BY <3>1, <3>4 DEF Held, HasLock
  <2> QED  BY <1>0, <1>3, <2>1, <2>2, <2>3 DEF KeyStep, KeyIdle, KeyDrop
<1> QED  BY <1>2, <1>3 DEF Held

\* The primary decides: commits and tombstones elsewhere follow it.
LEMMA StoreStepDecided ==
    ASSUME PInv, NEW t \in Txn, StoreStep(t), NEW u \in Txn
    PROVE  Decided(u)'
<1> DEFINE p == PrimaryKey[u]
<1>0. Decided(u) /\ txn' = txn /\ p \in Key /\ Keys(u) \subseteq Key
  BY PercolatorAssumption DEF PInv, StoreStep, Keys
<1>1. \A k \in Key :
         /\ Outcome(u, k) \subseteq Outcome(u, k)'
         /\ \A w \in Outcome(u, k)' :
              \/ w \in Outcome(u, k)
              \/ u = t /\ w.type = "Rollback" /\ KeyRollback(t, k)
              \/ u = t /\ w.type # "Rollback" /\ w.commitTS = CommitAt(t) /\ KeyCommit(t, k)
  BY StoreStepRecords
<1>2. /\ \A k \in Key : KeyRollback(t, k) => St(t) = "aborted" \/ RolledBackOn(t, PrimaryKey[t])'
      /\ \A k \in Key : KeyCommit(t, k) => CommittedOn(t, PrimaryKey[t])' # {}
      /\ KeyCommit(t, PrimaryKey[t]) =>
            \A k \in Keys(t) : RegionOf[k] = RegionOf[PrimaryKey[t]] => Outcome(t, k)' # {}
  BY DEF StoreStep
<1>3. \A k \in Key :
        /\ CommittedOn(u, k)' # {} => CommittedOn(u, k) # {} \/ (u = t /\ KeyCommit(t, k))
        /\ CommittedOn(u, k) # {} => CommittedOn(u, k)' # {}
        /\ RolledBackOn(u, k)' => RolledBackOn(u, k) \/ (u = t /\ KeyRollback(t, k))
        /\ RolledBackOn(u, k) => RolledBackOn(u, k)'
        /\ Outcome(u, k) # {} => Outcome(u, k)' # {}
  BY <1>1 DEF CommittedOn, RolledBackOn
<1>4. St(u)' = St(u) /\ CommitAt(u)' = CommitAt(u) /\ Keys(u)' = Keys(u)
  BY <1>0 DEF St, CommitAt, Keys
<1>5. \A k \in Key : CommittedOn(u, k)' # {} => CommittedOn(u, p)' # {}
  BY <1>0, <1>2, <1>3 DEF Decided
<1>6. CommittedOn(u, p)' # {} =>
         \A k \in Keys(u) : RegionOf[k] = RegionOf[p] => Outcome(u, k)' # {}
  BY <1>0, <1>2, <1>3 DEF Decided
<1>7. \A k \in Key : RolledBackOn(u, k)' => St(u) = "aborted" \/ RolledBackOn(u, p)'
  BY <1>0, <1>2, <1>3 DEF Decided
<1>8. St(u) = "aborted" => RolledBackOn(u, p)' \/ CommitAt(u) = 0
  BY <1>0, <1>3 DEF Decided
<1>9. St(u) = "committed" => CommittedOn(u, p)' # {}
  BY <1>0, <1>3 DEF Decided
<1> QED  BY <1>4, <1>5, <1>6, <1>7, <1>8, <1>9 DEF Decided

\* What an answer told the client stays true.
LEMMA StoreStepResp ==
    ASSUME PInv, NEW t \in Txn, StoreStep(t), NEW a, RespOK(a)
    PROVE  RespOK(a)'
<1> DEFINE u == a.txn
           p == PrimaryKey[u]
<1>0. u \in Txn /\ StartOf(u) # 0 /\ p \in Key /\ txn' = txn /\ St(u)' = St(u)
      /\ StartOf(u)' = StartOf(u)
  BY PercolatorAssumption DEF RespOK, StoreStep, StartOf, St
<1>1. \A k \in Key : Held(u, k) =>
         /\ Held(u, k)'
         /\ HasLock(k, StartOf(u))' =>
              HasLock(k, StartOf(u)) /\ lock'[k].minCommitTS >= lock[k].minCommitTS
  BY <1>0, StoreStepHeld
<1>2. /\ Outcome(u, p) \subseteq Outcome(u, p)'
      /\ \A w \in Outcome(u, p)' :
           \/ w \in Outcome(u, p)
           \/ u = t /\ w.type = "Rollback" /\ KeyRollback(t, p)
           \/ u = t /\ w.type # "Rollback" /\ w.commitTS = CommitAt(t) /\ KeyCommit(t, p)
  BY <1>0, StoreStepRecords
<1>3. a.type = "prewrite" => \A k \in a.keys : k \in Key /\ Held(u, k)'
  BY <1>1 DEF RespOK
<1>4. a.type = "commit" => CommittedOn(u, p)' # {}
  BY <1>2 DEF RespOK, CommittedOn
<1>5. a.type = "txnNotFound" => St(u) = "aborted" \/ RolledBackOn(u, p)'
  BY <1>2 DEF RespOK, RolledBackOn
<1>6. ASSUME a.type = "commitTSExpired"
      PROVE  /\ a.ts \in Nat /\ Held(u, p)'
             /\ HasLock(p, StartOf(u))' => lock'[p].minCommitTS > a.ts
             /\ \A w \in CommittedOn(u, p)' : w.commitTS # a.ts
  <2>1. /\ Held(u, p)
        /\ HasLock(p, StartOf(u)) => lock[p].minCommitTS > a.ts
        /\ \A w \in CommittedOn(u, p) : w.commitTS # a.ts
        /\ a.ts \in Nat
    BY <1>6 DEF RespOK
  <2>2. HasLock(p, StartOf(u))' => lock'[p].minCommitTS > a.ts
    <3> SUFFICES ASSUME HasLock(p, StartOf(u))'
                 PROVE  lock'[p].minCommitTS > a.ts
      OBVIOUS
    <3>1. HasLock(p, StartOf(u)) /\ lock'[p].minCommitTS >= lock[p].minCommitTS
      BY <1>0, <1>1, <2>1
    <3>2. lock[p].minCommitTS \in Nat /\ lock'[p].minCommitTS \in Nat
      <4>1. lock'[p] \in LockRec \cup {NoLock}
        BY <1>0, KeyStepKeeps DEF PInv, StoreStep
      <4>2. lock[p] \in LockRec \cup {NoLock}
        BY <1>0 DEF PInv, Typed, StoreTypeOK
      <4> QED  BY <3>1, <4>1, <4>2 DEF HasLock, LockRec
    <3> QED  BY <2>1, <3>1, <3>2
  <2>3. ASSUME NEW w \in CommittedOn(u, p)'
        PROVE  w.commitTS # a.ts
    <3>1. w \in Outcome(u, p)' /\ w.type # "Rollback"
      BY DEF CommittedOn
    <3>2. CASE w \in Outcome(u, p)
      BY <2>1, <3>1, <3>2 DEF CommittedOn
    <3>3. CASE u = t /\ w.commitTS = CommitAt(t) /\ KeyCommit(t, p)
      <4>1. HasLock(p, StartOf(u)) /\ lock[p].minCommitTS <= CommitAt(t)
        BY <3>3 DEF KeyCommit
      <4>2. lock[p].minCommitTS > a.ts
        BY <2>1, <4>1
      <4>3. lock[p].minCommitTS \in Nat /\ CommitAt(t) \in Nat
        BY <1>0, <4>1, TxnTypes DEF PInv, Typed, StoreTypeOK, LockRec, HasLock
      <4> QED  BY <2>1, <3>3, <4>1, <4>2, <4>3
    <3> QED  BY <1>2, <3>1, <3>2, <3>3
  <2> QED  BY <1>0, <1>1, <2>1, <2>2, <2>3
<1> QED  BY <1>0, <1>3, <1>4, <1>5, <1>6 DEF RespOK

\* What a resolver learnt stays true.
LEMMA StoreStepKnown ==
    ASSUME PInv, NEW t \in Txn, StoreStep(t), NEW o, KnownOK(o)
    PROVE  KnownOK(o)'
<1>1. PICK u \in Txn :
        /\ o[1] = StartOf(u) /\ StartOf(u) # 0
        /\ IF o[2] = 0 THEN RolledBackOn(u, PrimaryKey[u])
           ELSE o[2] = CommitAt(u) /\ CommittedOn(u, PrimaryKey[u]) # {}
  BY DEF KnownOK
<1>2. Outcome(u, PrimaryKey[u]) \subseteq Outcome(u, PrimaryKey[u])'
  BY PercolatorAssumption, StoreStepRecords
<1>3. StartOf(u)' = StartOf(u) /\ CommitAt(u)' = CommitAt(u)
  BY DEF StoreStep, StartOf, CommitAt
<1>4. /\ RolledBackOn(u, PrimaryKey[u]) => RolledBackOn(u, PrimaryKey[u])'
      /\ CommittedOn(u, PrimaryKey[u]) # {} => CommittedOn(u, PrimaryKey[u])' # {}
  BY <1>2 DEF RolledBackOn, CommittedOn
<1> QED  BY <1>1, <1>3, <1>4 DEF KnownOK

\* A step of the store keeps the invariant if the new answers are true.
LEMMA StoreStepInv ==
    ASSUME PInv, NEW t \in Txn, StoreStep(t), ReadersTyped',
           resps \subseteq resps', \A a \in resps' \ resps : RespOK(a)',
           \A o \in known' \ known : KnownOK(o)'
    PROVE  PInv'
<1>0. /\ Typed /\ Oracle /\ \A k \in Key : KeyInv(k)
      /\ StartOf(t) # 0 /\ \A k \in Key : KeyStep(t, k)
      /\ now' = now /\ txn' = txn /\ msgs' = msgs
      /\ \A m \in msgs : MsgOK(m)
      /\ \A a \in resps : RespOK(a)
      /\ \A o \in known : KnownOK(o)
  BY DEF PInv, StoreStep
<1>1. \A k \in Key : KeyInv(k)' /\ lock'[k] \in LockRec \cup {NoLock} /\ write'[k] \subseteq WriteRec
  BY <1>0, KeyStepKeeps, KeyStepRecords
<1>2. Typed'
  BY <1>0, <1>1 DEF Typed, StoreTypeOK, StoreStep
<1>3. Oracle'
  BY <1>0 DEF Oracle, StartOf, ForUpdateOf, CommitAt, St
<1>4. \A u \in Txn : Decided(u)'
  BY StoreStepDecided
<1>5. ASSUME NEW m \in msgs
      PROVE  MsgOK(m)'
  <2>1. MsgOK(m)
    BY <1>0
  <2> QED  BY <1>0, <2>1 DEF MsgOK, StartOf, ForUpdateOf, CommitAt, St
<1>6. \A a \in resps' : RespOK(a)'
  BY <1>0, StoreStepResp
<1>7. \A o \in known' : KnownOK(o)'
  BY <1>0, StoreStepKnown
<1>8. CommitPrewritten'
  BY <1>0 DEF PInv, CommitPrewritten, CommitAt, Prewritten
<1> QED  BY <1>0, <1>1, <1>2, <1>3, <1>4, <1>5, <1>6, <1>7, <1>8 DEF PInv

-----------------------------------------------------------------------------
(* The operations of the store are such steps. *)

\* A step that leaves the records alone commits and rolls back nothing.
LEMMA NoRecordStep ==
    ASSUME PInv, NEW t \in Txn, StartOf(t) # 0, NEW k \in Key, write'[k] = write[k]
    PROVE  ~KeyRollback(t, k) /\ ~KeyCommit(t, k)
<1>0. KeyInv(k)
  BY DEF PInv
<1>1. ASSUME NEW w, w.startTS = StartOf(t), Outcome(t, k) = {}
      PROVE  write[k] # PutValue(write[k], w)
  BY <1>1 DEF PutValue, Outcome, StartOf
<1>2. ~KeyRollback(t, k)
  <2>1. RollbackRec(StartOf(t)).startTS = StartOf(t)
    BY DEF RollbackRec
  <2> QED  BY <1>1, <2>1 DEF KeyRollback
<1>3. ASSUME KeyCommit(t, k)
      PROVE  FALSE
  <2>1. HasLock(k, StartOf(t)) /\ write'[k] = PutValue(write[k], CommitRec(lock[k], CommitAt(t)))
    BY <1>3 DEF KeyCommit
  <2>2. CommitRec(lock[k], CommitAt(t)).startTS = StartOf(t)
    BY <2>1 DEF CommitRec, HasLock
  <2> QED  BY <1>0, <1>1, <2>1, <2>2, LockedUnsettled
<1> QED  BY <1>2, <1>3

\* A step that changes locks only.
LEMMA LockOnlyStep ==
    ASSUME PInv, NEW t \in Txn, StartOf(t) # 0, write' = write,
           lock' = [k \in Key |-> lock'[k]],
           \A k \in Key : KeyIdle(k) \/ KeyDrop(t, k) \/ KeyLock(t, k),
           waitFor' \subseteq TS \X TS, UNCHANGED <<now, txn, msgs>>
    PROVE  StoreStep(t)
<1>1. \A k \in Key : ~KeyRollback(t, k) /\ ~KeyCommit(t, k)
  BY NoRecordStep
<1>2. write' = [k \in Key |-> write'[k]] /\ PrimaryKey[t] \in Key
  BY PercolatorAssumption DEF PInv, Typed, StoreTypeOK
<1> QED  BY <1>1, <1>2 DEF StoreStep, KeyStep

\* A transaction that meets no conflict at f has no record on the key, and every
\* record there is at most as new as f.
LEMMA NoConflict ==
    ASSUME PInv, NEW t \in Txn, StartOf(t) # 0, NEW k \in Key, NEW f \in Nat,
           CommitAt(t) # 0 => f < CommitAt(t),
           CheckConflictValue(k, f, StartOf(t), FALSE) = "ok"
    PROVE  Outcome(t, k) = {} /\ \A w \in write[k] : w.commitTS <= f
<1>0. Typed /\ Oracle /\ KeyInv(k)
  BY DEF PInv
<1>1. ASSUME NEW w \in write[k]
      PROVE  w.commitTS <= f /\ w.commitTS \in Nat
  <2>1. w.commitTS \in Nat
    BY <1>0, MaxTSAssumption DEF Typed, StoreTypeOK, WriteRec, TS
  <2>2. ~(w.commitTS > f)
    BY DEF CheckConflictValue
  <2> QED  BY <2>1, <2>2
<1>2. ASSUME NEW w \in write[k], w.startTS = StartOf(t)
      PROVE  FALSE
  <2>1. PICK u \in Txn : /\ StartOf(u) = StartOf(t)
                         /\ IF w.type = "Rollback" THEN w.commitTS = StartOf(u)
                            ELSE w.commitTS = CommitAt(u) /\ CommitAt(u) # 0
    <3>1. w # InitialRec \/ k \notin Loaded
      <4>1. k \in Loaded => StartOf(t) > 2
        BY <1>0 DEF Oracle
      <4> QED  BY <1>2, <4>1 DEF InitialRec
    <3> QED  BY <1>0, <1>2, <3>1 DEF KeyInv, RecShape
  <2>2. u = t
    BY <1>0, <2>1 DEF Oracle
  <2>3. CASE w.type = "Rollback"
    <3>1. RollbackFound(k, StartOf(t))
      BY <2>1, <2>3 DEF RollbackFound
    <3> QED  BY <3>1 DEF CheckConflictValue
  <2>4. CASE w.type # "Rollback"
    <3>1. w.commitTS = CommitAt(t) /\ f < CommitAt(t)
      BY <2>1, <2>2, <2>4
    <3> QED  BY <1>1, <3>1
  <2> QED  BY <2>3, <2>4
<1> QED  BY <1>1, <1>2 DEF Outcome, StartOf

\* The minCommitTS of a request is a number.
LEMMA MinCommitNat ==
    ASSUME NEW t, NEW ts \in Nat
    PROVE  MinCommitTSFor(t, ts) \in Nat
BY DEF MinCommitTSFor

\* A prewrite locks keys its transaction left no record on, and holds all its
\* keys when it succeeds.
LEMMA PrewriteStep ==
    ASSUME PInv, NEW m \in msgs, m.type = "prewrite",
           Prewrite(PrewriteRequest(m.txn, m.keys)), UNCHANGED <<now, txn, msgs>>
    PROVE  /\ StoreStep(m.txn)
           /\ PrewriteOK(PrewriteRequest(m.txn, m.keys)) => \A k \in m.keys : k \in Key /\ Held(m.txn, k)'
<1> DEFINE t == m.txn
           q == PrewriteRequest(t, m.keys)
           Locks(k) == /\ k \in DOMAIN q.mutations
                       /\ q.mutations[k] # "CheckNotExists"
                       /\ HasLock(k, q.startTS) => lock[k].op = "PessimisticLock"
<1>0. /\ Typed /\ Oracle /\ MsgOK(m) /\ m \in Msg /\ \A k \in Key : KeyInv(k)
  BY DEF PInv, Typed
<1>1. /\ t \in Txn /\ StartOf(t) # 0 /\ m.keys \subseteq Keys(t) /\ m.keys \subseteq Key
      /\ PrimaryKey[t] \in Key
      /\ \A k \in m.keys : Mutations[t][k] \in {"Put", "Del", "Lock", "Insert"}
  BY <1>0, PercolatorAssumption DEF MsgOK, Msg, Keys
<1>2. /\ StartOf(t) \in TS /\ StartOf(t) \in Nat /\ ForUpdateOf(t) \in Nat
  BY <1>0, <1>1, TxnTypes, MaxTSAssumption DEF TS
<1>3. /\ DOMAIN q.mutations = m.keys /\ \A k \in m.keys : q.mutations[k] = Mutations[t][k]
      /\ q.startTS = StartOf(t) /\ q.primary = PrimaryKey[t] /\ q.ttl = TTL
      /\ q.minCommitTS \in Nat /\ q.pessimistic = IF t \in Pessimistic THEN m.keys ELSE {}
  <2>1. Max2(StartOf(t), ForUpdateOf(t)) \in Nat
    BY <1>2 DEF Max2
  <2>2. MinCommitTSFor(t, Max2(StartOf(t), ForUpdateOf(t))) \in Nat
    BY <2>1, MinCommitNat
  <2> QED  BY <2>2 DEF PrewriteRequest, StartOf, ForUpdateOf
<1> HIDE DEF q
<1>4. /\ Prewrite(q)
      /\ write' = write /\ waitFor' = waitFor
      /\ lock' = IF PrewriteOK(q)
                 THEN [k \in Key |-> IF Locks(k) THEN PrewriteLock(k, q) ELSE lock[k]] ELSE lock
  BY DEF Prewrite, q
<1>5. ASSUME PrewriteOK(q), NEW k \in m.keys
      PROVE  PrewriteMutationError(k, q) = "ok"
  BY <1>1, <1>3, <1>5 DEF PrewriteOK, PrewriteError
<1>6. ASSUME PrewriteOK(q), NEW k \in Key, Locks(k)
      PROVE  KeyLock(t, k) /\ lock'[k].op # "PessimisticLock"
  <2>0. k \in m.keys /\ lock'[k] = PrewriteLock(k, q) /\ write'[k] = write[k]
    BY <1>3, <1>4, <1>6
  <2>1. PrewriteMutationError(k, q) = "ok"
    BY <1>5, <1>6, <2>0
  <2>2. ~OtherLock(k, StartOf(t))
    BY <1>3, <2>1 DEF PrewriteMutationError
  <2>3. Outcome(t, k) = {} /\ (HasLock(k, StartOf(t)) \/ \A w \in write[k] : w.commitTS <= Seen(t))
    <3>1. CASE HasLock(k, StartOf(t))
      BY <1>0, <1>1, <3>1, LockedUnsettled
    <3>2. CASE ~HasLock(k, StartOf(t))
      <4>1. k \notin q.pessimistic /\ CheckConflictValue(k, StartOf(t), StartOf(t), FALSE) = "ok"
        BY <1>3, <2>1, <2>2, <3>2 DEF PrewriteMutationError
      <4>2. t \notin Pessimistic
        BY <1>3, <2>0, <4>1
      <4>3. CommitAt(t) # 0 => StartOf(t) < CommitAt(t)
        BY <1>0, <1>1 DEF Oracle
      <4> QED  BY <1>1, <1>2, <4>1, <4>2, <4>3, NoConflict DEF Seen
    <3> QED  BY <3>1, <3>2
  <2>4. /\ lock'[k] \in LockRec
        /\ lock'[k].startTS = StartOf(t) /\ lock'[k].primary = PrimaryKey[t]
        /\ lock'[k].op # "PessimisticLock"
        /\ k # PrimaryKey[t] => lock'[k].minCommitTS = 0
    <3>1. HasLock(k, q.startTS) => lock[k].ttl \in Nat /\ lock[k].minCommitTS \in Nat
      BY <1>0 DEF HasLock, Typed, StoreTypeOK, LockRec
    <3>2. q.mutations[k] \in {"Put", "Del", "Lock", "Insert"} /\ TTL \in Nat
      BY <1>1, <1>3, <2>0, PercolatorAssumption
    <3> QED
      BY <1>1, <1>2, <1>3, <2>0, <3>1, <3>2 DEF PrewriteLock, LockRec, OpType, Max2
  <2>5. AskedFor(t, k)
    BY <2>0 DEF AskedFor
  <2> QED  BY <1>3, <1>6, <2>0, <2>2, <2>3, <2>4, <2>5 DEF KeyLock
<1>7. \A k \in Key : KeyIdle(k) \/ KeyLock(t, k)
  BY <1>4, <1>6 DEF KeyIdle
<1>8. lock' = [k \in Key |-> lock'[k]] /\ waitFor' \subseteq TS \X TS
  BY <1>0, <1>4 DEF Typed, StoreTypeOK
<1>9. StoreStep(t)
  BY <1>1, <1>4, <1>7, <1>8, LockOnlyStep
<1>10. ASSUME PrewriteOK(q), NEW k \in m.keys
       PROVE  k \in Key /\ Held(t, k)'
  <2>0. k \in Key /\ StartOf(t)' = StartOf(t)
    BY <1>1 DEF StartOf
  <2>1. CASE Locks(k)
    <3>1. KeyLock(t, k) /\ lock'[k].op # "PessimisticLock"
      BY <1>6, <1>10, <2>0, <2>1
    <3> QED  BY <2>0, <3>1, NoLockAssumption DEF KeyLock, Held, HasLock
  <2>2. CASE ~Locks(k)
    <3>1. HasLock(k, StartOf(t)) /\ lock[k].op # "PessimisticLock"
      BY <1>1, <1>3, <2>2
    <3>2. lock'[k] = lock[k]
      BY <1>4, <2>0, <2>2
    <3> QED  BY <2>0, <3>1, <3>2 DEF Held, HasLock
  <2> QED  BY <2>1, <2>2
<1> QED  BY <1>9, <1>10 DEF q

\* A pessimistic lock request locks keys its transaction left no record on.
LEMMA PessimisticLockStep ==
    ASSUME PInv, NEW m \in msgs, m.type = "pessimisticLock",
           PessimisticLock(PessimisticLockRequest(m.txn, m.keys, m.ts)),
           UNCHANGED <<now, txn, msgs>>
    PROVE  StoreStep(m.txn)
<1> DEFINE t == m.txn
           q == PessimisticLockRequest(t, m.keys, m.ts)
           new == [startTS |-> q.startTS, primary |-> q.primary,
                   op |-> "PessimisticLock", ttl |-> q.ttl,
                   forUpdateTS |-> q.forUpdateTS, minCommitTS |-> q.minCommitTS]
<1>0. /\ Typed /\ Oracle /\ MsgOK(m) /\ m \in Msg /\ \A k \in Key : KeyInv(k)
  BY DEF PInv, Typed
<1>1. /\ t \in Txn /\ StartOf(t) # 0 /\ m.keys \subseteq Key /\ m.ts \in Nat
      /\ t \in Pessimistic /\ m.ts <= ForUpdateOf(t) /\ PrimaryKey[t] \in Key /\ TTL \in Nat
  BY <1>0, PercolatorAssumption, MaxTSAssumption DEF MsgOK, Msg
<1>2. StartOf(t) \in TS /\ ForUpdateOf(t) \in Nat /\ CommitAt(t) \in Nat
  BY <1>0, <1>1, TxnTypes, MaxTSAssumption DEF TS
<1>3. /\ q.keys = m.keys /\ q.startTS = StartOf(t) /\ q.primary = PrimaryKey[t] /\ q.ttl = TTL
      /\ q.forUpdateTS = m.ts /\ q.minCommitTS \in Nat /\ q.notExist = FALSE
  BY <1>1, MinCommitNat DEF PessimisticLockRequest, StartOf
<1> HIDE DEF q
<1>4. PessimisticLock(q)
  BY DEF q
<1>5. /\ new \in LockRec /\ new.startTS = StartOf(t) /\ new.primary = PrimaryKey[t]
      /\ new.op = "PessimisticLock"
  BY <1>1, <1>2, <1>3 DEF LockRec, OpType
<1>6. /\ write' = write
      /\ lock' = IF PessimisticLockOK(q)
                 THEN [k \in Key |-> IF k \in q.keys /\ lock[k] = NoLock THEN new ELSE lock[k]]
                 ELSE lock
  BY <1>4 DEF PessimisticLock
<1> HIDE DEF new
<1>7. ASSUME NEW k \in Key
      PROVE  KeyIdle(k) \/ KeyLock(t, k)
  <2>1. CASE PessimisticLockOK(q) /\ k \in q.keys /\ lock[k] = NoLock
    <3>1. lock'[k] = new /\ write'[k] = write[k]
      BY <1>6, <2>1
    <3>2. CheckConflictValue(k, m.ts, StartOf(t), FALSE) = "ok"
      BY <1>3, <2>1 DEF PessimisticLockOK, PessimisticLockError, OtherLock, HasLock
    <3>3. CommitAt(t) # 0 => m.ts < CommitAt(t)
      BY <1>0, <1>1, <1>2 DEF Oracle
    <3>4. Outcome(t, k) = {} /\ \A w \in write[k] : w.commitTS <= m.ts
      BY <1>1, <3>2, <3>3, NoConflict
    <3>5. \A w \in write[k] : w.commitTS <= Seen(t)
      <4>1. \A w \in write[k] : w.commitTS \in Nat
        BY <1>0, MaxTSAssumption DEF Typed, StoreTypeOK, WriteRec, TS
      <4> QED  BY <1>1, <1>2, <3>4, <4>1 DEF Seen
    <3>6. AskedFor(t, k)
      BY <1>3, <2>1 DEF AskedFor
    <3> QED  BY <1>5, <2>1, <3>1, <3>4, <3>5, <3>6 DEF KeyLock, OtherLock, HasLock
  <2>2. CASE ~(PessimisticLockOK(q) /\ k \in q.keys /\ lock[k] = NoLock)
    BY <1>6, <2>2 DEF KeyIdle
  <2> QED  BY <2>1, <2>2
<1>8. waitFor' \subseteq TS \X TS
  <2>1. PICK w \in NewWaits(q) : waitFor' = waitFor \cup w
    BY <1>4 DEF PessimisticLock
  <2>2. ASSUME NEW k \in q.keys, PessimisticLockError(k, q) = "Locked"
        PROVE  <<q.startTS, lock[k].startTS>> \in TS \X TS
    <3>1. lock[k] # NoLock
      <4>1. CASE OtherLock(k, q.startTS)
        BY <4>1 DEF OtherLock
      <4>2. CASE ~OtherLock(k, q.startTS)
        BY <2>2, <4>2 DEF PessimisticLockError, CheckConflictValue
      <4> QED  BY <4>1, <4>2
    <3>2. lock[k].startTS \in TS
      BY <1>0, <1>1, <1>3, <3>1 DEF Typed, StoreTypeOK, LockRec
    <3> QED  BY <1>2, <1>3, <3>2
  <2>3. w \subseteq TS \X TS
    BY <2>1, <2>2 DEF NewWaits
  <2> QED  BY <1>0, <2>1, <2>3 DEF Typed, StoreTypeOK
<1>9. lock' = [k \in Key |-> lock'[k]]
  BY <1>0, <1>6 DEF Typed, StoreTypeOK
<1> QED  BY <1>1, <1>6, <1>7, <1>8, <1>9, LockOnlyStep

\* PessimisticRollback gives up pessimistic locks and leaves prewritten keys alone.
LEMMA PessimisticRollbackStep ==
    ASSUME PInv, NEW t \in Txn, StartOf(t) # 0, NEW K, NEW f,
           PessimisticRollback(K, StartOf(t), f), UNCHANGED <<now, txn, msgs>>
    PROVE  StoreStep(t)
<1>1. \A k \in Key : KeyIdle(k) \/ KeyDrop(t, k)
  BY DEF PessimisticRollback, KeyIdle, KeyDrop
<1>2. /\ write' = write /\ lock' = [k \in Key |-> lock'[k]] /\ waitFor' \subseteq TS \X TS
  BY DEF PessimisticRollback, PInv, Typed, StoreTypeOK
<1> QED  BY <1>1, <1>2, LockOnlyStep

\* TxnHeartBeat changes nothing but the TTL of the primary's lock.
LEMMA HeartBeatStep ==
    ASSUME PInv, NEW t \in Txn, StartOf(t) # 0, NEW ttl \in Int,
           TxnHeartBeat(PrimaryKey[t], StartOf(t), ttl), UNCHANGED <<now, txn, msgs>>
    PROVE  StoreStep(t)
<1> DEFINE p == PrimaryKey[t]
<1>0. Typed /\ p \in Key /\ KeyInv(p) /\ Oracle
  BY PercolatorAssumption DEF PInv
<1>1. /\ write' = write /\ waitFor' = waitFor
      /\ lock' = IF HeartBeatOK(p, StartOf(t))
                 THEN [lock EXCEPT ![p].ttl = Max2(@, ttl)] ELSE lock
  BY DEF TxnHeartBeat
<1>2. ASSUME HeartBeatOK(p, StartOf(t))
      PROVE  KeyLock(t, p)
  <2>1. HasLock(p, StartOf(t)) /\ lock[p] \in LockRec /\ lock[p].startTS = StartOf(t)
        /\ lock[p].primary = p
    BY <1>0, <1>2 DEF HeartBeatOK, HasLock, Typed, StoreTypeOK
  <2>2. lock'[p] = [lock[p] EXCEPT !.ttl = Max2(@, ttl)]
    BY <1>0, <1>1, <1>2 DEF Typed, StoreTypeOK
  <2>3. Max2(lock[p].ttl, ttl) \in Nat
    BY <2>1 DEF LockRec, Max2
  <2>4. /\ lock'[p] \in LockRec /\ lock'[p].startTS = lock[p].startTS
        /\ lock'[p].primary = lock[p].primary /\ lock'[p].op = lock[p].op
        /\ lock'[p].minCommitTS = lock[p].minCommitTS
    BY <2>1, <2>2, <2>3 DEF LockRec
  <2>5. lock'[p].minCommitTS >= lock[p].minCommitTS
    BY <2>1, <2>4 DEF LockRec
  <2>6. Outcome(t, p) = {} /\ ~OtherLock(p, StartOf(t))
    BY <1>0, <2>1, LockedUnsettled DEF OtherLock
  <2> QED  BY <1>1, <2>1, <2>4, <2>5, <2>6 DEF KeyLock
<1>3. ASSUME NEW k \in Key
      PROVE  KeyIdle(k) \/ KeyLock(t, k)
  BY <1>0, <1>1, <1>2 DEF KeyIdle, Typed, StoreTypeOK
<1>4. lock' = [k \in Key |-> lock'[k]] /\ waitFor' \subseteq TS \X TS
  BY <1>0, <1>1 DEF Typed, StoreTypeOK
<1> QED  BY <1>1, <1>3, <1>4, LockOnlyStep

\* getTxnCommitInfo finds the record of the transaction, if there is one.
LEMMA CommitInfo ==
    ASSUME PInv, NEW t \in Txn, StartOf(t) # 0, NEW k \in Key
    PROVE  /\ TxnCommitInfo(k, StartOf(t)) = Outcome(t, k)
           /\ Committed(k, StartOf(t)) <=> CommittedOn(t, k) # {}
<1>1. /\ \A w, x \in write[k] : w.startTS = x.startTS => w = x
      /\ \A w \in write[k] : w.commitTS \in Nat
  BY MaxTSAssumption DEF PInv, KeyInv, Typed, StoreTypeOK, WriteRec, TS
<1>2. TxnCommitInfo(k, StartOf(t)) = Outcome(t, k)
  BY <1>1 DEF TxnCommitInfo, Outcome, StartOf
<1> QED  BY <1>2 DEF Committed, CommittedOn

\* Commit and tombstone exclude each other.
LEMMA OneRecord ==
    ASSUME PInv, NEW t \in Txn, StartOf(t) # 0, NEW k \in Key, KeyCommit(t, k)
    PROVE  ~KeyRollback(t, k)
<1> DEFINE w == CommitRec(lock[k], CommitAt(t))
           x == RollbackRec(StartOf(t))
<1>1. w.type # "Rollback" /\ x.type = "Rollback" /\ x.startTS = StartOf(t)
  BY DEF CommitRec, RollbackRec
<1> HIDE DEF w, x
<1>2. Outcome(t, k) = {} /\ write'[k] = PutValue(write[k], w)
  BY LockedUnsettled DEF KeyCommit, PInv, w
<1>3. x \notin write'[k]
  BY <1>1, <1>2 DEF PutValue, Outcome, StartOf
<1> QED  BY <1>3 DEF KeyRollback, PutValue, x

\* A region's answer to a commit request: every key is prewritten.
LEMMA CommitKeysHeld ==
    ASSUME PInv, NEW m \in msgs, m.type = "commit", NEW k \in m.keys
    PROVE  m.txn \in Txn /\ StartOf(m.txn) # 0 /\ k \in Key /\ k \in Keys(m.txn) /\ Held(m.txn, k)
<1> DEFINE t == m.txn
<1>1. t \in Txn /\ MsgOK(m)
  BY DEF PInv, Typed, Msg
<1>2. PICK g \in Regions(Keys(t)) : m.keys = Keys(t) \cap In(g)
  BY <1>1 DEF MsgOK
<1> DEFINE a == [type |-> "prewrite", txn |-> t, keys |-> Keys(t) \cap In(g), ts |-> 0]
<1>3. a \in resps
  BY <1>1 DEF MsgOK, PInv, CommitPrewritten, Prewritten
<1>4. RespOK(a)
  BY <1>3 DEF PInv
<1>5. a.type = "prewrite" /\ a.txn = t /\ a.keys = m.keys
  BY <1>2
<1> HIDE DEF a
<1>6. k \in Key /\ Held(t, k) /\ StartOf(t) # 0
  BY <1>4, <1>5 DEF RespOK
<1> QED  BY <1>1, <1>2, <1>6

\* A commit request finds the primary locked and not pushed above its timestamp,
\* or committed; a request that commits anything carries the last timestamp.
LEMMA CommitDecides ==
    ASSUME PInv, NEW m \in msgs, m.type = "commit",
           CommitOK(m.keys, StartOf(m.txn), m.ts)
    PROVE  /\ \/ /\ PrimaryKey[m.txn] \in m.keys /\ HasLock(PrimaryKey[m.txn], StartOf(m.txn))
                 /\ lock[PrimaryKey[m.txn]].minCommitTS <= m.ts
              \/ CommittedOn(m.txn, PrimaryKey[m.txn]) # {}
           /\ \A k \in m.keys : HasLock(k, StartOf(m.txn)) => m.ts = CommitAt(m.txn)
<1> DEFINE t == m.txn
           p == PrimaryKey[t]
<1>0. /\ t \in Txn /\ MsgOK(m) /\ Typed /\ p \in Key /\ m.ts \in Nat /\ StartOf(t) # 0
      /\ Decided(t) /\ Keys(t) \subseteq Key
  BY PercolatorAssumption, MaxTSAssumption DEF PInv, Typed, Msg, MsgOK, Keys
<1>1. CASE p \notin m.keys
  BY <1>0, <1>1 DEF MsgOK, Decided
<1>2. CASE p \in m.keys /\ HasLock(p, StartOf(t))
  <2>1. ~(lock[p].minCommitTS > m.ts)
    BY <1>2 DEF CommitOK, CommitError
  <2>2. lock[p].minCommitTS \in Nat
    BY <1>0, <1>2 DEF HasLock, Typed, StoreTypeOK, LockRec
  <2>3. m.ts = CommitAt(t)
    <3> DEFINE a == [type |-> "commitTSExpired", txn |-> t, ts |-> m.ts]
    <3>1. ASSUME a \in resps
          PROVE  FALSE
      <4>1. RespOK(a) /\ a.type = "commitTSExpired" /\ a.txn = t /\ a.ts = m.ts
        BY <3>1 DEF PInv
      <4> HIDE DEF a
      <4> QED  BY <1>2, <2>1, <4>1 DEF RespOK
    <3> QED  BY <1>0, <3>1 DEF MsgOK
  <2> QED  BY <1>2, <2>1, <2>2, <2>3, <1>0
<1>3. CASE p \in m.keys /\ ~HasLock(p, StartOf(t))
  <2>1. CommittedOn(t, p) # {}
    BY <1>0, <1>3, CommitInfo DEF CommitOK, CommitError
  <2>2. \A k \in m.keys : k \in Keys(t) /\ k \in Key /\ RegionOf[k] = RegionOf[p]
    BY <1>0, <1>3 DEF MsgOK, In
  <2>3. \A k \in m.keys : Outcome(t, k) # {}
    BY <1>0, <2>1, <2>2 DEF Decided
  <2>4. \A k \in m.keys : ~HasLock(k, StartOf(t))
    BY <1>0, <2>2, <2>3, LockedUnsettled DEF PInv
  <2> QED  BY <2>1, <2>4
<1> QED  BY <1>1, <1>2, <1>3

\* Commit turns all locks of the request's keys into records of one timestamp.
LEMMA CommitStep ==
    ASSUME PInv, NEW m \in msgs, m.type = "commit", Commit(m.keys, StartOf(m.txn), m.ts),
           UNCHANGED <<now, txn, msgs>>
    PROVE  /\ StoreStep(m.txn)
           /\ CommitOK(m.keys, StartOf(m.txn), m.ts) => CommittedOn(m.txn, PrimaryKey[m.txn])' # {}
<1> DEFINE t == m.txn
           s == StartOf(t)
           p == PrimaryKey[t]
<1>0. /\ t \in Txn /\ MsgOK(m) /\ Typed /\ Oracle /\ p \in Key /\ m.ts \in Nat /\ s # 0
      /\ m.keys \subseteq Key /\ CommitAt(t) # 0 /\ StartOf(t)' = s /\ Keys(t) \subseteq Key
  BY PercolatorAssumption, MaxTSAssumption DEF PInv, Typed, Msg, MsgOK, StartOf, Keys
<1>1. waitFor' \subseteq TS \X TS
  BY <1>0 DEF Commit, CleanUp, Typed, StoreTypeOK
<1>2. CASE ~CommitOK(m.keys, s, m.ts)
  <2>1. lock' = lock /\ write' = write
    BY <1>2 DEF Commit
  <2>2. lock' = [k \in Key |-> lock'[k]] /\ \A k \in Key : KeyIdle(k)
    BY <1>0, <2>1 DEF KeyIdle, Typed, StoreTypeOK
  <2> QED  BY <1>0, <1>1, <1>2, <2>1, <2>2, LockOnlyStep
<1>3. CASE CommitOK(m.keys, s, m.ts)
  <2>1. CommitLocks(m.keys, s, m.ts)
    BY <1>3 DEF Commit
  <2>2. /\ \/ p \in m.keys /\ HasLock(p, s) /\ lock[p].minCommitTS <= m.ts
           \/ CommittedOn(t, p) # {}
        /\ \A k \in m.keys : HasLock(k, s) => m.ts = CommitAt(t)
    BY <1>3, CommitDecides
  <2>3. ASSUME NEW k \in Key, k \in m.keys, HasLock(k, s)
        PROVE  /\ KeyCommit(t, k) /\ Outcome(t, k)' # {} /\ CommittedOn(t, k)' # {}
    <3>1. /\ lock'[k] = NoLock
          /\ write'[k] = PutValue(write[k], CommitRec(lock[k], CommitAt(t)))
      BY <2>1, <2>2, <2>3 DEF CommitLocks
    <3>2. k = p => lock[k].minCommitTS <= CommitAt(t)
      <4>1. CommittedOn(t, p) # {} => Outcome(t, p) # {}
        BY DEF CommittedOn
      <4>2. k = p => Outcome(t, p) = {}
        BY <1>0, <2>3, LockedUnsettled DEF PInv
      <4> QED  BY <2>2, <2>3, <4>1, <4>2
    <3>3. KeyCommit(t, k)
      BY <1>0, <2>3, <3>1, <3>2 DEF KeyCommit
    <3> DEFINE w == CommitRec(lock[k], CommitAt(t))
    <3>4. w.startTS = s /\ w.type # "Rollback"
      BY <2>3 DEF CommitRec, HasLock
    <3> HIDE DEF w
    <3>5. w \in write'[k]
      BY <3>1 DEF PutValue, w
    <3>6. w \in Outcome(t, k)'
      BY <1>0, <3>4, <3>5 DEF Outcome, StartOf
    <3> QED  BY <3>3, <3>4, <3>6 DEF CommittedOn
  <2>4. ASSUME NEW k \in Key, ~(k \in m.keys /\ HasLock(k, s))
        PROVE  /\ KeyIdle(k) /\ ~KeyRollback(t, k) /\ ~KeyCommit(t, k)
               /\ Outcome(t, k)' = Outcome(t, k) /\ CommittedOn(t, k)' = CommittedOn(t, k)
    <3>1. lock'[k] = lock[k] /\ write'[k] = write[k]
      BY <2>1, <2>4 DEF CommitLocks
    <3>2. Outcome(t, k)' = Outcome(t, k)
      BY <1>0, <3>1 DEF Outcome, StartOf
    <3> QED  BY <1>0, <3>1, <3>2, NoRecordStep DEF KeyIdle, CommittedOn
  <2>5. CommittedOn(t, p)' # {}
    BY <1>0, <2>2, <2>3, <2>4
  <2>6. \A k \in Key : KeyStep(t, k) /\ ~KeyRollback(t, k)
    BY <1>0, <2>3, <2>4, OneRecord DEF KeyStep
  <2>7. KeyCommit(t, p) =>
           \A k \in Keys(t) : RegionOf[k] = RegionOf[p] => Outcome(t, k)' # {}
    <3> SUFFICES ASSUME KeyCommit(t, p), NEW k \in Keys(t), RegionOf[k] = RegionOf[p]
                 PROVE  Outcome(t, k)' # {}
      OBVIOUS
    <3>1. p \in m.keys
      BY <1>0, <2>4
    <3>2. k \in m.keys /\ k \in Key
      BY <1>0, <3>1 DEF MsgOK, In
    <3>3. CASE HasLock(k, s)
      BY <2>3, <3>2, <3>3
    <3>4. CASE ~HasLock(k, s)
      <4>1. Committed(k, s)
        BY <1>3, <3>2, <3>4 DEF CommitOK, CommitError
      <4>2. Outcome(t, k) # {}
        BY <1>0, <3>2, <4>1, CommitInfo DEF CommittedOn
      <4> QED  BY <2>4, <3>2, <3>4, <4>2
    <3> QED  BY <3>3, <3>4
  <2>8. lock' = [k \in Key |-> lock'[k]] /\ write' = [k \in Key |-> write'[k]]
    BY <2>1 DEF CommitLocks
  <2>9. StoreStep(t)
    BY <1>0, <1>1, <2>5, <2>6, <2>7, <2>8 DEF StoreStep
  <2> QED  BY <2>5, <2>9
<1> QED  BY <1>2, <1>3

\* The answers to a commit request are true.
LEMMA CommitAnswer ==
    ASSUME PInv, NEW m \in msgs, m.type = "commit", Commit(m.keys, StartOf(m.txn), m.ts),
           UNCHANGED <<now, txn, msgs>>, NEW k \in m.keys,
           CommitError(k, StartOf(m.txn), m.ts) # "ok"
    PROVE  /\ CommitError(k, StartOf(m.txn), m.ts) = "TxnNotFound" =>
                RespOK([type |-> "txnNotFound", txn |-> m.txn, ts |-> m.ts])'
           /\ CommitError(k, StartOf(m.txn), m.ts) # "TxnNotFound" =>
                RespOK([type |-> "commitTSExpired", txn |-> m.txn, ts |-> m.ts])'
<1> DEFINE t == m.txn
           s == StartOf(t)
           p == PrimaryKey[t]
<1>0. /\ t \in Txn /\ s # 0 /\ k \in Key /\ Held(t, k) /\ m.ts \in Nat /\ p \in Key
      /\ Decided(t) /\ KeyInv(k) /\ Oracle /\ Typed
      /\ StartOf(t)' = s /\ St(t)' = St(t)
  BY CommitKeysHeld, PercolatorAssumption, MaxTSAssumption DEF PInv, Typed, Msg, StartOf, St
<1>1. lock' = lock /\ write' = write
  BY DEF Commit, CommitOK
<1>2. \A j \in Key : Outcome(t, j)' = Outcome(t, j)
  BY <1>0, <1>1 DEF Outcome, StartOf
<1>3. CASE CommitError(k, s, m.ts) = "TxnNotFound"
  <2> DEFINE a == [type |-> "txnNotFound", txn |-> t, ts |-> m.ts]
  <2>1. ~HasLock(k, s) /\ ~Committed(k, s)
    BY <1>3 DEF CommitError
  <2>2. Outcome(t, k) # {} /\ CommittedOn(t, k) = {}
    BY <1>0, <2>1, CommitInfo DEF Held
  <2>3. RolledBackOn(t, k)
    BY <2>2 DEF RolledBackOn, CommittedOn
  <2>4. St(t) = "aborted" \/ RolledBackOn(t, p)
    BY <1>0, <2>3 DEF Decided
  <2>5. St(t)' = "aborted" \/ RolledBackOn(t, p)'
    BY <1>0, <1>2, <2>4 DEF RolledBackOn
  <2>6. a.type = "txnNotFound" /\ a.txn = t
    OBVIOUS
  <2> HIDE DEF a
  <2>7. RespOK(a)'
    BY <1>0, <2>5, <2>6 DEF RespOK
  <2> QED  BY <1>3, <2>7 DEF a
<1>4. CASE CommitError(k, s, m.ts) # "TxnNotFound"
  <2> DEFINE a == [type |-> "commitTSExpired", txn |-> t, ts |-> m.ts]
  <2>1. HasLock(k, s) /\ lock[k].minCommitTS > m.ts
    BY <1>4 DEF CommitError
  <2>2. Outcome(t, k) = {} /\ lock[k].op # "PessimisticLock"
    BY <1>0, <2>1, LockedUnsettled DEF Held
  <2>3. k = p
    <3>1. PICK u \in Txn :
            /\ lock[k].startTS = StartOf(u)
            /\ lock[k].op # "PessimisticLock" /\ k # PrimaryKey[u] => lock[k].minCommitTS = 0
      BY <1>0, <2>1 DEF KeyInv, LockShape, HasLock
    <3>2. u = t
      BY <1>0, <2>1, <3>1 DEF HasLock, Oracle
    <3> QED  BY <1>0, <2>1, <2>2, <3>1, <3>2
  <2>4. /\ Held(t, p)' /\ lock'[p].minCommitTS > m.ts /\ CommittedOn(t, p)' = {}
    BY <1>0, <1>1, <1>2, <2>1, <2>2, <2>3 DEF Held, HasLock, CommittedOn
  <2>5. a.type = "commitTSExpired" /\ a.txn = t /\ a.ts = m.ts
    OBVIOUS
  <2> HIDE DEF a
  <2>6. RespOK(a)'
    BY <1>0, <2>4, <2>5 DEF RespOK
  <2> QED  BY <1>4, <2>6 DEF a
<1> QED  BY <1>3, <1>4

\* A step that writes tombstones only.
LEMMA TombstoneStep ==
    ASSUME PInv, NEW t \in Txn, StartOf(t) # 0,
           \A k \in Key : KeyIdle(k) \/ KeyRollback(t, k),
           St(t) = "aborted" \/ RolledBackOn(t, PrimaryKey[t])',
           lock' = [k \in Key |-> lock'[k]], write' = [k \in Key |-> write'[k]],
           waitFor' \subseteq TS \X TS, UNCHANGED <<now, txn, msgs>>
    PROVE  StoreStep(t)
<1>1. \A k \in Key : ~KeyCommit(t, k)
  BY NoRecordStep, OneRecord DEF KeyIdle
<1> QED  BY <1>1, PercolatorAssumption DEF StoreStep, KeyStep

\* A tombstone on the primary decides for a rollback.
LEMMA TombstoneDecides ==
    ASSUME NEW t \in Txn, StartOf(t) # 0, NEW k \in Key, KeyRollback(t, k), txn' = txn
    PROVE  RolledBackOn(t, k)'
<1> DEFINE w == RollbackRec(StartOf(t))
<1>1. w.type = "Rollback" /\ w.startTS = StartOf(t)
  BY DEF RollbackRec
<1> HIDE DEF w
<1>2. w \in write'[k]
  BY DEF KeyRollback, PutValue, w
<1> QED  BY <1>1, <1>2 DEF RolledBackOn, Outcome, StartOf

\* The rollback of a client that gave up.
LEMMA RollbackStep ==
    ASSUME PInv, NEW t \in Txn, StartOf(t) # 0, St(t) = "aborted", NEW K,
           Rollback(K, StartOf(t)), UNCHANGED <<now, txn, msgs>>
    PROVE  StoreStep(t)
<1>0. Typed /\ \A k \in Key : KeyInv(k)
  BY DEF PInv
<1>1. waitFor' \subseteq TS \X TS
  BY <1>0 DEF Rollback, CleanUp, Typed, StoreTypeOK
<1>2. CASE RollbackOK(K, StartOf(t))
  <2>1. RollbackKeys(K, StartOf(t))
    BY <1>2 DEF Rollback
  <2>2. lock' = [k \in Key |-> lock'[k]] /\ write' = [k \in Key |-> write'[k]]
    BY <2>1 DEF RollbackKeys
  <2>3. ASSUME NEW k \in Key
        PROVE  KeyIdle(k) \/ KeyRollback(t, k)
    <3>1. CASE k \in K /\ (HasLock(k, StartOf(t)) \/ NotPrewritten(k, StartOf(t)))
      <4>1. Outcome(t, k) = {}
        BY <1>0, <3>1, LockedUnsettled, CommitInfo DEF NotPrewritten
      <4> QED  BY <2>1, <3>1, <4>1 DEF RollbackKeys, KeyRollback
    <3>2. CASE ~(k \in K /\ (HasLock(k, StartOf(t)) \/ NotPrewritten(k, StartOf(t))))
      BY <2>1, <3>2 DEF RollbackKeys, KeyIdle
    <3> QED  BY <3>1, <3>2
  <2> QED  BY <1>1, <2>2, <2>3, TombstoneStep
<1>3. CASE ~RollbackOK(K, StartOf(t))
  <2>1. lock' = lock /\ write' = write
    BY <1>3 DEF Rollback
  <2>2. lock' = [k \in Key |-> lock'[k]] /\ \A k \in Key : KeyIdle(k)
    BY <1>0, <2>1 DEF KeyIdle, Typed, StoreTypeOK
  <2> QED  BY <1>1, <2>1, <2>2, LockOnlyStep
<1> QED  BY <1>2, <1>3

\* A commit record carries the last commit timestamp its client took.
LEMMA CommittedAtOf ==
    ASSUME PInv, NEW t \in Txn, StartOf(t) # 0, NEW k \in Key, NEW w \in CommittedOn(t, k)
    PROVE  w.commitTS = CommitAt(t) /\ CommitAt(t) # 0
<1>0. Oracle /\ KeyInv(k) /\ w \in write[k] /\ w.startTS = StartOf(t) /\ w.type # "Rollback"
  BY DEF PInv, CommittedOn, Outcome, StartOf
<1>1. ~(k \in Loaded /\ w = InitialRec)
  <2>1. k \in Loaded => StartOf(t) > 2
    BY <1>0 DEF Oracle
  <2> QED  BY <1>0, <2>1 DEF InitialRec
<1> QED  BY <1>0, <1>1 DEF KeyInv, RecShape, Oracle

\* What CheckTxnStatus does to the primary of t, and what its answer proves.
LEMMA CheckTxnStatusStep ==
    ASSUME PInv, NEW t \in Txn, StartOf(t) # 0, NEW caller \in Nat, NEW cur \in Nat, NEW r,
           CheckTxnStatus(PrimaryKey[t], StartOf(t), caller, cur, r),
           Learn(PrimaryKey[t], StartOf(t), TxnStatus(PrimaryKey[t], StartOf(t), caller, cur, r)),
           UNCHANGED <<now, txn, msgs>>
    PROVE  StoreStep(t) /\ \A o \in known' \ known : KnownOK(o)'
<1> DEFINE p == PrimaryKey[t]
           s == StartOf(t)
           status == TxnStatus(p, s, caller, cur, r)
<1>0. /\ Typed /\ Oracle /\ p \in Key /\ KeyInv(p) /\ StartOf(t)' = s /\ CommitAt(t)' = CommitAt(t)
      /\ waitFor' \subseteq TS \X TS
  BY PercolatorAssumption DEF PInv, StartOf, CommitAt, CheckTxnStatus, Typed, StoreTypeOK
<1>1. ASSUME lock' = lock, write' = write
      PROVE  StoreStep(t) /\ \A k \in Key : Outcome(t, k)' = Outcome(t, k)
  <2>1. lock' = [k \in Key |-> lock'[k]] /\ \A k \in Key : KeyIdle(k)
    BY <1>0, <1>1 DEF KeyIdle, Typed, StoreTypeOK
  <2>2. StoreStep(t)
    BY <1>0, <1>1, <2>1, LockOnlyStep
  <2>3. \A k \in Key : Outcome(t, k)' = Outcome(t, k)
    BY <1>1 DEF Outcome
  <2> QED  BY <2>2, <2>3
<1>2. ASSUME RolledBackOn(t, p)'
      PROVE  \A o : o = <<s, 0>> => KnownOK(o)'
  BY <1>0, <1>2 DEF KnownOK
<1>3. CASE status \in {"TTLExpireRollback", "LockNotExistRollback"}
  <2>1. /\ KeyRollback(t, p) /\ \A k \in Key : k # p => KeyIdle(k)
        /\ lock' = [k \in Key |-> lock'[k]] /\ write' = [k \in Key |-> write'[k]]
    <3>1. CASE status = "TTLExpireRollback"
      <4>1. HasLock(p, s)
        BY <3>1 DEF TxnStatus
      <4>2. RollbackLocks({p}, s)
        BY <3>1 DEF CheckTxnStatus
      <4>3. Outcome(t, p) = {}
        BY <1>0, <4>1, LockedUnsettled
      <4> QED  BY <1>0, <4>1, <4>2, <4>3 DEF RollbackLocks, KeyRollback, KeyIdle
    <3>2. CASE status = "LockNotExistRollback"
      <4>1. ~HasLock(p, s) /\ TxnCommitInfo(p, s) = {}
        BY <3>2 DEF TxnStatus
      <4>2. lock' = lock /\ write' = [write EXCEPT ![p] = PutValue(@, RollbackRec(s))]
        BY <3>2 DEF CheckTxnStatus
      <4>3. Outcome(t, p) = {}
        BY <1>0, <4>1, CommitInfo
      <4> QED  BY <1>0, <4>1, <4>2, <4>3 DEF KeyRollback, KeyIdle, Typed, StoreTypeOK
    <3> QED  BY <1>3, <3>1, <3>2
  <2>2. RolledBackOn(t, p)'
    BY <1>0, <2>1, TombstoneDecides
  <2>3. StoreStep(t)
    BY <1>0, <2>1, <2>2, TombstoneStep
  <2>4. known' = known \cup {<<s, 0>>}
    BY <1>3 DEF Learn
  <2> QED  BY <1>2, <2>2, <2>3, <2>4
<1>4. CASE status = "MinCommitTSPushed"
  <2>1. HasLock(p, s)
    BY <1>4 DEF TxnStatus
  <2>2. lock[p] \in LockRec /\ Outcome(t, p) = {} /\ lock[p].startTS = s
    BY <1>0, <2>1, LockedUnsettled DEF HasLock, Typed, StoreTypeOK
  <2>3. known' = known /\ write' = write /\ PushMinCommitTS(p, caller, cur)
    BY <1>4 DEF Learn, CheckTxnStatus
  <2> DEFINE min == Max2(caller + 1, cur)
  <2>4. min \in Nat /\ min >= caller + 1
    BY DEF Max2
  <2>5. \/ lock' = lock
        \/ lock[p].minCommitTS < caller + 1 /\ lock' = [lock EXCEPT ![p].minCommitTS = min]
    BY <2>3 DEF PushMinCommitTS
  <2> HIDE DEF min
  <2>6. CASE lock' = lock
    BY <1>1, <2>3, <2>6
  <2>7. CASE lock[p].minCommitTS < caller + 1 /\ lock' = [lock EXCEPT ![p].minCommitTS = min]
    <3>1. lock'[p] = [lock[p] EXCEPT !.minCommitTS = min]
      BY <1>0, <2>7 DEF Typed, StoreTypeOK
    <3>2. /\ lock'[p] \in LockRec /\ lock'[p].startTS = s /\ lock'[p].primary = lock[p].primary
          /\ lock'[p].op = lock[p].op /\ lock'[p].minCommitTS = min
      BY <2>2, <2>4, <3>1 DEF LockRec
    <3>3. min >= lock[p].minCommitTS
      <4>1. lock[p].minCommitTS \in Nat
        BY <2>2 DEF LockRec
      <4> QED  BY <2>4, <2>7, <4>1
    <3>4. lock[p].primary = p
      BY <1>0, <2>1 DEF HasLock, KeyInv, LockShape, Oracle
    <3>5. KeyLock(t, p)
      BY <2>1, <2>2, <2>3, <3>2, <3>3, <3>4 DEF KeyLock, OtherLock, HasLock
    <3>6. \A k \in Key : k # p => KeyIdle(k)
      BY <1>0, <2>3, <2>7 DEF KeyIdle, Typed, StoreTypeOK
    <3>7. lock' = [k \in Key |-> lock'[k]]
      BY <1>0, <2>7 DEF Typed, StoreTypeOK
    <3>8. StoreStep(t)
      BY <1>0, <2>3, <3>5, <3>6, <3>7, LockOnlyStep
    <3> QED  BY <2>3, <3>8
  <2> QED  BY <2>5, <2>6, <2>7
<1>5. CASE status = "Committed"
  <2>1. lock' = lock /\ write' = write /\ known' = known \cup {<<s, CommitTSOf(p, s)>>}
    BY <1>5 DEF Learn, CheckTxnStatus
  <2>2. CommittedOn(t, p) # {}
    BY <1>0, <1>5, CommitInfo DEF TxnStatus
  <2>3. CommitTSOf(p, s) = CommitAt(t) /\ CommitAt(t) # 0
    <3>1. PICK w \in CommittedOn(t, p) : TRUE
      BY <2>2
    <3>2. w \in Outcome(t, p) /\ \A x \in Outcome(t, p) : x = w
      BY <1>0 DEF CommittedOn, Outcome, KeyInv
    <3>3. (CHOOSE x \in TxnCommitInfo(p, s) : TRUE) = w
      BY <1>0, <3>2, CommitInfo
    <3> QED  BY <1>0, <3>1, <3>3, CommittedAtOf DEF CommitTSOf
  <2>4. CommittedOn(t, p)' # {} /\ StoreStep(t)
    BY <1>0, <1>1, <2>1, <2>2 DEF CommittedOn
  <2>5. \A o : o = <<s, CommitAt(t)>> => KnownOK(o)'
    BY <1>0, <2>3, <2>4 DEF KnownOK
  <2> QED  BY <2>1, <2>3, <2>4, <2>5
<1>6. CASE status = "RolledBack"
  <2>1. lock' = lock /\ write' = write /\ known' = known \cup {<<s, 0>>}
    BY <1>6 DEF Learn, CheckTxnStatus
  <2>2. TxnCommitInfo(p, s) # {} /\ ~Committed(p, s)
    BY <1>6 DEF TxnStatus
  <2>3. RolledBackOn(t, p)
    BY <1>0, <2>2, CommitInfo DEF CommittedOn, RolledBackOn
  <2>4. RolledBackOn(t, p)'
    BY <1>0, <1>1, <2>1, <2>3 DEF RolledBackOn
  <2> QED  BY <1>1, <1>2, <2>1, <2>4
<1>7. CASE status \in {"Alive", "TxnNotFound"}
  <2>1. lock' = lock /\ write' = write /\ known' = known
    BY <1>7 DEF Learn, CheckTxnStatus
  <2> QED  BY <1>1, <2>1
<1>8. status \in {"TTLExpireRollback", "LockNotExistRollback", "MinCommitTSPushed", "Committed",
                  "RolledBack", "Alive", "TxnNotFound"}
  BY DEF TxnStatus
<1> QED  BY <1>3, <1>4, <1>5, <1>6, <1>7, <1>8

\* A resolver applies the outcome it learnt to the locks of a region.
LEMMA ResolveStep ==
    ASSUME PInv, NEW o \in known, NEW K, ResolveLock(K, o[1], o[2]), UNCHANGED <<now, txn, msgs>>
    PROVE  \E t \in Txn : StoreStep(t)
<1>1. PICK t \in Txn :
        /\ o[1] = StartOf(t) /\ StartOf(t) # 0
        /\ IF o[2] = 0 THEN RolledBackOn(t, PrimaryKey[t])
           ELSE o[2] = CommitAt(t) /\ CommittedOn(t, PrimaryKey[t]) # {}
  BY DEF PInv, KnownOK
<1> DEFINE s == StartOf(t)
           p == PrimaryKey[t]
           hit(k) == k \in K /\ HasLock(k, s)
           rec(k) == IF o[2] > 0 THEN CommitRec(lock[k], o[2]) ELSE RollbackRec(s)
<1>0. Typed /\ p \in Key /\ \A k \in Key : KeyInv(k)
  BY PercolatorAssumption DEF PInv
<1>2. /\ lock' = [k \in Key |-> IF hit(k) THEN NoLock ELSE lock[k]]
      /\ write' = [k \in Key |-> IF hit(k) THEN PutValue(write[k], rec(k)) ELSE write[k]]
      /\ waitFor' = waitFor
  <2> DEFINE infos == [x \in {o[1]} |-> o[2]]
             hit2(k) == k \in K /\ lock[k] # NoLock /\ lock[k].startTS \in DOMAIN infos
             rec2(k) == IF infos[lock[k].startTS] > 0
                        THEN CommitRec(lock[k], infos[lock[k].startTS])
                        ELSE RollbackRec(lock[k].startTS)
  <2>1. /\ lock' = [k \in Key |-> IF hit2(k) THEN NoLock ELSE lock[k]]
        /\ write' = [k \in Key |-> IF hit2(k) THEN PutValue(write[k], rec2(k)) ELSE write[k]]
        /\ waitFor' = waitFor
    BY DEF ResolveLock, ResolveLocks
  <2>2. \A k \in Key : (hit2(k) <=> hit(k)) /\ (hit(k) => rec2(k) = rec(k))
    BY <1>1 DEF HasLock
  <2> HIDE DEF hit2, rec2, hit, rec
  <2> QED  BY <2>1, <2>2
<1>3. lock' = [k \in Key |-> lock'[k]] /\ write' = [k \in Key |-> write'[k]]
      /\ waitFor' \subseteq TS \X TS
  BY <1>0, <1>2 DEF Typed, StoreTypeOK
<1>4. ~HasLock(p, s)
  BY <1>0, <1>1, LockedUnsettled DEF RolledBackOn, CommittedOn
<1>5. lock'[p] = lock[p] /\ write'[p] = write[p]
  BY <1>0, <1>2, <1>4
<1>6. Outcome(t, p)' = Outcome(t, p)
  BY <1>5 DEF Outcome
<1>7. CASE o[2] = 0
  <2>1. RolledBackOn(t, p)'
    BY <1>1, <1>6, <1>7 DEF RolledBackOn
  <2>2. ASSUME NEW k \in Key
        PROVE  KeyIdle(k) \/ KeyRollback(t, k)
    <3>1. CASE hit(k)
      <4>1. lock'[k] = NoLock /\ write'[k] = PutValue(write[k], RollbackRec(s))
        BY <1>2, <1>7, <3>1
      <4> QED  BY <1>0, <3>1, <4>1, LockedUnsettled DEF KeyRollback
    <3>2. CASE ~hit(k)
      BY <1>2, <3>2 DEF KeyIdle
    <3> QED  BY <3>1, <3>2
  <2> QED  BY <1>1, <1>3, <2>1, <2>2, TombstoneStep
<1>8. CASE o[2] # 0
  <2>1. o[2] = CommitAt(t) /\ CommitAt(t) > 0 /\ CommittedOn(t, p)' # {}
    BY <1>0, <1>1, <1>6, <1>8, TxnTypes DEF CommittedOn
  <2>2. ASSUME NEW k \in Key
        PROVE  (KeyIdle(k) \/ KeyCommit(t, k)) /\ ~KeyRollback(t, k)
    <3>1. CASE hit(k)
      <4>1. lock'[k] = NoLock /\ write'[k] = PutValue(write[k], CommitRec(lock[k], CommitAt(t)))
        BY <1>2, <2>1, <3>1
      <4>2. KeyCommit(t, k)
        BY <1>4, <2>1, <3>1, <4>1 DEF KeyCommit
      <4> QED  BY <1>1, <4>2, OneRecord
    <3>2. CASE ~hit(k)
      BY <1>1, <1>2, <3>2, NoRecordStep DEF KeyIdle
    <3> QED  BY <3>1, <3>2
  <2>3. ~KeyCommit(t, p)
    BY <1>4 DEF KeyCommit
  <2> QED  BY <1>1, <1>3, <2>1, <2>2, <2>3 DEF StoreStep, KeyStep
<1> QED  BY <1>7, <1>8

-----------------------------------------------------------------------------
(* Steps of clients and readers, which leave the store alone. *)

\* Readers take their snapshots, time passes.
LEMMA QuietStep ==
    ASSUME PInv, UNCHANGED <<lock, write, waitFor, txn, msgs, resps, known>>,
           now' \in {now, now + 1}, now' \in 0 .. MaxTS, ReadersTyped'
    PROVE  PInv'
<1>0. now \in Nat /\ now' \in Nat /\ now <= now'
  BY MaxTSAssumption DEF PInv, Typed
<1>1. Typed'
  BY DEF PInv, Typed, StoreTypeOK
<1>2. Oracle'
  <2>1. \A t \in Txn : StartOf(t) \in Nat /\ ForUpdateOf(t) \in Nat /\ CommitAt(t) \in Nat
    BY TxnTypes DEF PInv
  <2> QED  BY <1>0, <2>1 DEF PInv, Oracle, StartOf, ForUpdateOf, CommitAt, St
<1> USE DEF StartOf, CommitAt, ForUpdateOf, St, Seen, Outcome, CommittedOn, RolledBackOn, HasLock
<1>3. \A k \in Key : KeyInv(k)'
  BY DEF PInv, KeyInv, LockShape, RecShape, InitialRec, LockSeen, SeenBefore
<1>4. \A t \in Txn : Decided(t)'
  BY DEF PInv, Decided, Keys
<1>5. \A m \in msgs' : MsgOK(m)'
  BY DEF PInv, MsgOK
<1>6. \A a \in resps' : RespOK(a)'
  BY DEF PInv, RespOK, Held
<1>7. \A o \in known' : KnownOK(o)'
  BY DEF PInv, KnownOK
<1>8. CommitPrewritten'
  BY DEF PInv, CommitPrewritten, Prewritten
<1> QED  BY <1>1, <1>2, <1>3, <1>4, <1>5, <1>6, <1>7, <1>8 DEF PInv

\* A record of a client's transaction.
TxnRec == [st : TxnState, startTS : 0 .. MaxTS, forUpdateTS : 0 .. MaxTS,
           commitTS : 0 .. MaxTS, stmts : Nat]

\* The timestamps a client's step may change: none, or one of them to a fresh
\* one.  A second commit timestamp replaces one the store refused for good.
Stamped(t, x) ==
    \/ /\ x.startTS = StartOf(t) /\ x.forUpdateTS = ForUpdateOf(t) /\ x.commitTS = CommitAt(t)
    \/ /\ now' = now + 1 /\ x.startTS = now + 1 /\ StartOf(t) = 0
       /\ x.forUpdateTS = ForUpdateOf(t) /\ x.commitTS = CommitAt(t)
    \/ /\ now' = now + 1 /\ x.forUpdateTS = now + 1 /\ CommitAt(t) = 0
       /\ x.startTS = StartOf(t) /\ x.commitTS = CommitAt(t)
    \/ /\ now' = now + 1 /\ x.commitTS = now + 1 /\ StartOf(t) # 0 /\ St(t) # "committed"
       /\ x.startTS = StartOf(t) /\ x.forUpdateTS = ForUpdateOf(t)
       /\ \A k \in Key : CommittedOn(t, k) = {}
       /\ \/ CommitAt(t) = 0
          \/ [type |-> "commitTSExpired", txn |-> t, ts |-> CommitAt(t)] \in resps

\* A step of a client.
LEMMA ClientStep ==
    ASSUME PInv, NEW t \in Txn, NEW x \in TxnRec, txn' = [txn EXCEPT ![t] = x],
           UNCHANGED <<lock, write, waitFor, resps, known, reader>>,
           now' \in {now, now + 1}, now' \in 0 .. MaxTS, Stamped(t, x),
           x.startTS # 0, x.st # "init",
           x.commitTS # 0 => x.st \in {"committing", "committed", "aborted"} /\ Prewritten(t),
           x.st = "aborted" => RolledBackOn(t, PrimaryKey[t]) \/ x.commitTS = 0,
           x.st = "committed" => CommittedOn(t, PrimaryKey[t]) # {},
           x.st \in {"committing", "committed"} => x.commitTS # 0,
           St(t) \in {"aborted", "committed"} => x.st = St(t),
           msgs \subseteq msgs', msgs' \subseteq Msg, \A m \in msgs' \ msgs : MsgOK(m)'
    PROVE  PInv'
<1>0. /\ Typed /\ Oracle /\ \A k \in Key : KeyInv(k)
      /\ now \in Nat /\ now' \in Nat /\ now <= now'
  BY MaxTSAssumption DEF PInv, Typed
<1>1. \A u \in Txn : /\ StartOf(u) \in Nat /\ ForUpdateOf(u) \in Nat /\ CommitAt(u) \in Nat
                     /\ Seen(u) \in Nat /\ StartOf(u) <= now /\ ForUpdateOf(u) <= now
                     /\ CommitAt(u) <= now
  BY <1>0, TxnTypes DEF Oracle
<1>2. /\ StartOf(t)' = x.startTS /\ ForUpdateOf(t)' = x.forUpdateTS /\ CommitAt(t)' = x.commitTS
      /\ St(t)' = x.st
      /\ \A u \in Txn : u # t => /\ StartOf(u)' = StartOf(u) /\ ForUpdateOf(u)' = ForUpdateOf(u)
                                 /\ CommitAt(u)' = CommitAt(u) /\ St(u)' = St(u)
  BY <1>0 DEF Typed, StartOf, ForUpdateOf, CommitAt, St
<1>3. Typed'
  BY <1>0 DEF Typed, StoreTypeOK, TxnRec
<1>4. \A u \in Txn : /\ StartOf(u) # 0 => StartOf(u)' = StartOf(u)
                     /\ StartOf(u)' # StartOf(u) => StartOf(u)' = now + 1 /\ StartOf(u) = 0
                     /\ Seen(u) <= Seen(u)' /\ Seen(u)' \in Nat
                     /\ ForUpdateOf(u) <= ForUpdateOf(u)'
                     /\ CommitAt(u) # 0 => CommitAt(u)' # 0
                     /\ CommitAt(u)' # CommitAt(u) => u = t /\ \A k \in Key : CommittedOn(u, k) = {}
  BY <1>0, <1>1, <1>2 DEF Stamped, Seen
<1>5. \A k \in Key : \A w \in write[k] : w.startTS # now + 1 /\ w.startTS # 0 /\ w.commitTS \in Nat
  <2> SUFFICES ASSUME NEW k \in Key, NEW w \in write[k]
               PROVE  w.startTS # now + 1 /\ w.startTS # 0 /\ w.commitTS \in Nat
    OBVIOUS
  <2>1. RecShape(k, w)
    BY <1>0 DEF KeyInv
  <2>2. w.startTS \in TS /\ w.commitTS \in TS
    BY <1>0 DEF Typed, StoreTypeOK, WriteRec
  <2>3. w.startTS <= now
    BY <1>0, <1>1, <2>1 DEF RecShape, InitialRec, Oracle
  <2> QED  BY <1>0, <2>2, <2>3, MaxTSAssumption DEF TS
<1>6. \A u \in Txn, k \in Key : /\ Outcome(u, k)' = Outcome(u, k)
                                /\ CommittedOn(u, k)' = CommittedOn(u, k)
                                /\ RolledBackOn(u, k)' = RolledBackOn(u, k)
  <2>1. \A u \in Txn, k \in Key : Outcome(u, k)' = Outcome(u, k)
    <3> SUFFICES ASSUME NEW u \in Txn, NEW k \in Key, NEW w \in write[k]
                 PROVE  (StartOf(u)' # 0 /\ w.startTS = StartOf(u)')
                          <=> (StartOf(u) # 0 /\ w.startTS = StartOf(u))
      BY DEF Outcome, StartOf
    <3> QED  BY <1>4, <1>5
  <2> QED  BY <2>1 DEF CommittedOn, RolledBackOn
<1>7. \A u \in Txn, k \in Key :
         /\ HasLock(k, StartOf(u))' /\ StartOf(u)' # 0 => HasLock(k, StartOf(u)) /\ StartOf(u) # 0
         /\ HasLock(k, StartOf(u)) /\ StartOf(u) # 0 => HasLock(k, StartOf(u))' /\ StartOf(u)' # 0
  <2> SUFFICES ASSUME NEW u \in Txn, NEW k \in Key, lock[k] # NoLock
               PROVE  (StartOf(u)' # 0 /\ lock[k].startTS = StartOf(u)')
                        <=> (StartOf(u) # 0 /\ lock[k].startTS = StartOf(u))
    BY DEF HasLock
  <2>1. PICK v \in Txn : lock[k].startTS = StartOf(v)
    BY <1>0 DEF KeyInv, LockShape
  <2>2. lock[k].startTS # now + 1
    BY <1>0, <1>1, <2>1
  <2> QED  BY <1>4, <2>2
<1>8. Oracle'
  <2>1. Loaded # {} => now' >= 2
    BY <1>0 DEF Oracle
  <2>2. \A u \in Txn :
         /\ StartOf(u)' <= now' /\ ForUpdateOf(u)' <= now' /\ CommitAt(u)' <= now'
         /\ (StartOf(u)' # 0) <=> (St(u)' # "init")
         /\ StartOf(u)' # 0 /\ Loaded # {} => StartOf(u)' > 2
         /\ CommitAt(u)' # 0 => /\ StartOf(u)' # 0
                                /\ StartOf(u)' < CommitAt(u)' /\ ForUpdateOf(u)' < CommitAt(u)'
                                /\ St(u)' \in {"committing", "committed", "aborted"}
         /\ St(u)' \in {"committing", "committed"} => CommitAt(u)' # 0
    BY <1>0, <1>1, <1>2 DEF Oracle, Stamped
  <2>3. \A u, v \in Txn :
         /\ StartOf(u)' # 0 /\ StartOf(u)' = StartOf(v)' => u = v
         /\ CommitAt(u)' # 0 => CommitAt(u)' # StartOf(v)'
         /\ CommitAt(u)' # 0 /\ CommitAt(u)' = CommitAt(v)' => u = v
    <3>1. \A u \in Txn : /\ StartOf(u) # now + 1 /\ CommitAt(u) # now + 1
      BY <1>0, <1>1
    <3> QED  BY <1>0, <1>1, <1>2, <3>1 DEF Oracle, Stamped
  <2> QED  BY <2>1, <2>2, <2>3 DEF Oracle
<1>9. ASSUME NEW k \in Key
      PROVE  KeyInv(k)'
  <2>0. KeyInv(k) /\ lock'[k] = lock[k] /\ write'[k] = write[k]
    BY <1>0
  <2>1. LockShape(k)'
    BY <1>4, <2>0 DEF KeyInv, LockShape
  <2>2. ASSUME NEW w \in write[k]
        PROVE  RecShape(k, w)'
    <3>1. CASE k \in Loaded /\ w = InitialRec
      BY <3>1 DEF RecShape, InitialRec
    <3>2. CASE \E u \in Txn : /\ StartOf(u) # 0 /\ w.startTS = StartOf(u)
                              /\ IF w.type = "Rollback" THEN w.commitTS = StartOf(u)
                                 ELSE w.commitTS = CommitAt(u) /\ CommitAt(u) # 0
      <4>1. PICK u \in Txn : /\ StartOf(u) # 0 /\ w.startTS = StartOf(u)
                             /\ IF w.type = "Rollback" THEN w.commitTS = StartOf(u)
                                ELSE w.commitTS = CommitAt(u) /\ CommitAt(u) # 0
        BY <3>2
      <4>2. w.type # "Rollback" => w \in CommittedOn(u, k)
        BY <4>1 DEF CommittedOn, Outcome, StartOf
      <4>3. StartOf(u)' = StartOf(u) /\ (w.type # "Rollback" => CommitAt(u)' = CommitAt(u))
        BY <1>4, <4>1, <4>2
      <4> QED  BY <4>1, <4>3 DEF RecShape
    <3> QED  BY <2>0, <3>1, <3>2 DEF KeyInv, RecShape
  <2>3. LockSeen(k)'
    <3> SUFFICES ASSUME NEW u \in Txn, StartOf(u)' # 0, HasLock(k, StartOf(u))',
                        NEW w \in write[k], w.type # "Rollback"
                 PROVE  w.commitTS <= Seen(u)'
      BY <2>0 DEF LockSeen
    <3>1. w.commitTS <= Seen(u)
      BY <1>7, <2>0 DEF KeyInv, LockSeen
    <3> QED  BY <1>1, <1>4, <1>5, <3>1
  <2>4. SeenBefore(k)'
    <3> SUFFICES ASSUME NEW u \in Txn, NEW w \in write[k], NEW y \in CommittedOn(u, k),
                        w.type # "Rollback", w.commitTS < y.commitTS
                 PROVE  w.commitTS <= Seen(u)'
      BY <1>6, <2>0 DEF SeenBefore
    <3>1. w.commitTS <= Seen(u)
      BY <2>0 DEF KeyInv, SeenBefore
    <3> QED  BY <1>1, <1>4, <1>5, <3>1
  <2> QED  BY <2>0, <2>1, <2>2, <2>3, <2>4 DEF KeyInv
<1>10. ASSUME NEW u \in Txn
       PROVE  Decided(u)'
  <2>0. Decided(u) /\ PrimaryKey[u] \in Key /\ Keys(u) \subseteq Key /\ Keys(u)' = Keys(u)
    BY PercolatorAssumption DEF PInv, Keys
  <2>1. CASE u = t
    BY <1>2, <1>6, <2>0, <2>1 DEF Decided
  <2>2. CASE u # t
    BY <1>2, <1>6, <2>0, <2>2 DEF Decided
  <2> QED  BY <2>1, <2>2
<1>11. ASSUME NEW m \in msgs
       PROVE  MsgOK(m)'
  <2>0. MsgOK(m) /\ m.txn \in Txn /\ m \in Msg
    BY <1>0 DEF PInv, Typed, Msg
  <2>1. CASE m.txn # t
    BY <1>2, <2>0, <2>1 DEF MsgOK
  <2>2. CASE m.txn = t
    <3>1. StartOf(t)' # 0
      BY <1>2
    <3>2. m.type = "prewrite" => m.keys \subseteq Keys(t)
      BY <2>0, <2>2 DEF MsgOK
    <3>3. m.type = "pessimisticLock" => t \in Pessimistic /\ m.ts <= ForUpdateOf(t)'
      <4>1. m.ts \in Nat /\ ForUpdateOf(t)' \in Nat /\ ForUpdateOf(t) \in Nat
        BY <1>1, <1>2, <2>0, MaxTSAssumption DEF Msg, TxnRec
      <4> QED  BY <1>4, <2>0, <2>2, <4>1 DEF MsgOK
    <3>4. m.type = "rollback" => St(t)' = "aborted"
      BY <1>2, <2>0, <2>2 DEF MsgOK
    <3>5. ASSUME m.type = "commit"
          PROVE  /\ CommitAt(t)' # 0 /\ m.ts # 0
                 /\ \E g \in Regions(Keys(t)) : m.keys = Keys(t) \cap In(g)
                 /\ PrimaryKey[t] \in m.keys \/ (St(t)' = "committed" /\ m.ts = CommitAt(t)')
                 /\ \/ m.ts = CommitAt(t)'
                    \/ [type |-> "commitTSExpired", txn |-> t, ts |-> m.ts] \in resps
      <4>1. /\ CommitAt(t) # 0 /\ m.ts # 0
            /\ \E g \in Regions(Keys(t)) : m.keys = Keys(t) \cap In(g)
            /\ PrimaryKey[t] \in m.keys \/ (St(t) = "committed" /\ m.ts = CommitAt(t))
            /\ \/ m.ts = CommitAt(t)
               \/ [type |-> "commitTSExpired", txn |-> t, ts |-> m.ts] \in resps
        BY <2>0, <2>2, <3>5 DEF MsgOK
      <4>2. \/ CommitAt(t)' = CommitAt(t)
            \/ /\ St(t) # "committed"
               /\ [type |-> "commitTSExpired", txn |-> t, ts |-> CommitAt(t)] \in resps
        BY <1>2, <4>1 DEF Stamped
      <4> QED  BY <1>2, <1>4, <4>1, <4>2
    <3> QED  BY <2>2, <3>1, <3>2, <3>3, <3>4, <3>5 DEF MsgOK, Keys, Regions, In
  <2> QED  BY <2>1, <2>2
<1>12. ASSUME NEW a \in resps
       PROVE  RespOK(a)'
  <2> DEFINE u == a.txn
  <2>0. RespOK(a) /\ u \in Txn /\ StartOf(u) # 0 /\ PrimaryKey[u] \in Key
    BY PercolatorAssumption DEF PInv, RespOK
  <2>1. \A k \in Key : Held(u, k) => Held(u, k)'
    BY <1>6, <1>7, <2>0 DEF Held
  <2>2. St(u) = "aborted" => St(u)' = "aborted"
    BY <1>2, <2>0
  <2>3. StartOf(u)' # 0
    BY <1>4, <2>0
  <2> QED  BY <1>6, <1>7, <2>0, <2>1, <2>2, <2>3 DEF RespOK
<1>13. ASSUME NEW o \in known
       PROVE  KnownOK(o)'
  <2>1. PICK u \in Txn :
          /\ o[1] = StartOf(u) /\ StartOf(u) # 0
          /\ IF o[2] = 0 THEN RolledBackOn(u, PrimaryKey[u])
             ELSE o[2] = CommitAt(u) /\ CommittedOn(u, PrimaryKey[u]) # {}
    BY DEF PInv, KnownOK
  <2>2. PrimaryKey[u] \in Key
    BY PercolatorAssumption
  <2> QED  BY <1>4, <1>6, <2>1, <2>2 DEF KnownOK
<1>14. CommitPrewritten'
  <2>1. ASSUME NEW u \in Txn, CommitAt(u)' # 0
        PROVE  Prewritten(u)
    BY <1>2, <2>1 DEF PInv, CommitPrewritten
  <2> QED  BY <2>1 DEF CommitPrewritten, Prewritten
<1>15. ReadersTyped'
  BY DEF PInv, ReadersTyped
<1> QED
  BY <1>3, <1>8, <1>9, <1>10, <1>11, <1>12, <1>13, <1>14, <1>15 DEF PInv

\* The record a client's step leaves.
LEMMA TxnRecOf ==
    ASSUME PInv, NEW t \in Txn
    PROVE  /\ txn[t] \in TxnRec /\ now \in Nat /\ now \in 0 .. MaxTS
           /\ StartOf(t) = txn[t].startTS /\ ForUpdateOf(t) = txn[t].forUpdateTS
           /\ CommitAt(t) = txn[t].commitTS /\ St(t) = txn[t].st
           /\ Oracle /\ Decided(t) /\ msgs \subseteq Msg
           /\ Keys(t) \subseteq Key /\ PrimaryKey[t] \in Keys(t)
           /\ (StartOf(t) # 0) <=> (St(t) # "init")
           /\ CommitAt(t) # 0 => St(t) \in {"committing", "committed", "aborted"} /\ Prewritten(t)
           /\ St(t) = "committing" => CommitAt(t) # 0
BY PercolatorAssumption, MaxTSAssumption
   DEF PInv, Typed, Oracle, TxnRec, StartOf, ForUpdateOf, CommitAt, St, Keys, CommitPrewritten

\* A transaction starts.
LEMMA BeginInv ==
    ASSUME PInv, NEW t \in Txn, Begin(t)
    PROVE  PInv'
<1> DEFINE x == [txn[t] EXCEPT !.st = "active", !.startTS = now + 1]
<1>1. /\ txn[t].st = "init" /\ now < MaxTS /\ now' = now + 1 /\ txn' = [txn EXCEPT ![t] = x]
      /\ UNCHANGED <<lock, write, waitFor, msgs, resps, known, reader>>
  BY DEF Begin, GetTS, storeVars
<1>2. /\ x \in TxnRec /\ x.st = "active" /\ x.startTS = now + 1
      /\ x.forUpdateTS = ForUpdateOf(t) /\ x.commitTS = CommitAt(t)
  <2>1. now + 1 \in 0 .. MaxTS
    BY <1>1, TxnRecOf, MaxTSAssumption
  <2> QED  BY <1>1, <2>1, TxnRecOf DEF TxnRec, TxnState
<1> HIDE DEF x
<1>3. /\ Stamped(t, x) /\ CommitAt(t) = 0 /\ St(t) = "init" /\ now' \in 0 .. MaxTS /\ now + 1 # 0
  BY <1>1, <1>2, TxnRecOf, MaxTSAssumption DEF Stamped
<1>4. msgs \subseteq Msg
  BY TxnRecOf
<1> QED  BY <1>1, <1>2, <1>3, <1>4, ClientStep

\* A statement of a pessimistic transaction locks its keys.
LEMMA LockKeysInv ==
    ASSUME PInv, NEW t \in Txn, NEW K, LockKeys(t, K)
    PROVE  PInv'
<1> DEFINE x == [txn[t] EXCEPT !.st = "locking", !.forUpdateTS = now + 1, !.stmts = @ + 1]
           old == txn[t].forUpdateTS
<1>1. /\ t \in Pessimistic /\ txn[t].st \in {"active", "locking"}
      /\ now < MaxTS /\ now' = now + 1 /\ txn' = [txn EXCEPT ![t] = x]
      /\ UNCHANGED <<lock, write, waitFor, resps, known, reader>>
      /\ msgs' = msgs
           \cup {[type |-> "pessimisticLock", txn |-> t, keys |-> K \cap In(g), ts |-> now'] :
                      g \in Regions(K)}
           \cup {[type |-> "pessimisticRollback", txn |-> t, keys |-> m.keys, ts |-> old] :
                      m \in {m \in msgs : m.type = "pessimisticLock" /\ m.txn = t /\ m.ts = old}}
  BY DEF LockKeys, GetTS, storeVars
<1>2. /\ x \in TxnRec /\ x.st = "locking" /\ x.startTS = StartOf(t)
      /\ x.forUpdateTS = now + 1 /\ x.commitTS = CommitAt(t)
  <2>1. now + 1 \in 0 .. MaxTS
    BY <1>1, TxnRecOf, MaxTSAssumption
  <2>2. txn[t].stmts \in Nat /\ txn[t].stmts + 1 \in Nat
    BY TxnRecOf DEF TxnRec
  <2>3. txn[t] \in TxnRec
    BY TxnRecOf
  <2>4. x = [txn[t] EXCEPT !.st = "locking", !.forUpdateTS = now + 1,
                           !.stmts = txn[t].stmts + 1]
    OBVIOUS
  <2> HIDE DEF x
  <2>5. x \in TxnRec /\ x.st = "locking" /\ x.startTS = txn[t].startTS
        /\ x.forUpdateTS = now + 1 /\ x.commitTS = txn[t].commitTS
    BY <2>1, <2>2, <2>3, <2>4 DEF TxnRec, TxnState
  <2> QED  BY <2>5, TxnRecOf
<1> HIDE DEF x
<1>3. /\ CommitAt(t) = 0 /\ StartOf(t) # 0 /\ St(t) \notin {"init", "aborted", "committed"}
      /\ now' \in 0 .. MaxTS /\ Stamped(t, x)
  BY <1>1, <1>2, TxnRecOf, MaxTSAssumption DEF Stamped
<1>4. StartOf(t)' = StartOf(t) /\ ForUpdateOf(t)' = now'
  BY <1>1, <1>2 DEF PInv, Typed, StartOf, ForUpdateOf
<1>5. ASSUME NEW m \in msgs', m \notin msgs
      PROVE  m \in Msg /\ MsgOK(m)'
  <2>1. CASE \E g \in Regions(K) :
               m = [type |-> "pessimisticLock", txn |-> t, keys |-> K \cap In(g), ts |-> now']
    <3>1. /\ m \in Msg /\ m.type = "pessimisticLock" /\ m.txn = t /\ m.ts = now'
      BY <1>3, <2>1 DEF Msg, MsgType, In
    <3>2. m.ts <= now'
      BY <1>3, <3>1
    <3> QED  BY <1>1, <1>3, <1>4, <3>1, <3>2 DEF MsgOK
  <2>2. CASE \E n \in msgs :
               m = [type |-> "pessimisticRollback", txn |-> t, keys |-> n.keys, ts |-> old]
    <3>1. /\ m \in Msg /\ m.type = "pessimisticRollback" /\ m.txn = t
      BY <2>2, TxnRecOf DEF Msg, MsgType, TxnRec
    <3> QED  BY <1>3, <1>4, <3>1 DEF MsgOK
  <2> QED  BY <1>1, <1>5, <2>1, <2>2
<1>6. msgs \subseteq msgs' /\ msgs' \subseteq Msg
  BY <1>1, <1>5, TxnRecOf
<1> QED  BY <1>1, <1>2, <1>3, <1>5, <1>6, ClientStep

\* The client prewrites all its keys.
LEMMA SendPrewriteInv ==
    ASSUME PInv, NEW t \in Txn, SendPrewrite(t)
    PROVE  PInv'
<1> DEFINE x == [txn[t] EXCEPT !.st = "prewriting"]
<1>1. /\ txn[t].st \in {"active", "locking"} /\ txn' = [txn EXCEPT ![t] = x]
      /\ UNCHANGED <<now, lock, write, waitFor, resps, known, reader>>
      /\ msgs' = msgs \cup
           {[type |-> "prewrite", txn |-> t, keys |-> Keys(t) \cap In(g), ts |-> 0] :
              g \in Regions(Keys(t))}
  BY DEF SendPrewrite, storeVars
<1>2. /\ x \in TxnRec /\ x.st = "prewriting" /\ x.startTS = StartOf(t)
      /\ x.forUpdateTS = ForUpdateOf(t) /\ x.commitTS = CommitAt(t)
  BY <1>1, TxnRecOf DEF TxnRec, TxnState
<1> HIDE DEF x
<1>3. /\ CommitAt(t) = 0 /\ StartOf(t) # 0 /\ St(t) \notin {"init", "aborted", "committed"}
      /\ now' \in 0 .. MaxTS /\ Stamped(t, x)
  BY <1>1, <1>2, TxnRecOf DEF Stamped
<1>4. StartOf(t)' = StartOf(t)
  BY <1>1, <1>2 DEF PInv, Typed, StartOf
<1>5. ASSUME NEW m \in msgs', m \notin msgs
      PROVE  m \in Msg /\ MsgOK(m)'
  <2>1. /\ m.type = "prewrite" /\ m.txn = t /\ m.keys \subseteq Keys(t) /\ m \in Msg
    BY <1>1, <1>5, MaxTSAssumption DEF Msg, MsgType, In
  <2> QED  BY <1>3, <1>4, <2>1 DEF MsgOK, Keys
<1>6. msgs \subseteq msgs' /\ msgs' \subseteq Msg
  BY <1>1, <1>5, TxnRecOf
<1> QED  BY <1>1, <1>2, <1>3, <1>5, <1>6, ClientStep

\* A commit message that carries the commit timestamp its client holds.
LEMMA CommitMsgOK ==
    ASSUME NEW t \in Txn, NEW g \in Regions(Keys(t)), StartOf(t)' # 0, CommitAt(t)' # 0,
           CommitAt(t)' \in 0 .. MaxTS, PrimaryKey[t] \in Keys(t), Keys(t) \subseteq Key,
           g = PrimaryRegion(t) \/ St(t)' = "committed"
    PROVE  \A m : m = CommitMsg(t, g, CommitAt(t)') => m \in Msg /\ MsgOK(m)'
<1> SUFFICES ASSUME NEW m, m = CommitMsg(t, g, CommitAt(t)')
             PROVE  m \in Msg /\ MsgOK(m)'
  OBVIOUS
<1>1. /\ m.type = "commit" /\ m.txn = t /\ m.keys = Keys(t) \cap In(g) /\ m.ts = CommitAt(t)'
      /\ m \in Msg
  BY DEF CommitMsg, Msg, MsgType, In
<1>2. g = PrimaryRegion(t) => PrimaryKey[t] \in m.keys
  BY <1>1 DEF PrimaryRegion, In
<1>3. \E h \in Regions(Keys(t)) : m.keys = Keys(t) \cap In(h)
  BY <1>1
<1> QED  BY <1>1, <1>2, <1>3 DEF MsgOK, Keys, Regions, In

\* The commit timestamp is fresh; an earlier one was refused for good.
LEMMA SendCommitInv ==
    ASSUME PInv, NEW t \in Txn, SendCommit(t)
    PROVE  PInv'
<1> DEFINE x == [txn[t] EXCEPT !.st = "committing", !.commitTS = now + 1]
           a == [type |-> "commitTSExpired", txn |-> t, ts |-> CommitAt(t)]
           p == PrimaryKey[t]
<1>1. /\ \/ txn[t].st = "prewriting" /\ Prewritten(t)
         \/ txn[t].st = "committing" /\ a \in resps
      /\ now < MaxTS /\ now' = now + 1 /\ txn' = [txn EXCEPT ![t] = x]
      /\ UNCHANGED <<lock, write, waitFor, resps, known, reader>>
      /\ msgs' = msgs \cup {CommitMsg(t, PrimaryRegion(t), now')}
  BY DEF SendCommit, GetTS, storeVars, CommitAt
<1>2. /\ x \in TxnRec /\ x.st = "committing" /\ x.startTS = StartOf(t)
      /\ x.forUpdateTS = ForUpdateOf(t) /\ x.commitTS = now + 1
  <2>1. now + 1 \in 0 .. MaxTS
    BY <1>1, TxnRecOf, MaxTSAssumption
  <2> QED  BY <1>1, <2>1, TxnRecOf DEF TxnRec, TxnState
<1>3. StartOf(t) # 0 /\ p \in Key
  BY <1>1, TxnRecOf
<1>4. Prewritten(t) /\ (CommitAt(t) = 0 \/ a \in resps)
  <2>1. CASE txn[t].st = "prewriting"
    BY <1>1, <2>1, TxnRecOf
  <2>2. CASE txn[t].st = "committing" /\ a \in resps
    BY <2>2, TxnRecOf
  <2> QED  BY <1>1, <2>1, <2>2
<1>5. \A k \in Key : CommittedOn(t, k) = {}
  <2>1. CASE CommitAt(t) = 0
    BY <1>3, <2>1, CommittedAtOf
  <2>2. CASE a \in resps
    <3>1. RespOK(a) /\ a.type = "commitTSExpired" /\ a.txn = t /\ a.ts = CommitAt(t)
      BY <2>2 DEF PInv
    <3> HIDE DEF a
    <3>2. \A w \in CommittedOn(t, p) : w.commitTS # CommitAt(t)
      BY <3>1 DEF RespOK
    <3>3. CommittedOn(t, p) = {}
      BY <1>3, <3>2, CommittedAtOf
    <3> QED  BY <3>3, TxnRecOf DEF Decided
  <2> QED  BY <1>4, <2>1, <2>2
<1> HIDE DEF x, a
<1>6. St(t) \notin {"init", "aborted", "committed"} /\ now' \in 0 .. MaxTS /\ now + 1 # 0
  BY <1>1, TxnRecOf, MaxTSAssumption
<1>7. Stamped(t, x)
  BY <1>1, <1>2, <1>3, <1>4, <1>5, <1>6 DEF Stamped, a
<1>8. StartOf(t)' = StartOf(t) /\ CommitAt(t)' = now'
  BY <1>1, <1>2 DEF PInv, Typed, StartOf, CommitAt
<1>9. \A m \in msgs' \ msgs : m \in Msg /\ MsgOK(m)'
  <2>1. PrimaryRegion(t) \in Regions(Keys(t))
    BY TxnRecOf DEF PrimaryRegion, Regions
  <2> QED  BY <1>1, <1>3, <1>6, <1>8, <2>1, CommitMsgOK, TxnRecOf
<1>10. msgs \subseteq msgs' /\ msgs' \subseteq Msg
  BY <1>1, <1>9, TxnRecOf
<1> QED  BY <1>1, <1>2, <1>3, <1>4, <1>6, <1>7, <1>9, <1>10, ClientStep

\* The primary is committed and the secondaries follow.
LEMMA CommitAckedInv ==
    ASSUME PInv, NEW t \in Txn, CommitAcked(t)
    PROVE  PInv'
<1> DEFINE x == [txn[t] EXCEPT !.st = "committed"]
           a == [type |-> "commit", txn |-> t, ts |-> CommitAt(t)]
<1>1. /\ txn[t].st = "committing" /\ a \in resps /\ txn' = [txn EXCEPT ![t] = x]
      /\ UNCHANGED <<now, lock, write, waitFor, resps, known, reader>>
      /\ msgs' = msgs \cup {CommitMsg(t, g, CommitAt(t)) :
                              g \in Regions(Keys(t)) \ {PrimaryRegion(t)}}
  BY DEF CommitAcked, storeVars, CommitAt
<1>2. /\ x \in TxnRec /\ x.st = "committed" /\ x.startTS = StartOf(t)
      /\ x.forUpdateTS = ForUpdateOf(t) /\ x.commitTS = CommitAt(t)
  BY <1>1, TxnRecOf DEF TxnRec, TxnState
<1>3. /\ StartOf(t) # 0 /\ St(t) \notin {"init", "aborted", "committed"}
      /\ now' \in 0 .. MaxTS /\ Stamped(t, x)
  BY <1>1, <1>2, TxnRecOf DEF Stamped
<1>4. CommittedOn(t, PrimaryKey[t]) # {}
  <2>1. RespOK(a) /\ a.type = "commit" /\ a.txn = t
    BY <1>1 DEF PInv
  <2> HIDE DEF a
  <2> QED  BY <2>1 DEF RespOK
<1>5. CommitAt(t) # 0 /\ Prewritten(t)
  BY <1>3, <1>4, CommittedAtOf, TxnRecOf
<1> HIDE DEF x, a
<1>6. StartOf(t)' = StartOf(t) /\ CommitAt(t)' = CommitAt(t) /\ St(t)' = "committed"
  BY <1>1, <1>2 DEF PInv, Typed, StartOf, CommitAt, St
<1>7. \A m \in msgs' \ msgs : m \in Msg /\ MsgOK(m)'
  BY <1>1, <1>3, <1>5, <1>6, CommitMsgOK, TxnRecOf DEF TxnRec
<1>8. msgs \subseteq msgs' /\ msgs' \subseteq Msg
  BY <1>1, <1>7, TxnRecOf
<1> QED  BY <1>1, <1>2, <1>3, <1>4, <1>5, <1>7, <1>8, ClientStep

\* A client gives up only what is not decided for a commit.
LEMMA AbortInv ==
    ASSUME PInv, NEW t \in Txn, Abort(t)
    PROVE  PInv'
<1> DEFINE x == [txn[t] EXCEPT !.st = "aborted"]
           a == [type |-> "txnNotFound", txn |-> t, ts |-> CommitAt(t)]
<1>1. /\ \/ txn[t].st \in {"active", "locking", "prewriting"}
         \/ txn[t].st = "committing" /\ a \in resps
      /\ txn' = [txn EXCEPT ![t] = x]
      /\ UNCHANGED <<now, lock, write, waitFor, resps, known, reader>>
      /\ msgs' = msgs \cup
           {[type |-> "rollback", txn |-> t, keys |-> Keys(t) \cap In(g), ts |-> 0] :
              g \in Regions(Keys(t))}
  BY DEF Abort, storeVars, CommitAt
<1>2. /\ x \in TxnRec /\ x.st = "aborted" /\ x.startTS = StartOf(t)
      /\ x.forUpdateTS = ForUpdateOf(t) /\ x.commitTS = CommitAt(t)
  BY <1>1, TxnRecOf DEF TxnRec, TxnState
<1>3. /\ StartOf(t) # 0 /\ St(t) \notin {"init", "aborted", "committed"}
      /\ now' \in 0 .. MaxTS /\ Stamped(t, x)
      /\ CommitAt(t) # 0 => Prewritten(t)
  BY <1>1, <1>2, TxnRecOf DEF Stamped
<1>4. RolledBackOn(t, PrimaryKey[t]) \/ CommitAt(t) = 0
  <2>1. CASE txn[t].st \in {"active", "locking", "prewriting"}
    BY <2>1, TxnRecOf
  <2>2. CASE txn[t].st = "committing" /\ a \in resps
    <3>1. RespOK(a) /\ a.type = "txnNotFound" /\ a.txn = t
      BY <2>2 DEF PInv
    <3> HIDE DEF a
    <3> QED  BY <1>3, <3>1 DEF RespOK
  <2> QED  BY <1>1, <2>1, <2>2
<1> HIDE DEF x, a
<1>5. StartOf(t)' = StartOf(t) /\ St(t)' = "aborted"
  BY <1>1, <1>2 DEF PInv, Typed, StartOf, St
<1>6. ASSUME NEW m \in msgs', m \notin msgs
      PROVE  m \in Msg /\ MsgOK(m)'
  <2>1. /\ m.type = "rollback" /\ m.txn = t /\ m \in Msg
    BY <1>1, <1>6, MaxTSAssumption DEF Msg, MsgType, In
  <2> QED  BY <1>3, <1>5, <2>1 DEF MsgOK
<1>7. msgs \subseteq msgs' /\ msgs' \subseteq Msg
  BY <1>1, <1>6, TxnRecOf
<1> QED  BY <1>1, <1>2, <1>3, <1>4, <1>6, <1>7, ClientStep

-----------------------------------------------------------------------------
(* Every step keeps the invariant. *)

\* The handlers of rpc.go: each answer is true when it is given.
LEMMA HandleInv ==
    ASSUME PInv, NEW m \in msgs, Handle(m)
    PROVE  PInv' /\ StoreStep(m.txn)
<1> DEFINE t == m.txn
<1>0. /\ UNCHANGED <<now, txn, msgs, known, reader>>
      /\ t \in Txn /\ MsgOK(m) /\ StartOf(t) # 0 /\ StartOf(t)' # 0
  BY DEF Handle, PInv, Typed, Msg, MsgOK, StartOf
<1>1. ReadersTyped'
  BY <1>0 DEF PInv, ReadersTyped
<1>2. known' \ known = {}
  BY <1>0
<1>3. CASE HandlePrewrite(m)
  <2>1. m.type = "prewrite" /\ Prewrite(PrewriteRequest(m.txn, m.keys))
    BY <1>3 DEF HandlePrewrite
  <2>2. /\ StoreStep(t)
        /\ PrewriteOK(PrewriteRequest(m.txn, m.keys)) => \A k \in m.keys : k \in Key /\ Held(m.txn, k)'
    BY <1>0, <2>1, PrewriteStep
  <2>3. /\ resps \subseteq resps'
        /\ \A a \in resps' \ resps : a = m /\ PrewriteOK(PrewriteRequest(m.txn, m.keys))
    BY <1>3 DEF HandlePrewrite
  <2>4. ASSUME PrewriteOK(PrewriteRequest(m.txn, m.keys))
        PROVE  RespOK(m)'
    BY <1>0, <2>1, <2>2, <2>4 DEF RespOK
  <2> QED  BY <1>0, <1>1, <1>2, <2>2, <2>3, <2>4, StoreStepInv
<1>4. CASE HandlePessimisticLock(m)
  <2>1. m.type = "pessimisticLock" /\ PessimisticLock(PessimisticLockRequest(m.txn, m.keys, m.ts))
    BY <1>4 DEF HandlePessimisticLock
  <2>2. StoreStep(t)
    BY <1>0, <2>1, PessimisticLockStep
  <2>3. resps \subseteq resps' /\ \A a \in resps' \ resps : a = m
    BY <1>4 DEF HandlePessimisticLock
  <2>4. RespOK(m)'
    BY <1>0, <2>1 DEF RespOK
  <2> QED  BY <1>0, <1>1, <1>2, <2>2, <2>3, <2>4, StoreStepInv
<1>5. CASE HandlePessimisticRollback(m)
  <2>1. PessimisticRollback(m.keys, StartOf(t), m.ts) /\ resps' = resps
    BY <1>5 DEF HandlePessimisticRollback, StartOf
  <2>2. StoreStep(t)
    BY <1>0, <2>1, PessimisticRollbackStep
  <2> QED  BY <1>0, <1>1, <1>2, <2>1, <2>2, StoreStepInv
<1>6. CASE HandleCommit(m)
  <2> DEFINE s == StartOf(t)
             failed == {k \in m.keys : CommitError(k, s, m.ts) # "ok"}
             answers == IF failed = {} THEN {"commit"}
                        ELSE {CommitError(k, s, m.ts) : k \in failed}
             kind(answer) == CASE answer = "commit" -> "commit"
                               [] answer = "TxnNotFound" -> "txnNotFound"
                               [] OTHER -> "commitTSExpired"
  <2>1. m.type = "commit" /\ Commit(m.keys, s, m.ts)
    BY <1>6 DEF HandleCommit, StartOf
  <2>2. PICK answer \in answers : resps' = resps \cup {[type |-> kind(answer), txn |-> t, ts |-> m.ts]}
    BY <1>6 DEF HandleCommit, StartOf
  <2>3. /\ StoreStep(t)
        /\ CommitOK(m.keys, s, m.ts) => CommittedOn(t, PrimaryKey[t])' # {}
    BY <1>0, <2>1, CommitStep
  <2>4. ASSUME failed = {}
        PROVE  \A a : a = [type |-> kind(answer), txn |-> t, ts |-> m.ts] => RespOK(a)'
    <3>1. CommittedOn(t, PrimaryKey[t])' # {} /\ answer = "commit"
      BY <2>2, <2>3, <2>4 DEF CommitOK
    <3>2. kind(answer) = "commit"
      BY <3>1
    <3> HIDE DEF kind
    <3> QED  BY <1>0, <3>1, <3>2 DEF RespOK
  <2>5. ASSUME NEW k \in failed, answer = CommitError(k, s, m.ts)
        PROVE  \A a : a = [type |-> kind(answer), txn |-> t, ts |-> m.ts] => RespOK(a)'
    <3>1. answer # "ok" /\ answer # "commit"
      BY <2>5 DEF CommitError
    <3>2. kind(answer) = IF CommitError(k, s, m.ts) = "TxnNotFound" THEN "txnNotFound"
                         ELSE "commitTSExpired"
      BY <2>5, <3>1
    <3> HIDE DEF kind
    <3> QED  BY <1>0, <2>1, <2>5, <3>1, <3>2, CommitAnswer
  <2>6. \A a \in resps' \ resps : RespOK(a)'
    BY <2>2, <2>4, <2>5
  <2> QED  BY <1>0, <1>1, <1>2, <2>2, <2>3, <2>6, StoreStepInv
<1>7. CASE HandleRollback(m)
  <2>1. Rollback(m.keys, StartOf(t)) /\ resps' = resps /\ St(t) = "aborted"
    BY <1>0, <1>7 DEF HandleRollback, StartOf, MsgOK
  <2>2. StoreStep(t)
    BY <1>0, <2>1, RollbackStep
  <2> QED  BY <1>0, <1>1, <1>2, <2>1, <2>2, StoreStepInv
<1> QED  BY <1>3, <1>4, <1>5, <1>6, <1>7 DEF Handle

\* The TTL manager's heartbeat.
LEMMA HeartBeatInv ==
    ASSUME PInv, NEW t \in Txn, HeartBeat(t)
    PROVE  PInv' /\ StoreStep(t)
<1> DEFINE ttl == ExtractPhysical(now) - ExtractPhysical(StartOf(t)) + TTL
<1>1. /\ St(t) # "init" /\ TxnHeartBeat(PrimaryKey[t], StartOf(t), ttl)
      /\ UNCHANGED <<now, txn, msgs, resps, known, reader>>
  BY DEF HeartBeat, StartOf, St
<1>2. StartOf(t) # 0 /\ now \in Nat /\ StartOf(t) \in Nat
  BY <1>1, TxnRecOf, TxnTypes DEF PInv
<1>3. ttl \in Int
  BY <1>2, LogicalAssumption, PercolatorAssumption DEF ExtractPhysical
<1> HIDE DEF ttl
<1>4. StoreStep(t)
  BY <1>1, <1>2, <1>3, HeartBeatStep
<1>5. ReadersTyped'
  BY <1>1 DEF PInv, ReadersTyped
<1> QED  BY <1>1, <1>4, <1>5, StoreStepInv

\* A resolver asks the primary of a transaction.
LEMMA CheckTxnInv ==
    ASSUME PInv, NEW t \in Txn, CheckTxn(t)
    PROVE  PInv' /\ StoreStep(t)
<1> DEFINE p == PrimaryKey[t]
           s == StartOf(t)
<1>1. /\ s # 0 /\ UNCHANGED <<now, txn, msgs, resps, reader>>
      /\ \E rb : CheckTxnStatus(p, s, 0, now, rb) /\ Learn(p, s, TxnStatus(p, s, 0, now, rb))
  BY DEF CheckTxn, StartOf
<1>2. PICK rb : CheckTxnStatus(p, s, 0, now, rb) /\ Learn(p, s, TxnStatus(p, s, 0, now, rb))
  BY <1>1
<1>3. StoreStep(t) /\ \A o \in known' \ known : KnownOK(o)'
  BY <1>1, <1>2, CheckTxnStatusStep, TxnRecOf
<1>4. ReadersTyped'
  BY <1>1 DEF PInv, ReadersTyped
<1> QED  BY <1>1, <1>3, <1>4, StoreStepInv

\* A blocked reader asks the primary of the lock it met.
LEMMA CheckBlockingInv ==
    ASSUME PInv, NEW r \in AnyReader, NEW k \in Key, CheckBlocking(r, k)
    PROVE  PInv' /\ \E t \in Txn : StoreStep(t)
<1> DEFINE l == lock[k]
           rb == Expired(l, now)
           status == TxnStatus(l.primary, l.startTS, reader[r].ts, now, rb)
<1>1. /\ ReadBlocked(k, reader[r].ts, reader[r].resolved)
      /\ CheckTxnStatus(l.primary, l.startTS, reader[r].ts, now, rb)
      /\ Learn(l.primary, l.startTS, status)
      /\ reader' = IF status = "MinCommitTSPushed"
                   THEN [reader EXCEPT ![r].resolved = @ \cup {l.startTS}] ELSE reader
      /\ UNCHANGED <<now, txn, msgs, resps>>
  BY DEF CheckBlocking
<1>2. PICK t \in Txn : StartOf(t) # 0 /\ l.startTS = StartOf(t) /\ l.primary = PrimaryKey[t]
  BY <1>1 DEF ReadBlocked, MindsLock, PInv, KeyInv, LockShape
<1>3. reader[r].ts \in Nat /\ now \in Nat
  BY <1>2, TxnRecOf DEF PInv, ReadersTyped
<1> HIDE DEF rb
<1>4. StoreStep(t) /\ \A o \in known' \ known : KnownOK(o)'
  BY <1>1, <1>2, <1>3, CheckTxnStatusStep
<1>5. ReadersTyped'
  <2>0. ReadersTyped
    BY DEF PInv
  <2>1. CASE reader' = reader
    BY <2>0, <2>1 DEF ReadersTyped
  <2>2. CASE \E S : reader' = [reader EXCEPT ![r].resolved = S]
    BY <2>0, <2>2 DEF ReadersTyped
  <2> QED  BY <1>1, <2>1, <2>2
<1> QED  BY <1>1, <1>4, <1>5, StoreStepInv

\* A resolver settles the locks of a region.
LEMMA ResolveRegionInv ==
    ASSUME PInv, NEW g, NEW o \in known, ResolveRegion(g, o)
    PROVE  PInv' /\ \E t \in Txn : StoreStep(t)
<1>1. ResolveLock(In(g), o[1], o[2]) /\ UNCHANGED <<now, txn, msgs, resps, known, reader>>
  BY DEF ResolveRegion
<1>2. PICK t \in Txn : StoreStep(t)
  BY <1>1, ResolveStep
<1>3. ReadersTyped'
  BY <1>1 DEF PInv, ReadersTyped
<1> QED  BY <1>1, <1>2, <1>3, StoreStepInv

\* Readers take a snapshot and read, time passes.
LEMMA ReaderInv ==
    ASSUME PInv,
           \/ Tick
           \/ \E r \in AnyReader : ReadBegin(r) \/ \E k \in ReadKeys[r] : ReadKey(r, k)
           \/ UNCHANGED vars
    PROVE  PInv'
<1>0. now \in 0 .. MaxTS /\ now \in Nat /\ MaxTS \in Nat /\ ReadersTyped
  BY MaxTSAssumption DEF PInv, Typed
<1>1. CASE Tick
  BY <1>0, <1>1, QuietStep DEF Tick, GetTS, storeVars, ReadersTyped
<1>2. CASE \E r \in AnyReader : ReadBegin(r)
  <2>1. PICK r \in AnyReader : ReadBegin(r)
    BY <1>2
  <2>2. /\ UNCHANGED <<lock, write, waitFor, txn, msgs, resps, known>>
        /\ \/ now < MaxTS /\ now' = now + 1 /\ reader' = [reader EXCEPT ![r].ts = now']
           \/ /\ now' = now
              /\ \E A : reader' = [reader EXCEPT ![r].ts = MaxUint64, ![r].acked = A]
    BY <2>1 DEF ReadBegin, GetTS, storeVars
  <2>3. now' \in {now, now + 1} /\ now' \in 0 .. MaxTS /\ now' \in Nat /\ MaxUint64 \in Nat
    BY <1>0, <2>2 DEF MaxUint64
  <2>4. ReadersTyped'
    BY <1>0, <2>2, <2>3 DEF ReadersTyped
  <2> QED  BY <2>2, <2>3, <2>4, QuietStep
<1>3. CASE \E r \in AnyReader : \E k \in ReadKeys[r] : ReadKey(r, k)
  <2>0. PICK r \in AnyReader : \E k \in ReadKeys[r] : ReadKey(r, k)
    BY <1>3
  <2>1. PICK k \in ReadKeys[r] : ReadKey(r, k)
    BY <2>0
  <2>2. /\ UNCHANGED <<lock, write, waitFor, now, txn, msgs, resps, known>>
        /\ reader' = [reader EXCEPT ![r].val[k] = GetValue(k, reader[r].ts)]
    BY <2>1 DEF ReadKey, storeVars
  <2>3. ReadersTyped'
    BY <1>0, <2>2, SMTT(30) DEF ReadersTyped
  <2> QED  BY <1>0, <2>2, <2>3, QuietStep
<1>4. CASE UNCHANGED vars
  BY <1>0, <1>4, QuietStep DEF vars, ReadersTyped
<1> QED  BY <1>1, <1>2, <1>3, <1>4

\* The invariant holds in the beginning.
LEMMA InitPInv == Init => PInv
<1> SUFFICES ASSUME Init
             PROVE  PInv
  OBVIOUS
<1>0. MaxTS \in Nat /\ MaxTS > 0 /\ (Loaded # {} => MaxTS > 2) /\ Loaded \subseteq Key
  BY MaxTSAssumption, PercolatorAssumption
<1>1. Typed
  BY <1>0 DEF Init, Typed, StoreTypeOK, WriteRec, ValueType, TS, TxnState
<1>2. ReadersTyped
  BY DEF Init, ReadersTyped
<1>3. \A t \in Txn : StartOf(t) = 0 /\ CommitAt(t) = 0 /\ ForUpdateOf(t) = 0 /\ St(t) = "init"
  BY DEF Init, StartOf, CommitAt, ForUpdateOf, St
<1>4. \A t \in Txn : \A k : Outcome(t, k) = {} /\ CommittedOn(t, k) = {} /\ ~RolledBackOn(t, k)
  BY <1>3 DEF Outcome, CommittedOn, RolledBackOn, StartOf
<1>5. now \in Nat /\ (Loaded # {} => now >= 2)
  BY DEF Init
<1>6. Oracle
  BY <1>3, <1>5 DEF Oracle
<1>7. ASSUME NEW k \in Key
      PROVE  KeyInv(k)
  <2>1. lock[k] = NoLock /\ write[k] = IF k \in Loaded THEN {InitialRec} ELSE {}
    BY DEF Init, InitialRec
  <2> QED  BY <1>3, <1>4, <2>1 DEF KeyInv, LockShape, RecShape, LockSeen, SeenBefore
<1>8. \A t \in Txn : Decided(t)
  BY <1>3, <1>4 DEF Decided
<1>9. CommitPrewritten
  BY <1>3 DEF CommitPrewritten
<1>10. msgs = {} /\ resps = {} /\ known = {}
  BY DEF Init
<1> QED  BY <1>1, <1>2, <1>6, <1>7, <1>8, <1>9, <1>10 DEF PInv

\* Every step keeps the invariant.
LEMMA StepPInv == PInv /\ [Next]_vars => PInv'
<1> SUFFICES ASSUME PInv, [Next]_vars
             PROVE  PInv'
  OBVIOUS
<1>1. ASSUME NEW t \in Txn,
             \/ Begin(t) \/ SendPrewrite(t) \/ SendCommit(t) \/ CommitAcked(t)
             \/ Abort(t) \/ HeartBeat(t) \/ CheckTxn(t)
             \/ \E K \in LockSets[t] : LockKeys(t, K)
      PROVE  PInv'
  BY <1>1, BeginInv, SendPrewriteInv, SendCommitInv, CommitAckedInv, AbortInv, HeartBeatInv,
     CheckTxnInv, LockKeysInv
<1>2. ASSUME NEW m \in msgs, Handle(m)
      PROVE  PInv'
  BY <1>2, HandleInv
<1>3. ASSUME NEW r \in AnyReader, NEW k \in ReadKeys[r], CheckBlocking(r, k)
      PROVE  PInv'
  <2>1. k \in Key
    BY PercolatorAssumption DEF AnyReader
  <2> QED  BY <1>3, <2>1, CheckBlockingInv
<1>4. ASSUME NEW g \in Region, NEW o \in known, ResolveRegion(g, o)
      PROVE  PInv'
  BY <1>4, ResolveRegionInv
<1>5. CASE \/ Tick
           \/ \E r \in AnyReader : ReadBegin(r) \/ \E k \in ReadKeys[r] : ReadKey(r, k)
           \/ UNCHANGED vars
  BY <1>5, ReaderInv
<1> QED  BY <1>1, <1>2, <1>3, <1>4, <1>5 DEF Next

-----------------------------------------------------------------------------
(* Theorems. *)

\* PInv holds throughout: however requests, resolvers and clients interleave,
\* the primary key of a transaction decides its outcome on every key.
THEOREM PInvHolds == Spec => []PInv
BY InitPInv, StepPInv, PTL DEF Spec

\* A transaction commits on all its keys at one timestamp or on none, for any
\* number of transactions, keys, regions and requests in flight: Commit, Rollback,
\* CheckTxnStatus and ResolveLock never disagree about it.
THEOREM CommitAtomicHolds == Spec => []CommitAtomic
<1>1. PInv => CommitAtomic
  <2> SUFFICES ASSUME PInv, NEW t \in Txn, NEW k \in Key, NEW j \in Key,
                      NEW w \in CommittedOn(t, k), NEW x \in Outcome(t, j)
               PROVE  x.type # "Rollback" /\ x.commitTS = w.commitTS
    BY DEF CommitAtomic
  <2> DEFINE p == PrimaryKey[t]
  <2>0. Decided(t) /\ p \in Key /\ KeyInv(p) /\ StartOf(t) # 0
    BY PercolatorAssumption DEF PInv, CommittedOn, Outcome, StartOf
  <2>1. w.commitTS = CommitAt(t) /\ CommitAt(t) # 0 /\ CommittedOn(t, p) # {}
    BY <2>0, CommittedAtOf DEF Decided
  <2>2. ~RolledBackOn(t, p)
    BY <2>0, <2>1 DEF KeyInv, RolledBackOn, CommittedOn, Outcome
  <2>3. ~RolledBackOn(t, j)
    BY <2>0, <2>1, <2>2 DEF Decided
  <2>4. x \in CommittedOn(t, j) /\ x.type # "Rollback"
    BY <2>3 DEF RolledBackOn, CommittedOn
  <2> QED  BY <2>0, <2>1, <2>4, CommittedAtOf
<1> QED  BY <1>1, PInvHolds, PTL

\* An acknowledged commit is never lost: no rollback, expired TTL or resolver
\* takes the lock or the record of a committed transaction's key away.
THEOREM AckedDurableHolds == Spec => []AckedDurable
<1>1. PInv => AckedDurable
  <2> SUFFICES ASSUME PInv, NEW t \in Txn, St(t) = "committed", NEW k \in Keys(t),
                      ~(HasLock(k, StartOf(t)) /\ lock[k].op # "PessimisticLock")
               PROVE  \E w \in CommittedOn(t, k) : w.commitTS = CommitAt(t)
    BY DEF AckedDurable, St, StartOf, CommitAt
  <2> DEFINE p == PrimaryKey[t]
             a == [type |-> "prewrite", txn |-> t, keys |-> Keys(t) \cap In(RegionOf[k]), ts |-> 0]
  <2>0. /\ Decided(t) /\ Oracle /\ p \in Key /\ k \in Key /\ KeyInv(p)
        /\ StartOf(t) # 0 /\ CommitAt(t) # 0 /\ Prewritten(t)
    BY PercolatorAssumption DEF PInv, Keys, Oracle, CommitPrewritten
  <2>1. a \in resps
    BY <2>0 DEF Prewritten, Regions
  <2>2. RespOK(a) /\ a.type = "prewrite" /\ a.txn = t /\ k \in a.keys
    BY <2>0, <2>1 DEF PInv, In
  <2> HIDE DEF a
  <2>3. Outcome(t, k) # {}
    BY <2>2 DEF RespOK, Held
  <2>4. CommittedOn(t, p) # {}
    BY <2>0 DEF Decided
  <2>5. ~RolledBackOn(t, p)
    BY <2>0, <2>4 DEF KeyInv, RolledBackOn, CommittedOn, Outcome
  <2>6. ~RolledBackOn(t, k)
    BY <2>0, <2>5 DEF Decided
  <2>7. CommittedOn(t, k) # {}
    BY <2>3, <2>6 DEF RolledBackOn, CommittedOn
  <2> QED  BY <2>0, <2>7, CommittedAtOf
<1> QED  BY <1>1, PInvHolds, PTL

\* A transaction reported as failed never takes effect: no commit request still
\* in flight finds a lock of it to commit.
THEOREM AbortedNeverCommitsHolds == Spec => []AbortedNeverCommits
<1>1. PInv => AbortedNeverCommits
  <2> SUFFICES ASSUME PInv, NEW t \in Txn, St(t) = "aborted", NEW k \in Key,
                      CommittedOn(t, k) # {}
               PROVE  FALSE
    BY DEF AbortedNeverCommits, St
  <2> DEFINE p == PrimaryKey[t]
  <2>0. Decided(t) /\ p \in Key /\ KeyInv(p) /\ StartOf(t) # 0
    BY PercolatorAssumption DEF PInv, CommittedOn, Outcome, StartOf
  <2>1. CommitAt(t) # 0 /\ CommittedOn(t, p) # {}
    BY <2>0, CommittedAtOf DEF Decided
  <2>2. RolledBackOn(t, p)
    BY <2>0, <2>1 DEF Decided
  <2> QED  BY <2>0, <2>1, <2>2 DEF KeyInv, RolledBackOn, CommittedOn, Outcome
<1> QED  BY <1>1, PInvHolds, PTL

\* No update is lost: checkConflictValue and the locks it leaves keep every
\* commit between what a transaction saw and its own commit off its keys.
THEOREM NoLostUpdateHolds == Spec => []NoLostUpdate
<1>1. PInv => NoLostUpdate
  <2> SUFFICES ASSUME PInv, NEW t \in Txn, NEW u \in Txn, NEW k \in Key,
                      NEW w \in CommittedOn(t, k), NEW x \in CommittedOn(u, k),
                      w.commitTS < x.commitTS
               PROVE  w.commitTS <= Seen(u)
    BY DEF NoLostUpdate, Seen, ForUpdateOf, StartOf
  <2>1. KeyInv(k) /\ w \in write[k] /\ w.type # "Rollback"
    BY DEF PInv, CommittedOn, Outcome
  <2> QED  BY <2>1 DEF KeyInv, SeenBefore
<1> QED  BY <1>1, PInvHolds, PTL

==============================================================================
