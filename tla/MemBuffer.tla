------------------------------ MODULE MemBuffer ------------------------------
(***************************************************************************)
(* memdb, the write buffer of a transaction: nodes with flags, a log of    *)
(* values in growing blocks, and a stack of checkpoints into that log.     *)
(* The search tree over the nodes is module RBTree; here it is the set of  *)
(* keys that have a node.  Addresses are (block, end offset) as in the     *)
(* code; what lies behind the end of a block is dropped, so that a stale   *)
(* address would be an evaluation error.  Values are integers written in   *)
(* decimal, of which only the length matters to the log.                   *)
(***************************************************************************)
EXTENDS Integers, FiniteSets, Sequences, SequencesExt

CONSTANTS
    BKey,           \* keys, integers (the order of iteration)
    BValue,         \* values, positive integers below 100
    FlagsOp,        \* the flag operations callers use
    KeyLen,         \* bytes of a key
    HdrSize,        \* memdbVlogHdrSize
    InitBlockSize,  \* initBlockSize
    MaxBlockSize,   \* maxBlockSize
    EntrySizeLimit, \* TxnEntrySizeLimit
    MaxLog,         \* bound: bytes of the value log
    MaxStages       \* bound: stages open at a time

ASSUME MemBufferAssumption ==
    /\ BKey \subseteq Nat
    /\ BValue \subseteq 1..99
    /\ KeyLen \in Nat \ {0} /\ HdrSize \in Nat \ {0}
    /\ InitBlockSize \in Nat \ {0} /\ MaxBlockSize \in Nat
    /\ HdrSize + 2 < MaxBlockSize

Tombstone == 0
NotExist == -1      \* ErrNotExist
NoValue == -2       \* a nil value: only the flags change
ValueLen(v) == IF v = Tombstone THEN 0 ELSE IF v < 10 THEN 1 ELSE 2

VARIABLE memdb

bufferVars == <<memdb>>

NullAddr == <<0, 0>>
FreshNode == [vptr |-> NullAddr, flags |-> {}]

newMemDB ==
    [nodes |-> <<>>, log |-> <<>>, blockSize |-> 0, stages |-> <<>>,
     count |-> 0, size |-> 0, dirty |-> FALSE, vlogInvalid |-> FALSE]

-----------------------------------------------------------------------------
(* Flags. *)

PersistentFlags == {"KeyLocked", "KeyLockedValExist"}

ApplyFlagsOp(f, op) ==
    CASE op = "SetPresumeKeyNotExists"     -> f \cup {"PresumeKNE", "NeedCheckExists"}
      [] op = "DelPresumeKeyNotExists"     -> f \ {"PresumeKNE", "NeedCheckExists"}
      [] op = "SetKeyLocked"               -> f \cup {"KeyLocked"}
      [] op = "DelKeyLocked"               -> f \ {"KeyLocked"}
      [] op = "SetKeyLockedValueExists"    -> f \cup {"KeyLockedValExist"}
      [] op = "SetKeyLockedValueNotExists" -> f \ {"KeyLockedValExist"}
      [] op = "DelNeedCheckExists"         -> f \ {"NeedCheckExists"}
      [] op = "SetNoNeedCommit"            -> f \cup {"NoNeedCommit"}

-----------------------------------------------------------------------------
(* The value log. *)

Entry(db, a) == db.log[a[1]].at[a[2]]
Addresses(db) == UNION {{<<b, o>> : o \in DOMAIN db.log[b].at} : b \in DOMAIN db.log}
EntrySize(v) == HdrSize + ValueLen(v)

Checkpoint(db) ==
    [blockSize |-> db.blockSize, blocks |-> Len(db.log),
     offset |-> IF db.log = <<>> THEN 0 ELSE Last(db.log).length]

SamePosition(c, d) == c.blocks = d.blocks /\ c.offset = d.offset

\* An address behind a checkpoint belongs to what was written since.
CanModify(cp, a) == a[1] > cp.blocks \/ (a[1] = cp.blocks /\ a[2] > cp.offset)

\* enlarge: the wish, doubled until it exceeds the request.
Doubled(size, wish) ==
    LET shifted[i \in 0 .. MaxBlockSize] == IF i = 0 THEN wish ELSE 2 * shifted[i - 1]
    IN  CHOOSE b \in {shifted[i] : i \in 0 .. MaxBlockSize} :
            b > size /\ \A i \in 0 .. MaxBlockSize : shifted[i] > size => b <= shifted[i]

Enlarge(db, size, wish) ==
    LET b == Doubled(size, wish)
        bs == IF b > MaxBlockSize THEN MaxBlockSize ELSE b
    IN [db EXCEPT !.blockSize = bs,
                  !.log = Append(@, [cap |-> bs, length |-> 0, at |-> <<>>])]

Fits(db, size) == Last(db.log).length + size <= Last(db.log).cap

\* alloc: in the last block, or in a new one of twice the size.
Alloc(db, size) ==
    LET db1 == IF db.log = <<>> THEN Enlarge(db, size, InitBlockSize) ELSE db
    IN IF Fits(db1, size) THEN db1 ELSE Enlarge(db1, size, db1.blockSize * 2)

\* appendValue, and the node that points at the new entry.
AppendValue(db, k, v) ==
    LET db1 == Alloc(db, EntrySize(v))
        b == Len(db1.log)
        end == db1.log[b].length + EntrySize(v)
        entry == [node |-> k, old |-> db1.nodes[k].vptr, value |-> v]
        at == db1.log[b].at
    IN [db1 EXCEPT
          !.log[b] = [cap |-> @.cap, length |-> end,
                      at |-> [o \in DOMAIN at \cup {end} |-> IF o = end THEN entry ELSE at[o]]],
          !.nodes[k].vptr = <<b, end>>]

MoveBackCursor(db, c) ==
    LET off == c[2] - EntrySize(Entry(db, c).value) IN
    IF off > 0 THEN <<c[1], off>>
    ELSE IF c[1] > 1 THEN <<c[1] - 1, db.log[c[1] - 1].length>>
    ELSE NullAddr

\* The walk from the end of the log back to a checkpoint, where it stays: where
\* the cursor is after each turn.  No entry is met twice.
EntriesSince(db, cp) ==
    LET tail == Checkpoint(db)
        head == <<cp.blocks, cp.offset>>
        at[n \in 0 .. Cardinality(Addresses(db))] ==
          IF n = 0 THEN <<tail.blocks, tail.offset>>
          ELSE IF at[n - 1] = head THEN head ELSE MoveBackCursor(db, at[n - 1])
    IN at

\* getSnapshotValue: the newest version that is not behind the checkpoint.
SnapshotValue(db, a, cp) ==
    LET version[b \in Addresses(db) \cup {NullAddr}] ==
          IF b = NullAddr THEN NotExist
          ELSE IF ~CanModify(cp, b) THEN Entry(db, b).value
          ELSE version[Entry(db, b).old]
    IN version[a]

-----------------------------------------------------------------------------
(* Reading. *)

BufferGet(db, k) ==
    IF k \notin DOMAIN db.nodes \/ db.nodes[k].vptr = NullAddr THEN NotExist
    ELSE Entry(db, db.nodes[k].vptr).value

GetSnapshot(db) == IF db.stages = <<>> THEN Checkpoint(db) ELSE db.stages[1]

\* memdbSnapGetter.Get
SnapshotGet(db, k, cp) ==
    IF k \notin DOMAIN db.nodes THEN NotExist ELSE SnapshotValue(db, db.nodes[k].vptr, cp)

\* The pairs of an iterator without flags: nodes that carry no value are skipped.
IterKeys(db, lo, hi) ==
    SetToSortSeq({k \in DOMAIN db.nodes : lo <= k /\ k < hi /\ db.nodes[k].vptr # NullAddr},
                 LAMBDA a, b : a < b)
Pairs(db, ks) == [i \in DOMAIN ks |-> <<ks[i], BufferGet(db, ks[i])>>]

\* memdbSnapIter: nodes without a version in the snapshot are skipped.
SnapshotIterKeys(db, lo, hi) ==
    SelectSeq(IterKeys(db, lo, hi), LAMBDA k : SnapshotGet(db, k, GetSnapshot(db)) # NotExist)

\* InspectStage: the turns of the walk back to the stage's checkpoint on which an
\* entry is reported; older versions are skipped.
InspectStage(db, h) ==
    LET at == EntriesSince(db, db.stages[h])
        head == <<db.stages[h].blocks, db.stages[h].offset>>
    IN {n \in DOMAIN at : at[n] # head /\ db.nodes[Entry(db, at[n]).node].vptr = at[n]}

-----------------------------------------------------------------------------
(* Writing. *)

\* traverse(key, true): a new node for a new key.
WithNode(db, k) ==
    IF k \in DOMAIN db.nodes THEN db
    ELSE [db EXCEPT !.nodes = [x \in DOMAIN @ \cup {k} |-> IF x = k THEN FreshNode ELSE @[x]],
                    !.count = @ + 1, !.size = @ + KeyLen]

\* Mutant: a value is overwritten in place though a checkpoint needs it.
SetValueInPlace(db, k, v) ==
    LET a == db.nodes[k].vptr
        oldLen == IF a = NullAddr THEN 0 ELSE ValueLen(Entry(db, a).value)
    IN IF oldLen > 0 /\ oldLen = ValueLen(v)
       THEN [db EXCEPT !.log[a[1]].at[a[2]].value = v]
       ELSE [AppendValue(db, k, v) EXCEPT !.size = @ - oldLen + ValueLen(v)]

\* setValue: values of the running stage are overwritten in place when they
\* have the same length.
SetValue(db, k, v) ==
    LET a == db.nodes[k].vptr
        oldLen == IF a = NullAddr THEN 0 ELSE ValueLen(Entry(db, a).value)
        mine == db.stages = <<>> \/ CanModify(Last(db.stages), a)
    IN IF oldLen > 0 /\ mine /\ oldLen = ValueLen(v)
       THEN [db EXCEPT !.log[a[1]].at[a[2]].value = v]
       ELSE [AppendValue(db, k, v) EXCEPT !.size = @ - oldLen + ValueLen(v)]

SetFlags(db, k, ops) ==
    LET flags == FoldLeft(ApplyFlagsOp, db.nodes[k].flags, ops)
    IN [db EXCEPT !.nodes[k].flags = flags,
                  !.dirty = @ \/ flags \cap PersistentFlags # {}]

\* set.  A buffer above its limit is reported after the value was written.
SetKV(db, k, v, ops) ==
    LET db1 == WithNode([db EXCEPT !.dirty = @ \/ db.stages = <<>>], k)
        db2 == IF ops = <<>> THEN db1 ELSE SetFlags(db1, k, ops)
    IN IF v = NoValue THEN db2 ELSE SetValue(db2, k, v)

\* deleteNode, as seen from outside the tree.
DropNode(db, k) ==
    [db EXCEPT !.nodes = [x \in DOMAIN @ \ {k} |-> @[x]], !.count = @ - 1, !.size = @ - KeyLen]

\* Mutant: the size of the value that comes back is forgotten.
UndoEntryNoSize(db, c) ==
    LET e == Entry(db, c)
        kept == db.nodes[e.node].flags \cap PersistentFlags
        db1 == [db EXCEPT !.nodes[e.node].vptr = e.old, !.size = @ - ValueLen(e.value)]
    IN IF e.old # NullAddr THEN db1
       ELSE IF kept = {} THEN DropNode(db1, e.node)
       ELSE [db1 EXCEPT !.nodes[e.node].flags = kept, !.dirty = TRUE]

\* One step of revertToCheckpoint.
UndoEntry(db, c) ==
    LET e == Entry(db, c)
        kept == db.nodes[e.node].flags \cap PersistentFlags
        db1 == [db EXCEPT !.nodes[e.node].vptr = e.old, !.size = @ - ValueLen(e.value)]
    IN IF e.old # NullAddr THEN [db1 EXCEPT !.size = @ + ValueLen(Entry(db, e.old).value)]
       ELSE IF kept = {} THEN DropNode(db1, e.node)
       ELSE [db1 EXCEPT !.nodes[e.node].flags = kept, !.dirty = TRUE]

\* The loop of revertToCheckpoint: undo the entry at the cursor, move back, until
\* the cursor is at the checkpoint.  No entry is met twice.
RevertToCheckpoint(db, cp) ==
    LET tail == Checkpoint(db)
        head == <<cp.blocks, cp.offset>>
        loop[n \in 0 .. Cardinality(Addresses(db))] ==
          IF n = 0 THEN [db |-> db, at |-> <<tail.blocks, tail.offset>>]
          ELSE IF loop[n - 1].at = head THEN loop[n - 1]
          ELSE [db |-> UndoEntry(loop[n - 1].db, loop[n - 1].at),
                at |-> MoveBackCursor(db, loop[n - 1].at)]
    IN loop[Cardinality(Addresses(db))].db

Truncate(db, cp) ==
    LET last == db.log[cp.blocks]
        kept == [cap |-> last.cap, length |-> cp.offset,
                 at |-> [o \in {x \in DOMAIN last.at : x <= cp.offset} |-> last.at[o]]]
    IN [db EXCEPT !.blockSize = cp.blockSize,
                  !.log = IF cp.blocks = 0 THEN <<>>
                          ELSE Append(SubSeq(db.log, 1, cp.blocks - 1), kept)]

-----------------------------------------------------------------------------
(* The operations. *)

BufferInit == memdb = newMemDB

LogSize(db) == FoldLeft(LAMBDA n, b : n + b.length, 0, db.log)
WithinBounds == LogSize(memdb') <= MaxLog

\* Set, SetWithFlags and Delete.
BufferSet(k, v, ops) ==
    /\ ~memdb.vlogInvalid
    /\ KeyLen + ValueLen(v) <= EntrySizeLimit
    /\ memdb' = SetKV(memdb, k, v, ops)
    /\ WithinBounds

UpdateFlags(k, op) ==
    /\ ~memdb.vlogInvalid
    /\ memdb' = SetKV(memdb, k, NoValue, <<op>>)

Staging ==
    /\ Len(memdb.stages) < MaxStages
    /\ memdb' = [memdb EXCEPT !.stages = Append(@, Checkpoint(memdb))]

\* Only the handle of the newest stage is accepted.
Release(h) ==
    /\ h = Len(memdb.stages)
    /\ memdb' = [memdb EXCEPT
                   !.dirty = @ \/ (h = 1 /\ ~SamePosition(memdb.stages[1], Checkpoint(memdb))),
                   !.stages = SubSeq(@, 1, h - 1)]

Cleanup(h) ==
    /\ h = Len(memdb.stages)
    /\ LET cp == memdb.stages[h]
           db == IF memdb.vlogInvalid THEN memdb
                 ELSE Truncate(RevertToCheckpoint(memdb, cp), cp)
       IN memdb' = [db EXCEPT !.stages = SubSeq(@, 1, h - 1)]

Reset == memdb # newMemDB /\ memdb' = newMemDB

DiscardValues ==
    /\ ~memdb.vlogInvalid
    /\ memdb' = [memdb EXCEPT !.vlogInvalid = TRUE, !.log = <<>>, !.blockSize = 0]

BufferNext ==
    \/ \E k \in BKey, v \in BValue \cup {Tombstone} : BufferSet(k, v, <<>>)
    \/ \E k \in BKey, v \in BValue, op \in FlagsOp : BufferSet(k, v, <<op>>)
    \/ \E k \in BKey, op \in FlagsOp : UpdateFlags(k, op)
    \/ Staging \/ Reset \/ DiscardValues
    \/ \E h \in 1..MaxStages : Release(h) \/ Cleanup(h)

BufferSpec == BufferInit /\ [][BufferNext]_bufferVars

-----------------------------------------------------------------------------
(* Properties. *)

Readable == ~memdb.vlogInvalid

\* The buffer implements StagedMap: overwriting in place, the chain of old
\* versions and the walk back through the blocks of the log together keep, for
\* every open stage, exactly the values the buffer had when the stage began
\* (Set, Staging, Release, Cleanup and the snapshots of memdb).
BufferNow == [k \in BKey |-> IF Readable THEN BufferGet(memdb, k) ELSE NotExist]
BufferSaved ==
    [i \in DOMAIN memdb.stages |->
        [k \in BKey |-> IF Readable THEN SnapshotGet(memdb, k, memdb.stages[i]) ELSE NotExist]]
Staged == INSTANCE StagedMap WITH
    SKey <- BKey, SValue <- BValue \cup {Tombstone}, SNone <- NotExist,
    cur <- BufferNow, saved <- BufferSaved

ImplementsStagedMap == Staged!SSpec

\* Len and Size agree with the contents: the sum of the keys and of the newest
\* values, however many versions were written, overwritten in place or undone.
SizeExact ==
    Readable =>
      LET length == [k \in DOMAIN memdb.nodes |->
                       IF BufferGet(memdb, k) = NotExist THEN 0 ELSE ValueLen(BufferGet(memdb, k))]
      IN  /\ memdb.count = Cardinality(DOMAIN memdb.nodes)
          /\ memdb.size = KeyLen * memdb.count
                + FoldSet(LAMBDA k, n : n + length[k], 0, DOMAIN memdb.nodes)

\* A buffer that says it is clean holds nothing that outlives its open stages:
\* no value from before the first stage and no persistent flag.
DirtyComplete ==
    (Readable /\ ~memdb.dirty) =>
      \A k \in DOMAIN memdb.nodes :
        /\ SnapshotGet(memdb, k, GetSnapshot(memdb)) = NotExist
        /\ memdb.nodes[k].flags \cap PersistentFlags = {}

\* InspectStage reports each key at most once, every key whose value is not the
\* one from before the stage, and always the newest value.
InspectExact ==
    Readable =>
      \A h \in DOMAIN memdb.stages :
        LET at == EntriesSince(memdb, memdb.stages[h])
            turns == InspectStage(memdb, h)
            keyAt(n) == Entry(memdb, at[n]).node
        IN /\ \A m, n \in turns : keyAt(m) = keyAt(n) => m = n
           /\ \A n \in turns : BufferGet(memdb, keyAt(n)) = Entry(memdb, at[n]).value
           /\ \A k \in DOMAIN memdb.nodes :
                BufferGet(memdb, k) # SnapshotGet(memdb, k, memdb.stages[h])
                  => \E n \in turns : keyAt(n) = k

\* All three: what the buffer says of itself, its size, whether it is dirty and
\* what a stage changed, is true after any sequence of writes, overwrites in
\* place, releases and undone stages (Size, Len, Dirty, InspectStage).
BufferBooks == SizeExact /\ DirtyComplete /\ InspectExact

=============================================================================
