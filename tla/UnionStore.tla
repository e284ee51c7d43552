------------------------------ MODULE UnionStore ------------------------------
(***************************************************************************)
(* unionStore: the reads of a transaction, its memory buffer laid over the *)
(* snapshot it began with; the merging iterator, the batch getter and the  *)
(* counters kept in decimal strings.                                       *)
(***************************************************************************)
EXTENDS MemBuffer

CONSTANTS
    Snap,           \* the snapshot: a function from some keys to values
    IncStep         \* the step of IncInt64

ASSUME UnionStoreAssumption ==
    /\ DOMAIN Snap \subseteq BKey
    /\ \A k \in DOMAIN Snap : Snap[k] \in BValue
    /\ IncStep \in Nat \ {0}

SnapGet(k) == IF k \in DOMAIN Snap THEN Snap[k] ELSE NotExist

\* Get: the buffer first; a buffered tombstone hides the snapshot.
UnionGet(db, k) ==
    LET b == BufferGet(db, k)
        v == IF b = NotExist THEN SnapGet(k) ELSE b
    IN IF v = Tombstone THEN NotExist ELSE v

\* A side of UnionIter: the pairs still ahead, in the iterator's direction.
BufferSide(db, lo, hi, reverse) ==
    LET s == Pairs(db, IterKeys(db, lo, hi)) IN IF reverse THEN Reverse(s) ELSE s
SnapSide(lo, hi, reverse) ==
    LET ks == SetToSortSeq({k \in DOMAIN Snap : lo <= k /\ k < hi}, LAMBDA a, b : a < b)
        s == [i \in DOMAIN ks |-> <<ks[i], Snap[ks[i]]>>]
    IN IF reverse THEN Reverse(s) ELSE s

\* One turn of the loop of uFIDelateCur: what both sides drop, or the
\* decision that the iterator stands on one of them.
Before(a, b, reverse) == IF reverse THEN a > b ELSE a < b
UpdateCur(dirty, snap, reverse) ==
    LET cur[d \in Seq(Nat \X Nat), s \in Seq(Nat \X Nat)] ==
          IF d = <<>> /\ s = <<>> THEN [valid |-> FALSE, isDirty |-> FALSE, d |-> d, s |-> s]
          ELSE IF d = <<>> THEN [valid |-> TRUE, isDirty |-> FALSE, d |-> d, s |-> s]
          ELSE LET same == s # <<>> /\ d[1][1] = s[1][1]
                   first == s = <<>> \/ same \/ Before(d[1][1], s[1][1], reverse)
                   rest == IF same THEN Tail(s) ELSE s
               IN IF ~first THEN [valid |-> TRUE, isDirty |-> FALSE, d |-> d, s |-> s]
                  ELSE IF d[1][2] = Tombstone THEN cur[Tail(d), rest]
                  ELSE [valid |-> TRUE, isDirty |-> TRUE, d |-> d, s |-> rest]
    IN cur[dirty, snap]

\* Everything the iterator yields: Next moves the side it stands on.
UnionIterate(dirty, snap, reverse) ==
    LET all[it \in [valid : BOOLEAN, isDirty : BOOLEAN,
                    d : Seq(Nat \X Nat), s : Seq(Nat \X Nat)]] ==
          IF ~it.valid THEN <<>>
          ELSE IF it.isDirty THEN <<it.d[1]>> \o all[UpdateCur(Tail(it.d), it.s, reverse)]
          ELSE <<it.s[1]>> \o all[UpdateCur(it.d, Tail(it.s), reverse)]
    IN all[UpdateCur(dirty, snap, reverse)]

\* Mutant: a buffered tombstone is taken for a missing value.
BatchGetThrough(db, keys) ==
    LET own == {k \in keys : ValueLen(BufferGet(db, k)) > 0 /\ BufferGet(db, k) # NotExist}
        found == (keys \ own) \cap DOMAIN Snap
    IN [k \in found \cup own |-> IF k \in own THEN BufferGet(db, k) ELSE Snap[k]]

\* BufferBatchGetter.BatchGet without a cache in the middle: only keys the
\* buffer does not know are fetched, then buffered values are laid over.
BatchGet(db, keys) ==
    LET fetched == IF db.count = 0 THEN keys ELSE {k \in keys : BufferGet(db, k) = NotExist}
        found == fetched \cap DOMAIN Snap
        own == {k \in keys \ fetched : ValueLen(BufferGet(db, k)) > 0}
    IN [k \in found \cup own |-> IF k \in own THEN BufferGet(db, k) ELSE Snap[k]]

GetInt64(db, k) == IF UnionGet(db, k) = NotExist THEN 0 ELSE UnionGet(db, k)

\* IncInt64: parse, add, write the decimal string back.
IncInt64(k) ==
    /\ ~memdb.vlogInvalid
    /\ LET v == UnionGet(memdb, k)
           new == IF v = NotExist THEN IncStep ELSE v + IncStep
       IN /\ new \in BValue
          /\ BufferSet(k, new, <<>>)

UnionNext == \E k \in BKey : IncInt64(k)

-----------------------------------------------------------------------------
(* Properties. *)

Visible(k) == UnionGet(memdb, k) # NotExist
MaxBound == Max(BKey) + 1

\* The merging iterator, in both directions and from every bound, yields
\* exactly the pairs a point read of each key would give, in order, and the
\* batch getter gives the same answers: tombstones hide the snapshot's value,
\* neither side loses or repeats a key when both have it (uFIDelateCur, Next).
UnionReadsAgree ==
    Readable =>
      LET view(lo, hi) ==
            LET ks == SetToSortSeq({k \in BKey : lo <= k /\ k < hi /\ Visible(k)},
                                   LAMBDA a, b : a < b)
            IN [i \in DOMAIN ks |-> <<ks[i], UnionGet(memdb, ks[i])>>]
          all(lo, hi, r) == UnionIterate(BufferSide(memdb, lo, hi, r), SnapSide(lo, hi, r), r)
      IN /\ \A lo, hi \in BKey \cup {MaxBound} : lo < hi =>
              /\ all(lo, hi, FALSE) = view(lo, hi)
              /\ all(lo, hi, TRUE) = Reverse(view(lo, hi))
         /\ \A ks \in SUBSET BKey :
              BatchGet(memdb, ks) = [k \in {x \in ks : Visible(x)} |-> UnionGet(memdb, k)]

=============================================================================
