--------------------------- MODULE MemBufferProofs ---------------------------
(***************************************************************************)
(* The memory buffer implements StagedMap, for any keys, values, sizes of  *)
(* blocks and number of stages.  A position of the value log is a pair     *)
(* (block, offset); the entries of a key are chained from the newest to    *)
(* the oldest, and a checkpoint is a position.                             *)
(***************************************************************************)
EXTENDS MemBuffer, FiniteSetTheorems, WellFoundedInduction, TLAPS

-----------------------------------------------------------------------------
(* Positions and their order. *)

Position == Nat \X Nat
Before(a, c) == a[1] < c[1] \/ (a[1] = c[1] /\ a[2] < c[2])
UpTo(a, c) == a = c \/ Before(a, c)
Pos(cp) == <<cp.blocks, cp.offset>>

\* The newest position of S, or the null address.
IsNewest(p, S) ==
    \/ S = {} /\ p = NullAddr
    \/ p \in S /\ \A a \in S : UpTo(a, p)

\* The order of the log is strict and total.
LEMMA BeforeOrder ==
    /\ \A a \in Position : ~Before(a, a)
    /\ \A a, b, c \in Position : Before(a, b) /\ Before(b, c) => Before(a, c)
    /\ \A a, b \in Position : a = b \/ Before(a, b) \/ Before(b, a)
    /\ NullAddr \in Position
BY DEF Position, Before, NullAddr

\* A set of versions has at most one newest address: getSnapshotValue has one answer.
LEMMA NewestUnique ==
    ASSUME NEW S \in SUBSET Position, NEW p, NEW q, IsNewest(p, S), IsNewest(q, S)
    PROVE  p = q
BY BeforeOrder DEF IsNewest, UpTo

\* canModify asks whether a position is behind the checkpoint.
LEMMA CanModifyBefore ==
    ASSUME NEW cp, Pos(cp) \in Position, NEW a \in Position
    PROVE  /\ CanModify(cp, a) <=> Before(Pos(cp), a)
           /\ ~CanModify(cp, a) <=> UpTo(a, Pos(cp))
<1>1. cp.blocks \in Nat /\ cp.offset \in Nat /\ Pos(cp)[1] = cp.blocks /\ Pos(cp)[2] = cp.offset
  BY DEF Pos, Position
<1>2. CanModify(cp, a) <=> Before(Pos(cp), a)
  BY <1>1 DEF CanModify, Before, Position
<1> QED  BY <1>2, BeforeOrder DEF UpTo

\* Induction over the natural numbers, for sets.
LEMMA SetInduction ==
    ASSUME NEW S, S \subseteq Nat, 0 \in S, \A n \in S : n + 1 \in S
    PROVE  S = Nat
<1> SUFFICES ASSUME Nat \ S # {} PROVE FALSE
  OBVIOUS
<1> DEFINE R == OpToRel(<, Nat)
           T == Nat \ S
<1>1. IsWellFoundedOn(R, Nat)
  BY NatLessThanWellFounded
<1>2. \A x, y \in Nat : y < x => <<y, x>> \in R
  BY DEF OpToRel
<1> HIDE DEF R
<1>3. PICK x \in T : \A y \in T : ~(<<y, x>> \in R)
  BY <1>1, WFMin
<1>4. x \in Nat \ {0} /\ x - 1 \in Nat /\ x - 1 < x
  BY <1>3
<1>5. x - 1 \in S
  BY <1>2, <1>3, <1>4
<1>6. (x - 1) + 1 \in S
  BY <1>5
<1> QED  BY <1>3, <1>4, <1>6

\* A set of natural numbers has a least element.
LEMMA LeastNat ==
    ASSUME NEW S \in SUBSET Nat, S # {}
    PROVE  \E x \in S : \A y \in S : x <= y
<1> DEFINE R == OpToRel(<, Nat)
<1>1. IsWellFoundedOn(R, Nat)
  BY NatLessThanWellFounded
<1>2. \A x, y \in Nat : y < x => <<y, x>> \in R
  BY DEF OpToRel
<1> HIDE DEF R
<1>3. PICK x \in S : \A y \in S : ~(<<y, x>> \in R)
  BY <1>1, WFMin
<1>4. \A y \in S : y \in Nat /\ x \in Nat /\ ~(y < x)
  BY <1>2, <1>3
<1>5. \A y \in S : x <= y
  BY <1>4
<1> QED  BY <1>5

\* A set of positions has a first element.
LEMMA FirstPosition ==
    ASSUME NEW S \in SUBSET Position, S # {}
    PROVE  \E p \in S : \A a \in S : ~Before(a, p)
<1> DEFINE B == {a[1] : a \in S}
<1>1. B \in SUBSET Nat /\ B # {}
  BY DEF Position
<1>2. PICK b \in B : \A c \in B : b <= c
  BY <1>1, LeastNat
<1> DEFINE O == {a[2] : a \in {x \in S : x[1] = b}}
<1>3. O \in SUBSET Nat /\ O # {}
  BY <1>2 DEF Position
<1>4. PICK o \in O : \A c \in O : o <= c
  BY <1>3, LeastNat
<1>5. PICK p \in S : p[1] = b /\ p[2] = o
  BY <1>4
<1>6. ASSUME NEW a \in S, Before(a, p)
      PROVE  FALSE
  <2>1. a[1] \in B /\ a[1] \in Nat /\ a[2] \in Nat /\ b \in Nat /\ o \in Nat
    BY <1>1, <1>2, <1>3, <1>4 DEF Position
  <2>2. a[1] = b /\ a[2] < o
    BY <1>2, <1>5, <1>6, <2>1 DEF Before
  <2>3. a[2] \in O
    BY <2>2
  <2> QED  BY <1>4, <2>1, <2>2, <2>3
<1> QED  BY <1>6

-----------------------------------------------------------------------------
(* The value log. *)

AddrOf(log) == UNION {{<<b, o>> : o \in DOMAIN log[b].at} : b \in DOMAIN log}
Ent(log, a) == log[a[1]].at[a[2]]
TailOf(log) == <<Len(log), IF log = <<>> THEN 0 ELSE log[Len(log)].length>>

IsEntry(e) == e = [node |-> e.node, old |-> e.old, value |-> e.value] /\ e.value \in 0 .. 99

\* The entries of a block follow each other from its beginning to its end.
BlockOK(b) ==
    /\ b = [cap |-> b.cap, length |-> b.length, at |-> b.at]
    /\ b.at = [o \in DOMAIN b.at |-> b.at[o]]
    /\ b.length \in DOMAIN b.at
    /\ \A o \in DOMAIN b.at :
         /\ o \in Nat \ {0} /\ o <= b.length /\ IsEntry(b.at[o])
         /\ LET p == o - EntrySize(b.at[o].value)
            IN  /\ p \in Nat /\ (p = 0 \/ p \in DOMAIN b.at)
                /\ \A q \in DOMAIN b.at : q <= p \/ o <= q

LogOK(log) == (\E X : log \in Seq(X)) /\ \A b \in 1 .. Len(log) : BlockOK(log[b])

\* What an address of the log is: a block and an offset at which an entry ends.
LEMMA AddrIn ==
    ASSUME NEW log, LogOK(log), NEW a
    PROVE  /\ a \in AddrOf(log) <=> /\ a \in Position /\ a[1] \in 1 .. Len(log)
                                    /\ a[2] \in DOMAIN log[a[1]].at
           /\ a \in AddrOf(log) => a = <<a[1], a[2]>> /\ a # NullAddr /\ IsEntry(Ent(log, a))
<1>0. PICK X : log \in Seq(X)
  BY DEF LogOK
<1>1. DOMAIN log = 1 .. Len(log) /\ Len(log) \in Nat
  BY <1>0
<1>2. ASSUME a \in AddrOf(log)
      PROVE  /\ a \in Position /\ a[1] \in 1 .. Len(log) /\ a[2] \in DOMAIN log[a[1]].at
             /\ a = <<a[1], a[2]>> /\ a # NullAddr /\ IsEntry(Ent(log, a))
  <2>1. PICK b \in 1 .. Len(log) : \E o \in DOMAIN log[b].at : a = <<b, o>>
    BY <1>1, <1>2 DEF AddrOf
  <2>2. PICK o \in DOMAIN log[b].at : a = <<b, o>>
    BY <2>1
  <2>3. o \in Nat \ {0} /\ IsEntry(log[b].at[o])
    BY DEF LogOK, BlockOK
  <2> QED  BY <1>1, <2>2, <2>3 DEF Position, NullAddr, Ent
<1>3. ASSUME a \in Position, a[1] \in 1 .. Len(log), a[2] \in DOMAIN log[a[1]].at
      PROVE  a \in AddrOf(log)
  <2>1. a = <<a[1], a[2]>>
    BY <1>3 DEF Position
  <2> QED  BY <1>1, <1>3, <2>1 DEF AddrOf
<1> QED  BY <1>2, <1>3

\* Every entry has a length.
LEMMA EntrySizeNat ==
    ASSUME NEW v \in 0 .. 99
    PROVE  EntrySize(v) \in Nat \ {0} /\ EntrySize(v) <= HdrSize + 2
<1>1. ValueLen(v) \in 0 .. 2
  BY DEF ValueLen, Tombstone
<1> QED  BY <1>1, MemBufferAssumption DEF EntrySize

\* The end of the log is its newest entry; a log without blocks has none.
LEMMA TailNewest ==
    ASSUME NEW log, LogOK(log)
    PROVE  IsNewest(TailOf(log), AddrOf(log)) /\ TailOf(log) \in Position
<1>0. PICK X : log \in Seq(X)
  BY DEF LogOK
<1>1. CASE log = <<>>
  <2>1. Len(log) = 0
    BY <1>1
  <2>2. AddrOf(log) = {}
    BY <2>1, AddrIn
  <2> QED  BY <1>1, <2>1, <2>2, BeforeOrder DEF TailOf, IsNewest, NullAddr
<1>2. CASE log # <<>>
  <2> DEFINE n == Len(log)
             p == TailOf(log)
  <2>1. n \in Nat \ {0} /\ n \in 1 .. n
    BY <1>0, <1>2
  <2>2. BlockOK(log[n])
    BY <2>1 DEF LogOK
  <2>3. p = <<n, log[n].length>>
    BY <1>2 DEF TailOf
  <2>4. log[n].length \in Nat /\ log[n].length \in DOMAIN log[n].at
        /\ \A o \in DOMAIN log[n].at : o \in Nat /\ o <= log[n].length
    BY <2>2 DEF BlockOK
  <2> HIDE DEF n, p
  <2>5. p \in Position /\ p[1] = n /\ p[2] = log[n].length
    BY <2>1, <2>3, <2>4 DEF Position
  <2>6. p \in AddrOf(log)
    BY <2>1, <2>4, <2>5, AddrIn DEF n
  <2>7. ASSUME NEW a \in AddrOf(log) PROVE UpTo(a, p)
    <3>1. a \in Position /\ a[1] \in 1 .. n /\ a[2] \in DOMAIN log[a[1]].at /\ a = <<a[1], a[2]>>
      BY AddrIn DEF n
    <3>2. CASE a[1] = n
      <4>1. a[2] \in Nat /\ a[2] <= log[n].length
        BY <2>4, <3>1, <3>2
      <4>2. CASE a[2] = log[n].length
        BY <2>3, <3>1, <3>2, <4>2 DEF UpTo
      <4>3. CASE a[2] # log[n].length
        BY <2>4, <2>5, <3>2, <4>1, <4>3 DEF UpTo, Before
      <4> QED  BY <4>2, <4>3
    <3>3. CASE a[1] # n
      BY <2>1, <2>5, <3>1, <3>3 DEF UpTo, Before
    <3> QED  BY <3>2, <3>3
  <2> QED  BY <2>5, <2>6, <2>7 DEF IsNewest, p
<1> QED  BY <1>1, <1>2

\* moveBackCursor goes to the entry written before.
LEMMA MoveBackPrevious ==
    ASSUME NEW db, LogOK(db.log), NEW a \in AddrOf(db.log)
    PROVE  IsNewest(MoveBackCursor(db, a), {c \in AddrOf(db.log) : Before(c, a)})
<1> DEFINE log == db.log
           S == {c \in AddrOf(log) : Before(c, a)}
           m == MoveBackCursor(db, a)
           off == a[2] - EntrySize(Ent(log, a).value)
<1>0. PICK X : log \in Seq(X)
  BY DEF LogOK
<1>1. /\ a \in Position /\ a[1] \in 1 .. Len(log) /\ a[2] \in DOMAIN log[a[1]].at
      /\ Len(log) \in Nat /\ a[1] \in Nat /\ a[2] \in Nat
  BY <1>0, AddrIn DEF Position
<1>2. /\ off \in Nat /\ (off = 0 \/ off \in DOMAIN log[a[1]].at)
      /\ \A q \in DOMAIN log[a[1]].at : q \in Nat \ {0} /\ (q <= off \/ a[2] <= q)
      /\ off < a[2]
  <2>1. BlockOK(log[a[1]])
    BY <1>1 DEF LogOK
  <2>2. Ent(log, a).value \in 0 .. 99
    BY AddrIn DEF IsEntry
  <2>3. EntrySize(Ent(log, a).value) \in Nat \ {0}
    BY <2>2, EntrySizeNat
  <2>4. /\ off \in Nat /\ (off = 0 \/ off \in DOMAIN log[a[1]].at)
        /\ \A q \in DOMAIN log[a[1]].at : q \in Nat \ {0} /\ (q <= off \/ a[2] <= q)
    BY <1>1, <2>1 DEF BlockOK, Ent
  <2>5. off < a[2]
    BY <1>1, <2>3
  <2> QED  BY <2>4, <2>5
<1>3. m = IF off > 0 THEN <<a[1], off>>
          ELSE IF a[1] > 1 THEN <<a[1] - 1, log[a[1] - 1].length>> ELSE NullAddr
  BY DEF MoveBackCursor, Entry, Ent
<1>4. \A c \in S : /\ c \in Position /\ c[1] \in 1 .. Len(log) /\ c[2] \in DOMAIN log[c[1]].at
                   /\ c = <<c[1], c[2]>> /\ c[1] \in Nat /\ c[2] \in Nat
                   /\ c[1] < a[1] \/ (c[1] = a[1] /\ c[2] < a[2])
  BY <1>1, AddrIn DEF Position, Before
<1> HIDE DEF m, off
<1>5. CASE off > 0
  <2>1. m = <<a[1], off>> /\ m \in Position /\ m[1] = a[1] /\ m[2] = off
    BY <1>1, <1>2, <1>3, <1>5 DEF Position
  <2>2. m \in S
    BY <1>1, <1>2, <1>5, <2>1, AddrIn DEF Before
  <2>3. ASSUME NEW c \in S PROVE UpTo(c, m)
    <3>1. CASE c[1] < a[1]
      BY <2>1, <3>1 DEF UpTo, Before
    <3>2. CASE c[1] = a[1] /\ c[2] < a[2]
      <4>1. c[2] <= off /\ c[2] \in Nat
        BY <1>1, <1>2, <1>4, <3>2
      <4>2. CASE c[2] = off
        BY <1>4, <2>1, <3>2, <4>2 DEF UpTo
      <4>3. CASE c[2] # off
        BY <1>2, <2>1, <3>2, <4>1, <4>3 DEF UpTo, Before
      <4> QED  BY <4>2, <4>3
    <3> QED  BY <1>4, <3>1, <3>2
  <2> QED  BY <2>2, <2>3 DEF IsNewest, m
<1>6. CASE off = 0 /\ a[1] > 1
  <2> DEFINE b == a[1] - 1
  <2>1. b \in 1 .. Len(log) /\ b \in Nat /\ b < a[1]
    BY <1>1, <1>6
  <2>2. /\ log[b].length \in DOMAIN log[b].at /\ log[b].length \in Nat
        /\ \A o \in DOMAIN log[b].at : o \in Nat /\ o <= log[b].length
    BY <2>1 DEF LogOK, BlockOK
  <2>3. m = <<b, log[b].length>>
    BY <1>3, <1>6
  <2>4. m \in Position /\ m[1] = b /\ m[2] = log[b].length
    BY <2>1, <2>2, <2>3 DEF Position
  <2>5. m \in S
    BY <2>1, <2>2, <2>4, AddrIn DEF Before
  <2>6. ASSUME NEW c \in S PROVE UpTo(c, m)
    <3>1. c[1] <= b
      <4>1. c[1] = a[1] => c[2] <= 0 /\ c[2] \in Nat \ {0}
        BY <1>1, <1>2, <1>4, <1>6
      <4> QED  BY <1>1, <1>4, <4>1
    <3>2. CASE c[1] = b
      <4>1. c[2] \in Nat /\ c[2] <= log[b].length
        BY <1>4, <2>2, <3>2
      <4>2. CASE c[2] = log[b].length
        BY <1>4, <2>3, <3>2, <4>2 DEF UpTo
      <4>3. CASE c[2] # log[b].length
        BY <2>2, <2>4, <3>2, <4>1, <4>3 DEF UpTo, Before
      <4> QED  BY <4>2, <4>3
    <3>3. CASE c[1] # b
      BY <1>4, <2>1, <2>4, <3>1, <3>3 DEF UpTo, Before
    <3> QED  BY <3>2, <3>3
  <2> QED  BY <2>5, <2>6 DEF IsNewest, m
<1>7. CASE off = 0 /\ ~(a[1] > 1)
  <2>1. S = {}
    <3> SUFFICES ASSUME NEW c \in S PROVE FALSE
      OBVIOUS
    <3>1. c[1] = a[1] => c[2] <= 0 /\ c[2] \in Nat \ {0}
      BY <1>1, <1>2, <1>4, <1>7
    <3> QED  BY <1>1, <1>4, <1>7, <3>1
  <2>2. m = NullAddr
    BY <1>3, <1>7
  <2> QED  BY <2>1, <2>2 DEF IsNewest, m
<1> QED  BY <1>2, <1>5, <1>6, <1>7

-----------------------------------------------------------------------------
(* How an entry is appended. *)

\* The loop of enlarge that doubles the wished block size can be unfolded to any
\* length, which is what Doubled's recursive function needs.
LEMMA ShiftedExists ==
    ASSUME NEW wish \in Nat
    PROVE  \A n \in Nat : \E F : F = [i \in 0 .. n |-> IF i = 0 THEN wish ELSE 2 * F[i - 1]]
<1> DEFINE Steps(F, n) == F = [i \in 0 .. n |-> IF i = 0 THEN wish ELSE 2 * F[i - 1]]
           S == {n \in Nat : \E F : Steps(F, n)}
<1>1. 0 \in S
  <2> DEFINE F == [i \in 0 .. 0 |-> wish]
  <2>1. Steps(F, 0)
    OBVIOUS
  <2> HIDE DEF F, Steps
  <2> QED  BY <2>1
<1>2. ASSUME NEW n \in S
      PROVE  n + 1 \in S
  <2>1. PICK F : Steps(F, n)
    BY <1>2
  <2> DEFINE G == [i \in 0 .. n + 1 |-> IF i <= n THEN F[i] ELSE 2 * F[n]]
  <2>2. n \in Nat
    BY <1>2
  <2>3. /\ \A i \in 0 .. n : F[i] = IF i = 0 THEN wish ELSE 2 * F[i - 1]
        /\ \A i \in 0 .. n : G[i] = F[i]
        /\ G[n + 1] = 2 * F[n]
    <3>1. \A i \in 0 .. n : F[i] = IF i = 0 THEN wish ELSE 2 * F[i - 1]
      BY <2>1, Zenon
    <3>2. \A i \in 0 .. n : i \in 0 .. n + 1 /\ i <= n
      BY <2>2
    <3>3. n + 1 \in 0 .. n + 1 /\ ~(n + 1 <= n)
      BY <2>2
    <3> QED  BY <3>1, <3>2, <3>3, Zenon
  <2> HIDE DEF G
  <2>4. \A i \in 0 .. n + 1 : G[i] = IF i = 0 THEN wish ELSE 2 * G[i - 1]
    <3> SUFFICES ASSUME NEW i \in 0 .. n + 1
                 PROVE  G[i] = IF i = 0 THEN wish ELSE 2 * G[i - 1]
      OBVIOUS
    <3>1. CASE i = n + 1
      <4>1. n \in 0 .. n /\ i # 0 /\ i - 1 = n
        BY <2>2, <3>1
      <4> QED  BY <2>3, <3>1, <4>1
    <3>2. CASE i # n + 1
      <4>1. i \in 0 .. n /\ (i # 0 => i - 1 \in 0 .. n)
        BY <2>2, <3>2
      <4> QED  BY <2>3, <4>1
    <3> QED  BY <3>1, <3>2
  <2>5. Steps(G, n + 1)
    <3>1. G = [i \in 0 .. n + 1 |-> G[i]]
      BY DEF G
    <3> QED  BY <2>4, <3>1
  <2> HIDE DEF Steps
  <2> QED  BY <2>2, <2>5
<1> HIDE DEF S
<1>3. S = Nat
  BY <1>1, <1>2, SetInduction DEF S
<1> QED  BY <1>3 DEF S

\* enlarge finds a size above the request.
LEMMA DoubledExceeds ==
    ASSUME NEW size \in Nat, size < MaxBlockSize, NEW wish \in Nat \ {0}
    PROVE  Doubled(size, wish) \in Nat /\ Doubled(size, wish) > size
<1> DEFINE shifted[i \in 0 .. MaxBlockSize] == IF i = 0 THEN wish ELSE 2 * shifted[i - 1]
           N == MaxBlockSize
<1>0. N \in Nat
  BY MemBufferAssumption
<1>1. Doubled(size, wish) =
         CHOOSE b \in {shifted[i] : i \in 0 .. N} :
            b > size /\ \A i \in 0 .. N : shifted[i] > size => b <= shifted[i]
  BY DEF Doubled
<1>2. shifted = CHOOSE f : f = [i \in 0 .. N |-> IF i = 0 THEN wish ELSE 2 * f[i - 1]]
  BY DEF shifted
<1> HIDE DEF shifted, N
<1>3. \E F : F = [i \in 0 .. N |-> IF i = 0 THEN wish ELSE 2 * F[i - 1]]
  BY <1>0, ShiftedExists
<1>4. shifted = [i \in 0 .. N |-> IF i = 0 THEN wish ELSE 2 * shifted[i - 1]]
  BY <1>2, <1>3, Zenon
<1>5. \A i \in 0 .. N : shifted[i] = IF i = 0 THEN wish ELSE 2 * shifted[i - 1]
  BY <1>4, Zenon
<1> DEFINE P(i) == shifted[i] \in Nat /\ shifted[i] > i
           S == {i \in Nat : i \in 0 .. N => P(i)}
<1>6. 0 \in S
  BY <1>0, <1>5
<1>7. ASSUME NEW i \in S PROVE i + 1 \in S
  <2> SUFFICES ASSUME i + 1 \in 0 .. N PROVE P(i + 1)
    OBVIOUS
  <2>1. i \in Nat /\ i \in 0 .. N /\ i + 1 # 0 /\ (i + 1) - 1 = i
    BY <1>0, <1>7
  <2>2. shifted[i + 1] = 2 * shifted[i] /\ P(i)
    BY <1>5, <1>7, <2>1
  <2> QED  BY <2>1, <2>2
<1>8. S = Nat
  <2> HIDE DEF P
  <2> QED  BY <1>6, <1>7, SetInduction
<1>9. \A i \in 0 .. N : P(i)
  <2>1. \A i \in 0 .. N : i \in S
    BY <1>0, <1>8
  <2> QED  BY <2>1
<1> DEFINE Big == {b \in {shifted[i] : i \in 0 .. N} : b > size}
<1>10. Big \in SUBSET Nat /\ Big # {}
  <2>1. N \in 0 .. N /\ N > size
    BY <1>0 DEF N
  <2>2. shifted[N] \in Nat /\ shifted[N] > size
    BY <1>0, <1>9, <2>1
  <2>3. shifted[N] \in Big
    BY <2>1, <2>2
  <2> QED  BY <1>9, <2>3
<1>11. PICK b \in Big : \A c \in Big : b <= c
  BY <1>10, LeastNat
<1>12. \E x \in {shifted[i] : i \in 0 .. N} :
          x > size /\ \A i \in 0 .. N : shifted[i] > size => x <= shifted[i]
  BY <1>11
<1>13. Doubled(size, wish) \in {shifted[i] : i \in 0 .. N} /\ Doubled(size, wish) > size
  BY <1>1, <1>12, Zenon
<1> QED  BY <1>9, <1>13

\* Of a buffer only its fields are known.
Shape(db) ==
    db = [nodes |-> db.nodes, log |-> db.log, blockSize |-> db.blockSize, stages |-> db.stages,
          count |-> db.count, size |-> db.size, dirty |-> db.dirty,
          vlogInvalid |-> db.vlogInvalid]

EmptyBlock(cap) == [cap |-> cap, length |-> 0, at |-> <<>>]

SameCounters(d, db) == d.count = db.count /\ d.size = db.size /\ d.dirty = db.dirty

\* alloc finds room in the last block or adds one new, empty block.
LEMMA AllocShape ==
    ASSUME NEW db, Shape(db), LogOK(db.log), NEW size \in Nat, size <= HdrSize + 2
    PROVE  LET d == Alloc(db, size)
           IN  /\ Shape(d) /\ d.nodes = db.nodes /\ d.stages = db.stages
               /\ d.vlogInvalid = db.vlogInvalid /\ SameCounters(d, db)
               /\ \/ d.log = db.log /\ db.log # <<>>
                  \/ \E cap : d.log = Append(db.log, EmptyBlock(cap))
<1>1. ASSUME NEW x, Shape(x), NEW wish
      PROVE  LET d == Enlarge(x, size, wish)
                 bs == IF Doubled(size, wish) > MaxBlockSize THEN MaxBlockSize
                       ELSE Doubled(size, wish)
             IN  /\ Shape(d) /\ d.nodes = x.nodes /\ d.stages = x.stages
                 /\ d.vlogInvalid = x.vlogInvalid /\ SameCounters(d, x)
                 /\ d.log = Append(x.log, EmptyBlock(bs))
  <2> DEFINE d == Enlarge(x, size, wish)
             bs == IF Doubled(size, wish) > MaxBlockSize THEN MaxBlockSize
                   ELSE Doubled(size, wish)
  <2>1. d = [x EXCEPT !.blockSize = bs, !.log = Append(x.log, EmptyBlock(bs))]
    BY DEF Enlarge, EmptyBlock
  <2> HIDE DEF bs, d
  <2>2. d = [nodes |-> x.nodes, log |-> Append(x.log, EmptyBlock(bs)), blockSize |-> bs,
             stages |-> x.stages, count |-> x.count, size |-> x.size, dirty |-> x.dirty,
             vlogInvalid |-> x.vlogInvalid]
    BY <1>1, <2>1 DEF Shape
  <2>3. Shape(d) /\ d.log = Append(x.log, EmptyBlock(bs)) /\ d.nodes = x.nodes
        /\ d.stages = x.stages /\ d.vlogInvalid = x.vlogInvalid /\ SameCounters(d, x)
    BY <2>2 DEF Shape, SameCounters
  <2> QED  BY <2>3 DEF bs, d
<1>2. CASE db.log # <<>>
  <2>1. Alloc(db, size) \in {db, Enlarge(db, size, db.blockSize * 2)}
    BY <1>2 DEF Alloc
  <2>2. SameCounters(db, db)
    BY DEF SameCounters
  <2> QED  BY <1>1, <1>2, <2>1, <2>2
<1>3. CASE db.log = <<>>
  <2> DEFINE d == Enlarge(db, size, InitBlockSize)
             D == Doubled(size, InitBlockSize)
             bs == IF D > MaxBlockSize THEN MaxBlockSize ELSE D
  <2>1. d.log = Append(<<>>, EmptyBlock(bs))
    BY <1>1, <1>3
  <2>2. D \in Nat /\ D > size /\ MaxBlockSize \in Nat /\ size < MaxBlockSize
    BY DoubledExceeds, MemBufferAssumption
  <2>3. bs >= size
    BY <2>2
  <2>4. Last(d.log) = EmptyBlock(bs)
    BY <2>1 DEF Last
  <2>5. Fits(d, size)
    BY <2>3, <2>4 DEF Fits, EmptyBlock
  <2>6. Alloc(db, size) = d
    BY <1>3, <2>5 DEF Alloc
  <2>7. /\ Shape(d) /\ d.nodes = db.nodes /\ d.stages = db.stages
        /\ d.vlogInvalid = db.vlogInvalid /\ d.log = Append(db.log, EmptyBlock(bs))
        /\ SameCounters(d, db)
    BY <1>1
  <2> HIDE DEF d, bs, D
  <2> QED  BY <2>6, <2>7
<1> QED  BY <1>2, <1>3

-----------------------------------------------------------------------------
(* A block and a log with one entry more. *)

GrownBlock(b, e) ==
    LET end == b.length + EntrySize(e.value)
    IN  [cap |-> b.cap, length |-> end,
         at |-> [o \in DOMAIN b.at \cup {end} |-> IF o = end THEN e ELSE b.at[o]]]

\* appendValue puts an entry behind the last one of its block: the block stays well
\* formed and no older entry moves.
LEMMA BlockGrows ==
    ASSUME NEW b, BlockOK(b) \/ (\E cap : b = EmptyBlock(cap)), NEW e, IsEntry(e)
    PROVE  LET g == GrownBlock(b, e)
           IN  /\ BlockOK(g) /\ b.length \in Nat /\ g.length = b.length + EntrySize(e.value)
               /\ g.length > b.length /\ g.length \in Nat
               /\ DOMAIN g.at = DOMAIN b.at \cup {g.length} /\ g.length \notin DOMAIN b.at
               /\ \A o \in DOMAIN b.at : o \in Nat /\ o <= b.length /\ g.at[o] = b.at[o]
               /\ g.at[g.length] = e
<1> DEFINE g == GrownBlock(b, e)
           s == EntrySize(e.value)
           end == b.length + s
<1>1. s \in Nat \ {0}
  BY EntrySizeNat DEF IsEntry
<1>2. /\ b.length \in Nat /\ (b.length = 0 \/ b.length \in DOMAIN b.at)
      /\ \A o \in DOMAIN b.at :
           /\ o \in Nat \ {0} /\ o <= b.length /\ IsEntry(b.at[o])
           /\ o - EntrySize(b.at[o].value) \in Nat
           /\ o - EntrySize(b.at[o].value) = 0 \/ o - EntrySize(b.at[o].value) \in DOMAIN b.at
           /\ \A q \in DOMAIN b.at : q <= o - EntrySize(b.at[o].value) \/ o <= q
  <2>1. CASE BlockOK(b)
    BY <2>1 DEF BlockOK
  <2>2. CASE \E cap : b = EmptyBlock(cap)
    <3>1. b.length = 0 /\ DOMAIN b.at = {}
      BY <2>2 DEF EmptyBlock
    <3> QED  BY <3>1
  <2> QED  BY <2>1, <2>2
<1>3. /\ end \in Nat /\ end > b.length /\ end \notin DOMAIN b.at /\ end # 0 /\ end - s = b.length
  BY <1>1, <1>2
<1>4. /\ g = [cap |-> g.cap, length |-> g.length, at |-> g.at] /\ g.length = end
      /\ g.at = [o \in DOMAIN b.at \cup {end} |-> IF o = end THEN e ELSE b.at[o]]
  BY DEF GrownBlock
<1>5. /\ DOMAIN g.at = DOMAIN b.at \cup {end} /\ g.at[end] = e
      /\ \A o \in DOMAIN b.at : g.at[o] = b.at[o]
      /\ g.at = [o \in DOMAIN g.at |-> g.at[o]]
  BY <1>3, <1>4, Zenon
<1> HIDE DEF g, s, end
<1>6. ASSUME NEW o \in DOMAIN g.at
      PROVE  /\ o \in Nat \ {0} /\ o <= g.length /\ IsEntry(g.at[o])
             /\ o - EntrySize(g.at[o].value) \in Nat
             /\ o - EntrySize(g.at[o].value) = 0 \/ o - EntrySize(g.at[o].value) \in DOMAIN g.at
             /\ \A q \in DOMAIN g.at : q <= o - EntrySize(g.at[o].value) \/ o <= q
  <2>1. CASE o = end
    <3>1. o - EntrySize(g.at[o].value) = b.length
      BY <1>3, <1>5, <2>1 DEF s
    <3>2. \A q \in DOMAIN g.at : q <= b.length \/ q = end
      BY <1>2, <1>5
    <3> QED  BY <1>2, <1>3, <1>4, <1>5, <2>1, <3>1, <3>2
  <2>2. CASE o \in DOMAIN b.at
    <3>1. g.at[o] = b.at[o]
      BY <1>5, <2>2
    <3>2. o <= end /\ o \in Nat
      BY <1>2, <1>3, <2>2
    <3>3. \A q \in DOMAIN g.at : q = end \/ q \in DOMAIN b.at
      BY <1>5
    <3> QED  BY <1>2, <1>4, <1>5, <2>2, <3>1, <3>2, <3>3
  <2> QED  BY <1>5, <2>1, <2>2
<1>7. BlockOK(g)
  BY <1>4, <1>5, <1>6 DEF BlockOK
<1> QED  BY <1>2, <1>3, <1>4, <1>5, <1>7 DEF g, s, end

\* A function on 1 .. n is a sequence.
LEMMA FunctionIsSeq ==
    ASSUME NEW n \in Nat, NEW f, f = [i \in 1 .. n |-> f[i]]
    PROVE  (\E X : f \in Seq(X)) /\ Len(f) = n
<1> DEFINE X == {f[i] : i \in 1 .. n}
<1>1. f \in [1 .. n -> X]
  OBVIOUS
<1>2. f \in Seq(X)
  BY <1>1
<1> HIDE DEF X
<1> QED  BY <1>1, <1>2

GrownLog(base, e) == [base EXCEPT ![Len(base)] = GrownBlock(@, e)]
GrownTail(base, e) == <<Len(base), base[Len(base)].length + EntrySize(e.value)>>

\* The same for the log: the new entry comes after every other, in the last block
\* or in a block enlarge has just added.
LEMMA LogGrows ==
    ASSUME NEW log, LogOK(log), NEW base,
           \/ base = log /\ log # <<>>
           \/ \E cap : base = Append(log, EmptyBlock(cap)),
           NEW e, IsEntry(e)
    PROVE  LET new == GrownLog(base, e)
               p == GrownTail(base, e)
           IN  /\ LogOK(new) /\ AddrOf(new) = AddrOf(log) \cup {p} /\ p \notin AddrOf(log)
               /\ p \in Position /\ p # NullAddr /\ TailOf(new) = p /\ Ent(new, p) = e
               /\ \A a \in AddrOf(log) : Before(a, p) /\ Ent(new, a) = Ent(log, a)
<1> DEFINE b == Len(base)
           new == GrownLog(base, e)
           p == GrownTail(base, e)
           g == GrownBlock(base[b], e)
<1>0. PICK X : log \in Seq(X)
  BY DEF LogOK
<1>1. /\ b \in Nat \ {0} /\ Len(log) \in Nat /\ Len(log) \in {b - 1, b}
      /\ DOMAIN log = 1 .. Len(log)
      /\ base = [i \in 1 .. b |-> base[i]] /\ \A i \in 1 .. b - 1 : base[i] = log[i]
      /\ IF Len(log) = b THEN base[b] = log[b] ELSE \E cap : base[b] = EmptyBlock(cap)
  <2>1. CASE base = log /\ log # <<>>
    BY <1>0, <2>1
  <2>2. CASE \E cap : base = Append(log, EmptyBlock(cap))
    <3>1. PICK cap : base = Append(log, EmptyBlock(cap))
      BY <2>2
    <3>2. Len(log) \in Nat /\ DOMAIN log = 1 .. Len(log) /\ b = Len(log) + 1
      BY <1>0, <3>1
    <3>3. /\ \A i \in 1 .. Len(log) : base[i] = log[i]
          /\ base[Len(log) + 1] = EmptyBlock(cap)
          /\ base = [i \in 1 .. Len(log) + 1 |-> base[i]]
      <4> DEFINE Y == X \cup {EmptyBlock(cap)}
      <4>1. log \in Seq(Y) /\ EmptyBlock(cap) \in Y
        BY <1>0
      <4> HIDE DEF Y
      <4>2. base \in Seq(Y) /\ Len(base) = Len(log) + 1
            /\ \A i \in 1 .. Len(log) + 1 :
                 base[i] = IF i <= Len(log) THEN log[i] ELSE EmptyBlock(cap)
        BY <3>1, <4>1
      <4>3. base = [i \in 1 .. Len(base) |-> base[i]]
        BY <4>2
      <4> QED  BY <3>2, <4>2, <4>3
    <3> HIDE DEF b
    <3>4. b - 1 = Len(log) /\ b \in Nat \ {0} /\ Len(log) # b
      <4>1. \A n \in Nat : (n + 1) - 1 = n /\ n + 1 \in Nat \ {0} /\ n # n + 1
        OBVIOUS
      <4> QED  BY <3>2, <4>1
    <3> QED  BY <3>2, <3>3, <3>4
  <2> QED  BY <2>1, <2>2
<1>2. /\ new = [i \in 1 .. b |-> IF i = b THEN g ELSE base[i]]
  <2>1. new = [base EXCEPT ![b] = g]
    BY DEF GrownLog
  <2> HIDE DEF b, g, new
  <2> QED  BY <1>1, <2>1
<1> HIDE DEF new, b
<1>3. BlockOK(base[b]) \/ \E cap : base[b] = EmptyBlock(cap)
  BY <1>1 DEF LogOK
<1>4. /\ BlockOK(g) /\ base[b].length \in Nat
      /\ g.length = base[b].length + EntrySize(e.value)
      /\ g.length > base[b].length /\ g.length \in Nat
      /\ DOMAIN g.at = DOMAIN base[b].at \cup {g.length} /\ g.length \notin DOMAIN base[b].at
      /\ \A o \in DOMAIN base[b].at : o \in Nat /\ o <= base[b].length /\ g.at[o] = base[b].at[o]
      /\ g.at[g.length] = e
  <2> HIDE DEF g
  <2> QED  BY <1>3, BlockGrows DEF g
<1> HIDE DEF g
<1>5. /\ b \in 1 .. b /\ new[b] = g /\ \A i \in 1 .. b - 1 : i \in 1 .. b /\ i # b /\ new[i] = log[i]
      /\ new = [i \in 1 .. b |-> new[i]]
  <2>1. b \in 1 .. b /\ \A i \in 1 .. b - 1 : i \in 1 .. b /\ i # b
    BY <1>1
  <2>2. new[b] = g /\ new = [i \in 1 .. b |-> new[i]] /\ \A i \in 1 .. b : i # b => new[i] = base[i]
    BY <1>2, <2>1, Zenon
  <2> QED  BY <1>1, <2>1, <2>2
<1>6. (\E Y : new \in Seq(Y)) /\ Len(new) = b
  BY <1>1, <1>5, FunctionIsSeq
<1>7. LogOK(new)
  <2>1. ASSUME NEW i \in 1 .. b PROVE BlockOK(new[i])
    <3>1. CASE i = b
      BY <1>4, <1>5, <3>1
    <3>2. CASE i # b
      <4>1. i \in 1 .. b - 1 /\ i \in 1 .. Len(log)
        BY <1>1, <3>2
      <4> QED  BY <1>5, <4>1 DEF LogOK
    <3> QED  BY <3>1, <3>2
  <2> QED  BY <1>6, <2>1 DEF LogOK
<1>8. p = <<b, g.length>> /\ p \in Position /\ p[1] = b /\ p[2] = g.length
  BY <1>1, <1>4 DEF GrownTail, b, Position
<1> HIDE DEF p
<1>9. p # NullAddr
  BY <1>1, <1>8 DEF NullAddr
<1>10. TailOf(new) = p
  <2>1. new # <<>>
    BY <1>1, <1>6
  <2> QED  BY <1>5, <1>6, <1>8, <2>1 DEF TailOf
<1>11. Ent(new, p) = e
  BY <1>4, <1>5, <1>8 DEF Ent
<1>12. p \in AddrOf(new)
  BY <1>4, <1>5, <1>6, <1>7, <1>8, AddrIn
<1>13. ASSUME NEW a \in AddrOf(log)
       PROVE  a \in AddrOf(new) /\ Before(a, p) /\ Ent(new, a) = Ent(log, a)
  <2>1. a \in Position /\ a[1] \in 1 .. Len(log) /\ a[2] \in DOMAIN log[a[1]].at
    BY AddrIn
  <2>2. CASE a[1] = b
    <3>1. Len(log) = b /\ base[b] = log[b]
      BY <1>1, <2>1, <2>2
    <3>2. a[2] \in DOMAIN base[b].at /\ a[2] \in DOMAIN g.at /\ g.at[a[2]] = base[b].at[a[2]]
          /\ a[2] \in Nat /\ a[2] < g.length
      BY <1>4, <2>1, <2>2, <3>1
    <3>3. a \in AddrOf(new)
      BY <1>5, <1>6, <1>7, <2>1, <2>2, <3>2, AddrIn
    <3> QED  BY <1>5, <1>8, <2>2, <3>1, <3>2, <3>3 DEF Before, Ent
  <2>3. CASE a[1] # b
    <3>1. a[1] \in 1 .. b - 1
      BY <1>1, <2>1, <2>3
    <3>2. new[a[1]] = log[a[1]] /\ a[1] \in 1 .. b /\ a[1] < b
      <4>1. new[a[1]] = log[a[1]] /\ a[1] \in 1 .. b /\ a[1] # b
        BY <1>5, <3>1
      <4>2. b \in Nat
        BY <1>1
      <4> QED  BY <4>1, <4>2
    <3>3. a \in AddrOf(new)
      BY <1>6, <1>7, <2>1, <3>2, AddrIn
    <3> QED  BY <1>8, <3>2, <3>3 DEF Before, Ent
  <2> QED  BY <2>2, <2>3
<1>14. ASSUME NEW a \in AddrOf(new), a # p
       PROVE  a \in AddrOf(log)
  <2>1. a \in Position /\ a[1] \in 1 .. b /\ a[2] \in DOMAIN new[a[1]].at /\ a = <<a[1], a[2]>>
    BY <1>6, <1>7, AddrIn
  <2>2. CASE a[1] = b
    <3>1. a[2] \in DOMAIN g.at /\ a[2] # g.length
      BY <1>5, <1>8, <1>14, <2>1, <2>2
    <3>2. a[2] \in DOMAIN base[b].at
      BY <1>4, <3>1
    <3>3. base[b] = log[b] /\ Len(log) = b
      <4>1. ASSUME NEW cap PROVE base[b] # EmptyBlock(cap)
        <5>1. EmptyBlock(cap).at = <<>> /\ DOMAIN <<>> = {}
          BY DEF EmptyBlock
        <5> QED  BY <3>2, <5>1
      <4> QED  BY <1>1, <4>1
    <3> QED  BY <2>1, <2>2, <3>2, <3>3, AddrIn
  <2>3. CASE a[1] # b
    <3>1. a[1] \in 1 .. b - 1 /\ a[1] \in 1 .. Len(log)
      BY <1>1, <2>1, <2>3
    <3> QED  BY <1>5, <2>1, <3>1, AddrIn
  <2> QED  BY <2>2, <2>3
<1>15. p \notin AddrOf(log)
  BY <1>8, <1>13, BeforeOrder
<1> QED  BY <1>7, <1>8, <1>9, <1>10, <1>11, <1>12, <1>13, <1>14, <1>15 DEF new, p

-----------------------------------------------------------------------------
(* A value overwritten in place, and a log that is cut. *)

Overwritten(log, a, v) == [log EXCEPT ![a[1]].at[a[2]].value = v]

\* An entry overwritten by a value of its length leaves the log in order.
LEMMA OverwriteKeeps ==
    ASSUME NEW log, LogOK(log), NEW a \in AddrOf(log), NEW v \in 0 .. 99,
           ValueLen(v) = ValueLen(Ent(log, a).value)
    PROVE  LET new == Overwritten(log, a, v)
           IN  /\ LogOK(new) /\ AddrOf(new) = AddrOf(log) /\ TailOf(new) = TailOf(log)
               /\ \A c \in AddrOf(log) :
                    /\ Ent(new, c).node = Ent(log, c).node /\ Ent(new, c).old = Ent(log, c).old
                    /\ Ent(new, c).value = IF c = a THEN v ELSE Ent(log, c).value
<1> DEFINE new == Overwritten(log, a, v)
           b == a[1]
           o == a[2]
           blk == log[b]
           e == blk.at[o]
           e2 == [node |-> e.node, old |-> e.old, value |-> v]
           at2 == [x \in DOMAIN blk.at |-> IF x = o THEN e2 ELSE blk.at[x]]
           blk2 == [cap |-> blk.cap, length |-> blk.length, at |-> at2]
<1>0. PICK X : log \in Seq(X)
  BY DEF LogOK
<1>1. a \in Position /\ b \in 1 .. Len(log) /\ o \in DOMAIN blk.at /\ a = <<b, o>> /\ IsEntry(e)
  BY AddrIn DEF Ent
<1>2. BlockOK(blk)
  BY <1>1 DEF LogOK
<1>3. Len(log) \in Nat /\ log = [i \in 1 .. Len(log) |-> log[i]]
  BY <1>0
<1>4. new = [i \in 1 .. Len(log) |-> IF i = b THEN blk2 ELSE log[i]]
  <2>1. new = [log EXCEPT ![b] = [blk EXCEPT !.at = [blk.at EXCEPT ![o] = [e EXCEPT !.value = v]]]]
    BY DEF Overwritten
  <2>2. [e EXCEPT !.value = v] = e2
    <3> HIDE DEF e
    <3> QED  BY <1>1 DEF IsEntry
  <2>3. [blk.at EXCEPT ![o] = e2] = at2
    <3>1. blk.at = [x \in DOMAIN blk.at |-> blk.at[x]]
      BY <1>2 DEF BlockOK
    <3> HIDE DEF e2, o, blk
    <3> QED  BY <3>1
  <2>4. [blk EXCEPT !.at = at2] = blk2
    <3> HIDE DEF at2, blk
    <3> QED  BY <1>2 DEF BlockOK
  <2>5. new = [log EXCEPT ![b] = blk2]
    <3> HIDE DEF new, at2, blk2, e2, blk, e
    <3> QED  BY <2>1, <2>2, <2>3, <2>4
  <2> HIDE DEF new, blk2, b
  <2> QED  BY <1>3, <2>5
<1> HIDE DEF new, b, o, blk, blk2
<1>5. /\ new[b] = blk2 /\ \A i \in 1 .. Len(log) : i # b => new[i] = log[i]
      /\ new = [i \in 1 .. Len(log) |-> new[i]]
  BY <1>1, <1>4, Zenon
<1>6. (\E Y : new \in Seq(Y)) /\ Len(new) = Len(log)
  BY <1>3, <1>5, FunctionIsSeq
<1>7. blk2.length = blk.length /\ blk2.at = at2 /\ blk2 = [cap |-> blk2.cap, length |-> blk2.length, at |-> blk2.at]
  BY DEF blk2
<1>8. /\ DOMAIN at2 = DOMAIN blk.at /\ at2[o] = e2 /\ \A x \in DOMAIN blk.at : x # o => at2[x] = blk.at[x]
      /\ at2 = [x \in DOMAIN at2 |-> at2[x]]
  BY <1>1, Zenon
<1>9. e2.node = e.node /\ e2.old = e.old /\ e2.value = v /\ IsEntry(e2)
      /\ EntrySize(v) = EntrySize(e.value)
  BY DEF IsEntry, EntrySize, Ent, e, blk, b, o
<1> HIDE DEF at2, e2, e
<1>10. \A x \in DOMAIN blk.at : /\ EntrySize(at2[x].value) = EntrySize(blk.at[x].value)
                               /\ IsEntry(at2[x])
  <2>1. \A x \in DOMAIN blk.at : IsEntry(blk.at[x])
    BY <1>2 DEF BlockOK
  <2> QED  BY <1>8, <1>9, <2>1 DEF e
<1>11. BlockOK(blk2)
  BY <1>2, <1>7, <1>8, <1>10 DEF BlockOK
<1>12. LogOK(new)
  <2>1. ASSUME NEW i \in 1 .. Len(log) PROVE BlockOK(new[i])
    <3>1. CASE i = b
      BY <1>5, <1>11, <3>1
    <3>2. CASE i # b
      BY <1>5, <3>2 DEF LogOK
    <3> QED  BY <3>1, <3>2
  <2> QED  BY <1>6, <2>1 DEF LogOK
<1>13. \A i \in 1 .. Len(log) : DOMAIN new[i].at = DOMAIN log[i].at /\ new[i].length = log[i].length
  BY <1>5, <1>7, <1>8 DEF blk
<1>14. AddrOf(new) = AddrOf(log)
  <2>1. \A c : c \in AddrOf(new) <=> c \in AddrOf(log)
    BY <1>6, <1>12, <1>13, AddrIn
  <2> QED  BY <2>1
<1>15. TailOf(new) = TailOf(log)
  <2>1. log # <<>> /\ new # <<>> /\ Len(log) \in 1 .. Len(log)
    BY <1>1, <1>3, <1>6
  <2> QED  BY <1>6, <1>13, <2>1 DEF TailOf
<1>16. ASSUME NEW c \in AddrOf(log)
       PROVE  /\ Ent(new, c).node = Ent(log, c).node /\ Ent(new, c).old = Ent(log, c).old
              /\ Ent(new, c).value = IF c = a THEN v ELSE Ent(log, c).value
  <2>1. c[1] \in 1 .. Len(log) /\ c[2] \in DOMAIN log[c[1]].at /\ c = <<c[1], c[2]>>
    BY AddrIn
  <2>2. CASE c = a
    <3>1. Ent(new, c) = e2 /\ Ent(log, c) = e
      BY <1>5, <1>7, <1>8, <2>2 DEF Ent, e, b, o, blk
    <3> QED  BY <1>9, <2>2, <3>1
  <2>3. CASE c # a
    <3>1. CASE c[1] # b
      BY <1>5, <2>1, <2>3, <3>1 DEF Ent
    <3>2. CASE c[1] = b
      <4>1. c[2] # o /\ c[2] \in DOMAIN blk.at
        BY <1>1, <2>1, <2>3, <3>2 DEF blk
      <4>2. Ent(new, c) = at2[c[2]] /\ Ent(log, c) = blk.at[c[2]]
        BY <1>5, <1>7, <3>2 DEF Ent, blk
      <4> QED  BY <1>8, <2>3, <4>1, <4>2
    <3> QED  BY <3>1, <3>2
  <2> QED  BY <2>2, <2>3
<1> QED  BY <1>12, <1>14, <1>15, <1>16 DEF new

CutLog(log, cp) ==
    IF cp.blocks = 0 THEN <<>>
    ELSE Append(SubSeq(log, 1, cp.blocks - 1),
                [cap |-> log[cp.blocks].cap, length |-> cp.offset,
                 at |-> [o \in {x \in DOMAIN log[cp.blocks].at : x <= cp.offset} |->
                            log[cp.blocks].at[o]]])

\* A log cut at a checkpoint ends there and keeps what was written before.
LEMMA CutKeeps ==
    ASSUME NEW log, LogOK(log), NEW cp, Pos(cp) \in AddrOf(log) \cup {NullAddr}
    PROVE  LET new == CutLog(log, cp)
           IN  /\ LogOK(new) /\ TailOf(new) = Pos(cp)
               /\ AddrOf(new) = {a \in AddrOf(log) : UpTo(a, Pos(cp))}
               /\ \A a \in AddrOf(new) : Ent(new, a) = Ent(log, a)
<1> DEFINE new == CutLog(log, cp)
           b == cp.blocks
           off == cp.offset
           blk == log[b]
           D == {x \in DOMAIN blk.at : x <= off}
           at2 == [o \in D |-> blk.at[o]]
           kept == [cap |-> blk.cap, length |-> off, at |-> at2]
<1>0. PICK X : log \in Seq(X)
  BY DEF LogOK
<1>a. Pos(cp) = <<b, off>> /\ Pos(cp)[1] = b /\ Pos(cp)[2] = off /\ Pos(cp) \in Position
  BY AddrIn, BeforeOrder DEF Pos
<1>1. CASE Pos(cp) = NullAddr
  <2>1. b = 0 /\ off = 0 /\ new = <<>>
    BY <1>a, <1>1 DEF NullAddr, CutLog
  <2>2. LogOK(<<>>) /\ Len(<<>>) = 0
    <3>1. <<>> \in Seq({})
      OBVIOUS
    <3> QED  BY <3>1 DEF LogOK
  <2>3. AddrOf(<<>>) = {}
    BY <2>2, AddrIn
  <2>4. \A a \in AddrOf(log) : ~UpTo(a, Pos(cp))
    <3> SUFFICES ASSUME NEW a \in AddrOf(log), UpTo(a, NullAddr) PROVE FALSE
      BY <1>1
    <3>1. a \in Position /\ a # NullAddr
      BY AddrIn
    <3> QED  BY <3>1 DEF UpTo, Before, NullAddr, Position
  <2> QED  BY <1>a, <2>1, <2>2, <2>3, <2>4 DEF TailOf
<1>2. CASE Pos(cp) \in AddrOf(log)
  <2>1. b \in 1 .. Len(log) /\ off \in DOMAIN blk.at /\ Len(log) \in Nat /\ b \in Nat \ {0}
    BY <1>0, <1>a, <1>2, AddrIn
  <2>2. BlockOK(blk)
    BY <2>1 DEF LogOK
  <2>3. new = [i \in 1 .. b |-> IF i = b THEN kept ELSE log[i]] 
    <3> DEFINE s == SubSeq(log, 1, b - 1)
               Y == X \cup {kept}
    <3>1. new = Append(s, kept)
      BY <2>1 DEF CutLog
    <3> HIDE DEF kept, b, new
    <3>2. log \in Seq(Y) /\ kept \in Y
      BY <1>0
    <3> HIDE DEF Y
    <3>3. s \in Seq(Y) /\ Len(s) = b - 1 /\ \A i \in 1 .. b - 1 : s[i] = log[i]
      BY <2>1, <3>2
    <3> HIDE DEF s
    <3>4. /\ new \in Seq(Y) /\ Len(new) = b
          /\ \A i \in 1 .. b : new[i] = IF i = b THEN kept ELSE s[i]
      BY <2>1, <3>1, <3>2, <3>3
    <3>5. \A i \in 1 .. b : i # b => i \in 1 .. b - 1
      BY <2>1
    <3>6. new = [i \in 1 .. b |-> new[i]]
      BY <3>4
    <3>7. \A i \in 1 .. b : new[i] = IF i = b THEN kept ELSE log[i]
      BY <3>3, <3>4, <3>5
    <3> QED  BY <3>6, <3>7
  <2> HIDE DEF new, b, off, blk, kept
  <2>4. /\ b \in 1 .. b /\ new[b] = kept /\ \A i \in 1 .. b : i # b => new[i] = log[i]
        /\ new = [i \in 1 .. b |-> new[i]]
    <3>1. b \in 1 .. b
      BY <2>1
    <3> QED  BY <2>3, <3>1, Zenon
  <2>5. (\E Y : new \in Seq(Y)) /\ Len(new) = b
    BY <2>1, <2>4, FunctionIsSeq
  <2>6. kept.length = off /\ kept.at = at2 /\ kept = [cap |-> kept.cap, length |-> kept.length, at |-> kept.at]
    BY DEF kept
  <2>7. DOMAIN at2 = D /\ (\A o \in D : at2[o] = blk.at[o]) /\ at2 = [o \in DOMAIN at2 |-> at2[o]]
    BY Zenon
  <2> HIDE DEF at2
  <2>8. BlockOK(kept)
    <3>1. \A o \in DOMAIN blk.at :
            /\ o \in Nat \ {0} /\ o <= blk.length /\ IsEntry(blk.at[o])
            /\ o - EntrySize(blk.at[o].value) \in Nat
            /\ o - EntrySize(blk.at[o].value) = 0 \/ o - EntrySize(blk.at[o].value) \in DOMAIN blk.at
            /\ \A q \in DOMAIN blk.at : q <= o - EntrySize(blk.at[o].value) \/ o <= q
            /\ EntrySize(blk.at[o].value) \in Nat
      BY <2>2, EntrySizeNat DEF BlockOK, IsEntry
    <3>2. off \in D
      BY <2>1, <3>1
    <3>3. ASSUME NEW o \in D
          PROVE  /\ o \in Nat \ {0} /\ o <= kept.length /\ IsEntry(at2[o])
                 /\ o - EntrySize(at2[o].value) \in Nat
                 /\ o - EntrySize(at2[o].value) = 0 \/ o - EntrySize(at2[o].value) \in D
                 /\ \A q \in D : q <= o - EntrySize(at2[o].value) \/ o <= q
      <4>1. o \in DOMAIN blk.at /\ o <= off /\ at2[o] = blk.at[o] /\ off \in Nat
        BY <2>1, <2>7, <3>1
      <4> DEFINE sz == EntrySize(blk.at[o].value)
      <4>2. /\ o \in Nat \ {0} /\ sz \in Nat /\ o - sz \in Nat
            /\ (o - sz = 0 \/ o - sz \in DOMAIN blk.at) /\ IsEntry(blk.at[o])
            /\ \A q \in DOMAIN blk.at : q <= o - sz \/ o <= q
        BY <3>1, <4>1
      <4> HIDE DEF sz
      <4>3. o - sz <= off
        BY <4>1, <4>2
      <4>4. o - sz = 0 \/ o - sz \in D
        BY <4>2, <4>3
      <4> QED  BY <2>6, <4>1, <4>2, <4>4 DEF sz
    <3> QED  BY <2>6, <2>7, <3>2, <3>3 DEF BlockOK
  <2>9. LogOK(new)
    <3>1. ASSUME NEW i \in 1 .. b PROVE BlockOK(new[i])
      <4>1. CASE i = b
        BY <2>4, <2>8, <4>1
      <4>2. CASE i # b
        <5>1. i \in 1 .. Len(log)
          BY <2>1
        <5> QED  BY <2>4, <4>2, <5>1 DEF LogOK
      <4> QED  BY <4>1, <4>2
    <3> QED  BY <2>5, <3>1 DEF LogOK
  <2>10. TailOf(new) = Pos(cp)
    <3>1. new # <<>>
      BY <2>1, <2>5
    <3> QED  BY <1>a, <2>4, <2>5, <2>6, <3>1 DEF TailOf
  <2>11. ASSUME NEW a \in AddrOf(new)
         PROVE  a \in AddrOf(log) /\ UpTo(a, Pos(cp)) /\ Ent(new, a) = Ent(log, a)
    <3>1. a \in Position /\ a[1] \in 1 .. b /\ a[2] \in DOMAIN new[a[1]].at /\ a = <<a[1], a[2]>>
          /\ a[1] \in 1 .. Len(log) /\ a[1] \in Nat /\ a[2] \in Nat
      BY <2>1, <2>5, <2>9, AddrIn DEF Position
    <3>2. CASE a[1] = b
      <4>1. a[2] \in D /\ at2[a[2]] = blk.at[a[2]]
        BY <2>4, <2>6, <2>7, <3>1, <3>2
      <4>2. a \in AddrOf(log)
        BY <3>1, <3>2, <4>1, AddrIn DEF blk
      <4>3. UpTo(a, Pos(cp))
        <5>1. CASE a[2] = off
          BY <1>a, <3>1, <3>2, <5>1 DEF UpTo
        <5>2. CASE a[2] < off
          BY <1>a, <3>2, <5>2 DEF UpTo, Before
        <5>3. off \in Nat
          BY <1>a DEF Position
        <5> QED  BY <3>1, <4>1, <5>1, <5>2, <5>3
      <4> QED  BY <2>4, <2>6, <3>2, <4>1, <4>2, <4>3 DEF Ent, blk
    <3>3. CASE a[1] # b
      <4>1. new[a[1]] = log[a[1]] /\ a[1] < b
        BY <2>1, <2>4, <3>1, <3>3
      <4>2. a \in AddrOf(log)
        BY <3>1, <4>1, AddrIn
      <4> QED  BY <1>a, <4>1, <4>2 DEF Ent, UpTo, Before
    <3> QED  BY <3>2, <3>3
  <2>12. ASSUME NEW a \in AddrOf(log), UpTo(a, Pos(cp))
         PROVE  a \in AddrOf(new)
    <3>1. a \in Position /\ a[1] \in 1 .. Len(log) /\ a[2] \in DOMAIN log[a[1]].at
          /\ a[1] \in Nat /\ a[2] \in Nat
      BY AddrIn DEF Position
    <3>2. \/ a[1] = b /\ a[2] <= off
          \/ a[1] < b
      <4>1. off \in Nat
        BY <1>a DEF Position
      <4> QED  BY <1>a, <2>12, <3>1, <4>1 DEF UpTo, Before
    <3>3. CASE a[1] = b /\ a[2] <= off
      <4>1. a[2] \in DOMAIN new[a[1]].at
        BY <2>4, <2>6, <2>7, <3>1, <3>3 DEF blk
      <4> QED  BY <2>4, <2>5, <2>9, <3>1, <3>3, <4>1, AddrIn
    <3>4. CASE a[1] < b
      <4>1. a[1] \in 1 .. b /\ a[1] # b
        BY <2>1, <3>1, <3>4
      <4> QED  BY <2>4, <2>5, <2>9, <3>1, <4>1, AddrIn
    <3> QED  BY <3>2, <3>3, <3>4
  <2> QED  BY <2>9, <2>10, <2>11, <2>12 DEF new
<1> QED  BY <1>1, <1>2

-----------------------------------------------------------------------------
(* The chains of versions, and what a snapshot reads from them. *)

Of(log, k) == {a \in AddrOf(log) : Ent(log, a).node = k}
OldVersions(log, a) == {c \in Of(log, Ent(log, a).node) : Before(c, a)}
ValueOf(log, p) == IF p = NullAddr THEN NotExist ELSE Ent(log, p).value

NodesOK(nodes) ==
    /\ DOMAIN nodes \subseteq BKey
    /\ nodes = [k \in DOMAIN nodes |-> nodes[k]]
    /\ \A k \in DOMAIN nodes : nodes[k] = [vptr |-> nodes[k].vptr, flags |-> nodes[k].flags]

\* A node points at the newest entry of its key, an entry at the one before it.
ChainOK(nodes, log) ==
    /\ \A a \in AddrOf(log) : Ent(log, a).node \in DOMAIN nodes
    /\ \A k \in DOMAIN nodes : IsNewest(nodes[k].vptr, Of(log, k))
    /\ \A a \in AddrOf(log) : IsNewest(Ent(log, a).old, OldVersions(log, a))

\* A checkpoint is an entry or the beginning; a later stage has a later one.
StagesOK(stages, log) ==
    /\ \A i \in 1 .. Len(stages) : Pos(stages[i]) \in AddrOf(log) \cup {NullAddr}
    /\ \A i, j \in 1 .. Len(stages) : i <= j => UpTo(Pos(stages[i]), Pos(stages[j]))

\* A buffer whose values can be read, and one that has given them up.
Live(db) ==
    /\ Shape(db) /\ db.vlogInvalid = FALSE
    /\ NodesOK(db.nodes) /\ (\E X : db.stages \in Seq(X))
    /\ LogOK(db.log) /\ ChainOK(db.nodes, db.log) /\ StagesOK(db.stages, db.log)
Discarded(db) == Shape(db) /\ db.vlogInvalid = TRUE /\ (\E X : db.stages \in Seq(X))
BufInv(db) == Live(db) \/ Discarded(db)

\* The versions of a that a snapshot at position c keeps.
Kept(log, a, c) == {x \in Of(log, Ent(log, a).node) : UpTo(x, a) /\ UpTo(x, c)}

\* Addresses of entries are positions, and none is the null address.
LEMMA AddrPosition ==
    ASSUME NEW log, LogOK(log)
    PROVE  AddrOf(log) \in SUBSET Position /\ NullAddr \notin AddrOf(log)
BY AddrIn

\* Behind the checkpoint an entry and its old version keep the same.
LEMMA KeptOfOld ==
    ASSUME NEW nodes, NEW log, LogOK(log), ChainOK(nodes, log),
           NEW a \in AddrOf(log), NEW c \in Position
    PROVE  /\ UpTo(a, c) => IsNewest(a, Kept(log, a, c))
           /\ ~UpTo(a, c) => LET o == Ent(log, a).old IN
                \/ o = NullAddr /\ Kept(log, a, c) = {}
                \/ /\ o \in AddrOf(log) /\ Before(o, a)
                   /\ Kept(log, a, c) = Kept(log, o, c)
<1> DEFINE o == Ent(log, a).old
           k == Ent(log, a).node
<1>1. /\ \A x \in AddrOf(log) : x \in Position /\ x # NullAddr
      /\ IsNewest(o, {x \in AddrOf(log) : Ent(log, x).node = k /\ Before(x, a)})
  <2>1. OldVersions(log, a) = {x \in AddrOf(log) : Ent(log, x).node = k /\ Before(x, a)}
    BY DEF OldVersions, Of
  <2> QED  BY <2>1, AddrPosition DEF ChainOK
<1>2. UpTo(a, c) => IsNewest(a, Kept(log, a, c))
  BY DEF Kept, Of, IsNewest, UpTo
<1> HIDE DEF o, k
<1>3. ASSUME ~UpTo(a, c)
      PROVE  \/ o = NullAddr /\ Kept(log, a, c) = {}
             \/ o \in AddrOf(log) /\ Before(o, a) /\ Kept(log, a, c) = Kept(log, o, c)
  <2>1. CASE {x \in AddrOf(log) : Ent(log, x).node = k /\ Before(x, a)} = {}
    <3>1. o = NullAddr
      BY <1>1, <2>1 DEF IsNewest
    <3>2. Kept(log, a, c) = {}
      BY <1>3, <2>1 DEF Kept, Of, UpTo, k
    <3> QED  BY <3>1, <3>2
  <2>2. CASE {x \in AddrOf(log) : Ent(log, x).node = k /\ Before(x, a)} # {}
    <3>1. /\ o \in AddrOf(log) /\ Ent(log, o).node = k /\ Before(o, a)
          /\ \A x \in AddrOf(log) : Ent(log, x).node = k /\ Before(x, a) => UpTo(x, o)
      BY <1>1, <2>2 DEF IsNewest
    <3>2. \A x \in AddrOf(log) : Ent(log, x).node = k /\ UpTo(x, o) => Before(x, a)
      BY <1>1, <3>1, BeforeOrder DEF UpTo
    <3>3. \A x \in AddrOf(log) :
            Ent(log, x).node = k /\ UpTo(x, c) => (UpTo(x, a) <=> UpTo(x, o))
      BY <1>3, <3>1, <3>2 DEF UpTo
    <3>4. Kept(log, a, c) = Kept(log, o, c)
      BY <3>1, <3>3 DEF Kept, Of, k
    <3> QED  BY <3>1, <3>4
  <2> QED  BY <2>1, <2>2
<1> QED  BY <1>2, <1>3 DEF o

\* Following the chain of old versions ends, and at the newest version a snapshot keeps.
LEMMA KeptNewest ==
    ASSUME NEW nodes, NEW log, LogOK(log), ChainOK(nodes, log), NEW c \in Position
    PROVE  \A a \in AddrOf(log) : \E p : IsNewest(p, Kept(log, a, c))
<1> DEFINE Bad == {a \in AddrOf(log) : ~\E p : IsNewest(p, Kept(log, a, c))}
<1> SUFFICES ASSUME Bad # {} PROVE FALSE
  OBVIOUS
<1>1. Bad \in SUBSET Position
  BY AddrPosition
<1>2. PICK a \in Bad : \A x \in Bad : ~Before(x, a)
  BY <1>1, FirstPosition
<1>3. a \in AddrOf(log) /\ ~UpTo(a, c)
  BY <1>2, KeptOfOld
<1> DEFINE o == Ent(log, a).old
<1>4. \/ o = NullAddr /\ Kept(log, a, c) = {}
      \/ o \in AddrOf(log) /\ Before(o, a) /\ Kept(log, a, c) = Kept(log, o, c)
  BY <1>3, KeptOfOld
<1> HIDE DEF o
<1>5. CASE Kept(log, a, c) = {}
  BY <1>2, <1>5 DEF IsNewest
<1>6. CASE o \in AddrOf(log) /\ Before(o, a) /\ Kept(log, a, c) = Kept(log, o, c)
  BY <1>2, <1>6
<1> QED  BY <1>4, <1>5, <1>6

\* getSnapshotValue walks to the newest entry that is not behind the checkpoint.
LEMMA SnapshotWalk ==
    ASSUME NEW db, LogOK(db.log), ChainOK(db.nodes, db.log),
           NEW cp, Pos(cp) \in Position
    PROVE  /\ SnapshotValue(db, NullAddr, cp) = NotExist
           /\ \A a \in AddrOf(db.log) : \A p :
                IsNewest(p, Kept(db.log, a, Pos(cp)))
                  => SnapshotValue(db, a, cp) = ValueOf(db.log, p)
<1> DEFINE log == db.log
           A == AddrOf(log)
           c == Pos(cp)
           version[b \in A \cup {NullAddr}] ==
             IF b = NullAddr THEN NotExist
             ELSE IF ~CanModify(cp, b) THEN Ent(log, b).value
             ELSE version[Ent(log, b).old]
           New(b) == CHOOSE p : IsNewest(p, Kept(log, b, c))
           F == [b \in A \cup {NullAddr} |->
                   IF b = NullAddr THEN NotExist ELSE ValueOf(log, New(b))]
           Eq(G) == G = [b \in A \cup {NullAddr} |->
                           IF b = NullAddr THEN NotExist
                           ELSE IF ~CanModify(cp, b) THEN Ent(log, b).value
                           ELSE G[Ent(log, b).old]]
<1>1. \A a : SnapshotValue(db, a, cp) = version[a]
  BY DEF SnapshotValue, Addresses, AddrOf, Entry, Ent
<1>2. version = CHOOSE G : Eq(G)
  BY DEF version
<1> HIDE DEF version, A
<1>3. /\ A = AddrOf(log) /\ A \in SUBSET Position /\ NullAddr \notin A
      /\ \A b \in A : Kept(log, b, c) \in SUBSET Position
  BY AddrPosition DEF A, Kept, Of
<1>4. \A b \in A : IsNewest(New(b), Kept(log, b, c))
  BY <1>3, KeptNewest
<1>5. \A b \in A : \A p : IsNewest(p, Kept(log, b, c)) => New(b) = p
  <2> HIDE DEF New
  <2> QED  BY <1>3, <1>4, NewestUnique
<1>6. /\ F[NullAddr] = NotExist /\ \A b \in A : F[b] = ValueOf(log, New(b))
  BY <1>3, Zenon
<1> HIDE DEF New
<1>7. ASSUME NEW b \in A
      PROVE  /\ ~CanModify(cp, b) <=> UpTo(b, c)
             /\ UpTo(b, c) => F[b] = Ent(log, b).value
             /\ ~UpTo(b, c) => /\ Ent(log, b).old \in A \cup {NullAddr}
                               /\ Ent(log, b).old = NullAddr \/ Before(Ent(log, b).old, b)
                               /\ F[b] = F[Ent(log, b).old]
  <2>1. ~CanModify(cp, b) <=> UpTo(b, c)
    BY <1>3, CanModifyBefore
  <2>2. ASSUME UpTo(b, c)
        PROVE  F[b] = Ent(log, b).value
    <3>1. New(b) = b
      BY <1>3, <1>5, <2>2, KeptOfOld
    <3> HIDE DEF F
    <3> QED  BY <1>3, <1>6, <3>1 DEF ValueOf
  <2>3. ASSUME ~UpTo(b, c)
        PROVE  /\ Ent(log, b).old \in A \cup {NullAddr}
               /\ Ent(log, b).old = NullAddr \/ Before(Ent(log, b).old, b)
               /\ F[b] = F[Ent(log, b).old]
    <3> DEFINE o == Ent(log, b).old
    <3> HIDE DEF F
    <3>1. \/ o = NullAddr /\ Kept(log, b, c) = {}
          \/ o \in A /\ Before(o, b) /\ Kept(log, b, c) = Kept(log, o, c)
      BY <1>3, <2>3, KeptOfOld
    <3> HIDE DEF o
    <3>2. CASE o = NullAddr /\ Kept(log, b, c) = {}
      <4>1. New(b) = NullAddr
        BY <1>5, <3>2 DEF IsNewest
      <4> QED  BY <1>6, <3>2, <4>1 DEF ValueOf, o
    <3>3. CASE o \in A /\ Before(o, b) /\ Kept(log, b, c) = Kept(log, o, c)
      <4>1. New(b) = New(o)
        BY <1>4, <1>5, <3>3
      <4> QED  BY <1>6, <3>3, <4>1 DEF o
    <3> QED  BY <3>1, <3>2, <3>3
  <2> QED  BY <2>1, <2>2, <2>3
<1>8. Eq(F)
  <2>1. \A b \in A \cup {NullAddr} :
           F[b] = IF b = NullAddr THEN NotExist
                  ELSE IF ~CanModify(cp, b) THEN Ent(log, b).value
                  ELSE F[Ent(log, b).old]
    <3> HIDE DEF F
    <3> QED  BY <1>3, <1>6, <1>7
  <2>2. F = [b \in A \cup {NullAddr} |-> F[b]]
    OBVIOUS
  <2> HIDE DEF F
  <2> QED  BY <2>1, <2>2, Zenon
<1>9. Eq(version)
  <2> HIDE DEF Eq, F
  <2> QED  BY <1>2, <1>8, Zenon
<1> HIDE DEF F
<1>10. \A b \in A \cup {NullAddr} :
           version[b] = IF b = NullAddr THEN NotExist
                        ELSE IF ~CanModify(cp, b) THEN Ent(log, b).value
                        ELSE version[Ent(log, b).old]
  BY <1>9, Zenon
<1> DEFINE Bad == {b \in A : version[b] # F[b]}
<1>11. Bad = {}
  <2> SUFFICES ASSUME Bad # {} PROVE FALSE
    OBVIOUS
  <2>1. Bad \in SUBSET Position
    BY <1>3
  <2>2. PICK b \in Bad : \A x \in Bad : ~Before(x, b)
    BY <2>1, FirstPosition
  <2>3. b \in A /\ b # NullAddr /\ ~UpTo(b, c)
    BY <1>3, <1>7, <1>10, <2>2
  <2> DEFINE o == Ent(log, b).old
  <2>4. /\ o \in A \cup {NullAddr} /\ (o = NullAddr \/ Before(o, b))
        /\ F[b] = F[o] /\ version[b] = version[o]
    BY <1>7, <1>10, <2>3
  <2> HIDE DEF o
  <2>5. version[o] = F[o]
    BY <1>6, <1>10, <2>2, <2>4
  <2> QED  BY <2>2, <2>4, <2>5
<1>12. \A b \in A : \A p : IsNewest(p, Kept(log, b, c)) => version[b] = ValueOf(log, p)
  BY <1>5, <1>6, <1>11
<1> QED  BY <1>1, <1>3, <1>10, <1>12

VersionsAt(log, k, c) == {a \in Of(log, k) : UpTo(a, c)}

\* Get reads the newest version of a key, a snapshot the newest one of its time.
LEMMA ReadsNewest ==
    ASSUME NEW db, Live(db), NEW k
    PROVE  /\ \E p : IsNewest(p, Of(db.log, k)) /\ BufferGet(db, k) = ValueOf(db.log, p)
           /\ \A cp : Pos(cp) \in Position =>
                \E p : /\ IsNewest(p, VersionsAt(db.log, k, Pos(cp)))
                       /\ SnapshotGet(db, k, cp) = ValueOf(db.log, p)
<1> DEFINE log == db.log
           q == db.nodes[k].vptr
<1>0. LogOK(log) /\ ChainOK(db.nodes, log) /\ NullAddr \notin AddrOf(log)
      /\ AddrOf(log) \in SUBSET Position
  BY AddrPosition DEF Live
<1>1. CASE k \notin DOMAIN db.nodes
  <2>1. Of(log, k) = {} /\ \A c : VersionsAt(log, k, c) = {}
    BY <1>0, <1>1 DEF ChainOK, Of, VersionsAt
  <2>2. BufferGet(db, k) = NotExist /\ \A cp : SnapshotGet(db, k, cp) = NotExist
    BY <1>1 DEF BufferGet, SnapshotGet
  <2> QED  BY <2>1, <2>2 DEF IsNewest, ValueOf
<1>2. CASE k \in DOMAIN db.nodes
  <2>1. IsNewest(q, Of(log, k))
    BY <1>0, <1>2 DEF ChainOK
  <2>2. BufferGet(db, k) = ValueOf(log, q)
    BY <1>2 DEF BufferGet, ValueOf, Entry, Ent
  <2>3. ASSUME NEW cp, Pos(cp) \in Position
        PROVE  \E p : /\ IsNewest(p, VersionsAt(log, k, Pos(cp)))
                      /\ SnapshotGet(db, k, cp) = ValueOf(log, p)
    <3>1. SnapshotGet(db, k, cp) = SnapshotValue(db, q, cp)
      BY <1>2 DEF SnapshotGet
    <3> HIDE DEF q
    <3>2. CASE Of(log, k) = {}
      <4>1. q = NullAddr /\ VersionsAt(log, k, Pos(cp)) = {}
        BY <2>1, <3>2 DEF IsNewest, VersionsAt
      <4>2. SnapshotGet(db, k, cp) = NotExist
        BY <1>0, <2>3, <3>1, <4>1, SnapshotWalk
      <4> QED  BY <4>1, <4>2 DEF IsNewest, ValueOf
    <3>3. CASE Of(log, k) # {}
      <4>1. q \in AddrOf(log) /\ Ent(log, q).node = k /\ \A a \in Of(log, k) : UpTo(a, q)
        BY <2>1, <3>3 DEF IsNewest, Of
      <4>2. Kept(log, q, Pos(cp)) = VersionsAt(log, k, Pos(cp))
        BY <4>1 DEF Kept, VersionsAt
      <4>3. PICK p : IsNewest(p, Kept(log, q, Pos(cp)))
        BY <1>0, <2>3, <4>1, KeptNewest
      <4>4. SnapshotValue(db, q, cp) = ValueOf(log, p)
        BY <1>0, <2>3, <4>1, <4>3, SnapshotWalk
      <4> QED  BY <3>1, <4>2, <4>3, <4>4
    <3> QED  BY <3>2, <3>3
  <2> QED  BY <2>1, <2>2, <2>3
<1> QED  BY <1>1, <1>2

\* Two logs have the same values at S.
Agree(log2, log, S) == \A a \in S : Ent(log2, a).value = Ent(log, a).value

\* Two buffers with the same versions of a key read the same.
LEMMA SameNewest ==
    ASSUME NEW log, LogOK(log), NEW log2, NEW S \in SUBSET AddrOf(log),
           NEW p, IsNewest(p, S), NEW q, IsNewest(q, S),
           Agree(log2, log, S)
    PROVE  ValueOf(log2, p) = ValueOf(log, q)
<1>0. AddrOf(log) \in SUBSET Position /\ NullAddr \notin AddrOf(log)
  BY AddrPosition
<1>1. p = q
  BY <1>0, NewestUnique
<1>2. p = NullAddr \/ p \in S
  BY DEF IsNewest
<1> QED  BY <1>0, <1>1, <1>2 DEF ValueOf, Agree

\* Get returns the same from two buffers that agree on the versions of the key.
LEMMA SameGets ==
    ASSUME NEW db, Live(db),
           NEW d2, Live(d2), NEW k,
           Of(d2.log, k) = Of(db.log, k),
           Agree(d2.log, db.log, Of(db.log, k))
    PROVE  BufferGet(d2, k) = BufferGet(db, k)
<1>1. PICK p : IsNewest(p, Of(d2.log, k)) /\ BufferGet(d2, k) = ValueOf(d2.log, p)
  BY ReadsNewest
<1>2. PICK q : IsNewest(q, Of(db.log, k)) /\ BufferGet(db, k) = ValueOf(db.log, q)
  BY ReadsNewest
<1>3. LogOK(db.log) /\ Of(db.log, k) \in SUBSET AddrOf(db.log)
  BY DEF Live, Of
<1> QED  BY <1>1, <1>2, <1>3, SameNewest

\* SnapshotGetter returns the same from two buffers that agree on the versions up
\* to its checkpoint.
LEMMA SameSnapshots ==
    ASSUME NEW db, Live(db),
           NEW d2, Live(d2), NEW k,
           NEW cp, Pos(cp) \in Position,
           VersionsAt(d2.log, k, Pos(cp)) = VersionsAt(db.log, k, Pos(cp)),
           Agree(d2.log, db.log, VersionsAt(db.log, k, Pos(cp)))
    PROVE  SnapshotGet(d2, k, cp) = SnapshotGet(db, k, cp)
<1>1. PICK p : /\ IsNewest(p, VersionsAt(d2.log, k, Pos(cp)))
               /\ SnapshotGet(d2, k, cp) = ValueOf(d2.log, p)
  BY ReadsNewest
<1>2. PICK q : /\ IsNewest(q, VersionsAt(db.log, k, Pos(cp)))
               /\ SnapshotGet(db, k, cp) = ValueOf(db.log, q)
  BY ReadsNewest
<1>3. LogOK(db.log) /\ VersionsAt(db.log, k, Pos(cp)) \in SUBSET AddrOf(db.log)
  BY DEF Live, Of, VersionsAt
<1> QED  BY <1>1, <1>2, <1>3, SameNewest

\* A buffer that has just the versions of a snapshot reads what the snapshot reads.
LEMMA GetIsSnapshot ==
    ASSUME NEW db, Live(db),
           NEW d2, Live(d2), NEW k,
           NEW cp, Pos(cp) \in Position,
           Of(d2.log, k) = VersionsAt(db.log, k, Pos(cp)),
           Agree(d2.log, db.log, Of(d2.log, k))
    PROVE  BufferGet(d2, k) = SnapshotGet(db, k, cp)
<1>1. PICK p : IsNewest(p, Of(d2.log, k)) /\ BufferGet(d2, k) = ValueOf(d2.log, p)
  BY ReadsNewest
<1>2. PICK q : /\ IsNewest(q, VersionsAt(db.log, k, Pos(cp)))
               /\ SnapshotGet(db, k, cp) = ValueOf(db.log, q)
  BY ReadsNewest
<1>3. LogOK(db.log) /\ VersionsAt(db.log, k, Pos(cp)) \in SUBSET AddrOf(db.log)
  BY DEF Live, Of, VersionsAt
<1> QED  BY <1>1, <1>2, <1>3, SameNewest

-----------------------------------------------------------------------------
(* Writing. *)

\* Operations that leave the log alone leave all that is read alone.
LEMMA SameLogReads ==
    ASSUME NEW db, Live(db),
           NEW d2, Live(d2), NEW k
    PROVE  d2.log = db.log =>
              /\ BufferGet(d2, k) = BufferGet(db, k)
              /\ \A cp : Pos(cp) \in Position => SnapshotGet(d2, k, cp) = SnapshotGet(db, k, cp)
<1>1. ASSUME NEW z, Pos(z) \in Position, d2.log = db.log
      PROVE  SnapshotGet(d2, k, z) = SnapshotGet(db, k, z)
  <2>1. /\ VersionsAt(d2.log, k, Pos(z)) = VersionsAt(db.log, k, Pos(z))
        /\ Agree(d2.log, db.log, VersionsAt(db.log, k, Pos(z)))
    BY <1>1 DEF Agree
  <2>2. Pos(z) \in Position
    BY <1>1
  <2> QED  BY <2>1, <2>2, SameSnapshots
<1>2. ASSUME d2.log = db.log
      PROVE  BufferGet(d2, k) = BufferGet(db, k)
  <2>1. /\ Of(d2.log, k) = Of(db.log, k)
        /\ Agree(d2.log, db.log, Of(db.log, k))
    BY <1>2 DEF Agree
  <2> QED  BY <2>1, SameGets
<1> QED  BY <1>1, <1>2

\* traverse gives a new key a node without a value.
LEMMA NodeAdded ==
    ASSUME NEW db, Live(db), NEW k \in BKey, NEW x,
           NEW d, d = WithNode([db EXCEPT !.dirty = x], k)
    PROVE  /\ Live(d) /\ d.log = db.log /\ d.stages = db.stages
           /\ k \in DOMAIN d.nodes
<1> DEFINE c == [db EXCEPT !.dirty = x]
<1>0. /\ c.nodes = db.nodes /\ c.log = db.log /\ c.stages = db.stages
      /\ c.vlogInvalid = FALSE /\ Shape(c)
  BY DEF Live, Shape
<1> HIDE DEF c
<1>1. CASE k \in DOMAIN db.nodes
  <2>1. d = c
    BY <1>0, <1>1 DEF WithNode, c
  <2> QED  BY <1>0, <1>1, <2>1 DEF Live
<1>2. CASE k \notin DOMAIN db.nodes
  <2> DEFINE n == [y \in DOMAIN db.nodes \cup {k} |-> IF y = k THEN FreshNode ELSE db.nodes[y]]
  <2>1. d = [c EXCEPT !.nodes = n, !.count = @ + 1, !.size = @ + KeyLen]
    BY <1>0, <1>2 DEF WithNode, c
  <2> HIDE DEF n
  <2>2. d.nodes = n /\ d.log = c.log /\ d.stages = c.stages /\ d.vlogInvalid = c.vlogInvalid /\ Shape(d)
    BY <1>0, <2>1 DEF Shape
  <2>3. /\ DOMAIN n = DOMAIN db.nodes \cup {k} /\ n[k] = FreshNode
        /\ \A y \in DOMAIN db.nodes : n[y] = db.nodes[y]
        /\ n = [y \in DOMAIN n |-> n[y]]
    BY <1>2, Zenon DEF n
  <2>4. NodesOK(n)
    BY <2>3 DEF Live, NodesOK, FreshNode
  <2>5. ChainOK(n, db.log)
    <3>1. ChainOK(db.nodes, db.log)
      BY DEF Live
    <3>2. Of(db.log, k) = {}
      BY <1>2, <3>1 DEF ChainOK, Of
    <3>3. IsNewest(n[k].vptr, Of(db.log, k))
      BY <2>3, <3>2 DEF IsNewest, FreshNode
    <3> QED  BY <2>3, <3>1, <3>3 DEF ChainOK
  <2> QED  BY <1>0, <2>2, <2>3, <2>4, <2>5 DEF Live
<1> QED  BY <1>1, <1>2

\* Flags are apart from the values.
LEMMA FlagsSet ==
    ASSUME NEW db, Live(db), NEW k \in DOMAIN db.nodes, NEW ops,
           NEW d, d = SetFlags(db, k, ops)
    PROVE  /\ Live(d) /\ d.log = db.log /\ d.stages = db.stages
           /\ k \in DOMAIN d.nodes
<1> DEFINE f == FoldLeft(ApplyFlagsOp, db.nodes[k].flags, ops)
           n == [db.nodes EXCEPT ![k].flags = f]
<1>1. d = [db EXCEPT !.nodes = n, !.dirty = @ \/ f \cap PersistentFlags # {}]
  BY DEF SetFlags
<1> HIDE DEF f
<1>2. /\ DOMAIN n = DOMAIN db.nodes
      /\ \A y \in DOMAIN n : n[y].vptr = db.nodes[y].vptr /\ n[y] = [vptr |-> n[y].vptr, flags |-> n[y].flags]
      /\ n = [y \in DOMAIN n |-> n[y]]
  <2> DEFINE N == db.nodes
  <2>1. /\ N = [y \in DOMAIN N |-> N[y]] /\ k \in DOMAIN N
        /\ \A y \in DOMAIN N : N[y] = [vptr |-> N[y].vptr, flags |-> N[y].flags]
    BY DEF Live, NodesOK
  <2>2. n = [N EXCEPT ![k] = [N[k] EXCEPT !.flags = f]]
    OBVIOUS
  <2> HIDE DEF N, n
  <2>3. [N[k] EXCEPT !.flags = f] = [vptr |-> N[k].vptr, flags |-> f]
    BY <2>1
  <2>4. n = [y \in DOMAIN N |-> IF y = k THEN [vptr |-> N[k].vptr, flags |-> f] ELSE N[y]]
    BY <2>1, <2>2, <2>3
  <2>5. DOMAIN n = DOMAIN N /\ n[k] = [vptr |-> N[k].vptr, flags |-> f]
        /\ \A y \in DOMAIN N : y # k => n[y] = N[y]
    BY <2>1, <2>4
  <2> QED  BY <2>1, <2>4, <2>5 DEF N
<1> HIDE DEF n
<1>3. d.nodes = n /\ d.log = db.log /\ d.stages = db.stages /\ d.vlogInvalid = db.vlogInvalid /\ Shape(d)
  BY <1>1 DEF Live, Shape
<1>4. NodesOK(n)
  BY <1>2 DEF NodesOK, Live
<1>5. ChainOK(n, db.log)
  BY <1>2 DEF Live, ChainOK
<1> QED  BY <1>2, <1>3, <1>4, <1>5 DEF Live

\* A new entry at the end of the log is the newest version of its key and the
\* old ones hang behind it.
LEMMA ChainGrows ==
    ASSUME NEW nodes, NodesOK(nodes), NEW log, LogOK(log), ChainOK(nodes, log),
           NEW k \in DOMAIN nodes, NEW v,
           NEW new, NEW p \in Position, p # NullAddr, p \notin AddrOf(log),
           AddrOf(new) = AddrOf(log) \cup {p},
           Ent(new, p) = [node |-> k, old |-> nodes[k].vptr, value |-> v],
           \A a \in AddrOf(log) : Before(a, p) /\ Ent(new, a) = Ent(log, a),
           NEW n2, n2 = [nodes EXCEPT ![k].vptr = p]
    PROVE  /\ NodesOK(n2) /\ ChainOK(n2, new)
           /\ IsNewest(p, Of(new, k)) /\ \A j : j # k => Of(new, j) = Of(log, j)
           /\ \A j, c : c \in AddrOf(log) \cup {NullAddr} =>
                VersionsAt(new, j, c) = VersionsAt(log, j, c)
<1>0. Ent(new, p).node = k /\ Ent(new, p).old = nodes[k].vptr
  OBVIOUS
<1>1. Of(new, k) = Of(log, k) \cup {p}
  BY <1>0 DEF Of
<1>2. \A j : j # k => Of(new, j) = Of(log, j)
  BY <1>0 DEF Of
<1>3. \A a \in AddrOf(log) : a \in Position /\ ~Before(p, a) /\ p # a
  BY AddrPosition, BeforeOrder
<1>4. IsNewest(p, Of(new, k))
  BY <1>1 DEF IsNewest, UpTo, Of
<1>5. /\ DOMAIN n2 = DOMAIN nodes /\ n2[k].vptr = p
      /\ \A j \in DOMAIN nodes : j # k => n2[j] = nodes[j]
      /\ n2 = [j \in DOMAIN n2 |-> n2[j]]
      /\ n2[k] = [vptr |-> n2[k].vptr, flags |-> n2[k].flags]
  BY DEF NodesOK
<1>6. NodesOK(n2)
  BY <1>5 DEF NodesOK
<1>7. OldVersions(new, p) = Of(log, k)
  <2>1. \A c \in Of(log, k) : Before(c, p) /\ c # p
    BY DEF Of
  <2>2. ~Before(p, p)
    BY BeforeOrder
  <2> QED  BY <1>0, <1>1, <2>1, <2>2 DEF OldVersions
<1>8. \A a \in AddrOf(log) : OldVersions(new, a) = OldVersions(log, a) /\ Ent(new, a) = Ent(log, a)
  BY <1>1, <1>2, <1>3 DEF OldVersions
<1>9. ChainOK(n2, new)
  <2>1. \A a \in AddrOf(new) : Ent(new, a).node \in DOMAIN n2
    BY <1>0, <1>5 DEF ChainOK
  <2>2. \A j \in DOMAIN n2 : IsNewest(n2[j].vptr, Of(new, j))
    BY <1>2, <1>4, <1>5 DEF ChainOK
  <2>3. \A a \in AddrOf(new) : IsNewest(Ent(new, a).old, OldVersions(new, a))
    BY <1>0, <1>7, <1>8 DEF ChainOK
  <2> QED  BY <2>1, <2>2, <2>3 DEF ChainOK
<1>10. ASSUME NEW j, NEW c \in AddrOf(log) \cup {NullAddr}
       PROVE  VersionsAt(new, j, c) = VersionsAt(log, j, c)
  <2>1. ~UpTo(p, c)
    <3>1. CASE c = NullAddr
      BY <3>1 DEF UpTo, Before, NullAddr, Position
    <3>2. CASE c \in AddrOf(log)
      BY <1>3, <3>2 DEF UpTo
    <3> QED  BY <3>1, <3>2
  <2> QED  BY <1>1, <1>2, <2>1 DEF VersionsAt
<1> QED  BY <1>2, <1>4, <1>6, <1>9, <1>10

NewEntry(db, k, v) == [node |-> k, old |-> db.nodes[k].vptr, value |-> v]
AppendsTo(base, db, d, k, v) ==
    /\ \/ base = db.log /\ db.log # <<>>
       \/ \E cap : base = Append(db.log, EmptyBlock(cap))
    /\ Shape(d) /\ d.stages = db.stages /\ d.vlogInvalid = db.vlogInvalid
    /\ SameCounters(d, db)
    /\ d.log = GrownLog(base, NewEntry(db, k, v))
    /\ d.nodes = [db.nodes EXCEPT ![k].vptr = GrownTail(base, NewEntry(db, k, v))]

\* appendValue in terms of the log alone.
LEMMA AppendShape ==
    ASSUME NEW db, Live(db), NEW k \in DOMAIN db.nodes, NEW v \in 0 .. 99,
           NEW d, d = AppendValue(db, k, v)
    PROVE  \E base : AppendsTo(base, db, d, k, v)
<1> DEFINE d1 == Alloc(db, EntrySize(v))
           base == d1.log
           b == Len(base)
           end == base[b].length + EntrySize(v)
           e == [node |-> k, old |-> db.nodes[k].vptr, value |-> v]
<1>0. LogOK(db.log) /\ Shape(db) /\ EntrySize(v) \in Nat /\ EntrySize(v) <= HdrSize + 2
  BY EntrySizeNat DEF Live
<1>1. /\ Shape(d1) /\ d1.nodes = db.nodes /\ d1.stages = db.stages
      /\ d1.vlogInvalid = db.vlogInvalid /\ SameCounters(d1, db)
      /\ \/ base = db.log /\ db.log # <<>>
         \/ \E cap : base = Append(db.log, EmptyBlock(cap))
  BY <1>0, AllocShape
<1> DEFINE at2 == [o \in DOMAIN base[b].at \cup {end} |-> IF o = end THEN e ELSE base[b].at[o]]
           blk == [cap |-> base[b].cap, length |-> end, at |-> at2]
           n2 == [db.nodes EXCEPT ![k].vptr = <<b, end>>]
           L2 == [base EXCEPT ![b] = blk]
<1>2. d = [d1 EXCEPT !.log[b] = blk, !.nodes[k].vptr = <<b, end>>]
  BY <1>1 DEF AppendValue
<1> HIDE DEF blk, base, b, d1, end
<1>3. d = [[d1 EXCEPT !.log = L2] EXCEPT !.nodes = n2]
  BY <1>1, <1>2 DEF base, Shape
<1>4. L2 = GrownLog(base, e)
  <2>1. GrownBlock(base[b], e) = blk
    BY DEF GrownBlock, blk, end
  <2> QED  BY <2>1 DEF GrownLog, b
<1>5. GrownTail(base, e) = <<b, end>>
  BY DEF GrownTail, b, end
<1> HIDE DEF L2, n2, e
<1>6. d.log = L2 /\ d.nodes = n2 /\ d.stages = db.stages /\ d.vlogInvalid = db.vlogInvalid /\ Shape(d)
  BY <1>1, <1>3 DEF Shape
<1>c. SameCounters(d, db)
  BY <1>1, <1>3 DEF Shape, SameCounters
<1>7. d.nodes = [db.nodes EXCEPT ![k].vptr = GrownTail(base, e)] /\ d.log = GrownLog(base, e)
  BY <1>4, <1>5, <1>6 DEF n2
<1>8. e = NewEntry(db, k, v)
  BY DEF e, NewEntry
<1>9. AppendsTo(base, db, d, k, v)
  BY <1>1, <1>6, <1>7, <1>8, <1>c DEF AppendsTo
<1> QED  BY <1>9

\* What every write must leave alone: the open stages and the other keys.
Writes(db, d, k, v) ==
    /\ Live(d) /\ d.stages = db.stages
    /\ BufferGet(d, k) = v /\ \A j : j # k => BufferGet(d, j) = BufferGet(db, j)
    /\ \A j : \A i \in 1 .. Len(db.stages) :
         SnapshotGet(d, j, db.stages[i]) = SnapshotGet(db, j, db.stages[i])

\* The checkpoint of a stage is the address of an entry or the beginning of the log.
LEMMA StagePositions ==
    ASSUME NEW db, Live(db), NEW i \in 1 .. Len(db.stages)
    PROVE  /\ Pos(db.stages[i]) \in AddrOf(db.log) \cup {NullAddr}
           /\ Pos(db.stages[i]) \in Position
<1>1. Pos(db.stages[i]) \in AddrOf(db.log) \cup {NullAddr}
  BY DEF Live, StagesOK
<1> QED  BY <1>1, AddrPosition, BeforeOrder DEF Live

\* appendValue writes: the new entry is behind every checkpoint.
LEMMA AppendWrites ==
    ASSUME NEW db, Live(db), NEW k \in DOMAIN db.nodes, NEW v \in 0 .. 99,
           NEW d, d = AppendValue(db, k, v)
    PROVE  Writes(db, d, k, v)
<1> DEFINE e == NewEntry(db, k, v)
<1>0. PICK base : AppendsTo(base, db, d, k, v)
  BY AppendShape
<1>1. /\ \/ base = db.log /\ db.log # <<>>
         \/ \E cap : base = Append(db.log, EmptyBlock(cap))
      /\ Shape(d) /\ d.stages = db.stages /\ d.vlogInvalid = db.vlogInvalid
      /\ d.log = GrownLog(base, e)
      /\ d.nodes = [db.nodes EXCEPT ![k].vptr = GrownTail(base, e)]
  BY <1>0 DEF AppendsTo
<1>2. IsEntry(e) /\ e.value = v
  BY DEF IsEntry, NewEntry
<1> HIDE DEF e
<1> DEFINE p == GrownTail(base, e)
<1>3. /\ LogOK(d.log) /\ AddrOf(d.log) = AddrOf(db.log) \cup {p} /\ p \notin AddrOf(db.log)
      /\ p \in Position /\ p # NullAddr /\ Ent(d.log, p) = e
      /\ \A a \in AddrOf(db.log) : Before(a, p) /\ Ent(d.log, a) = Ent(db.log, a)
  BY <1>1, <1>2, LogGrows, SMTT(30) DEF Live
<1> HIDE DEF p
<1>4. /\ NodesOK(d.nodes) /\ ChainOK(d.nodes, d.log)
      /\ IsNewest(p, Of(d.log, k)) /\ \A j : j # k => Of(d.log, j) = Of(db.log, j)
      /\ \A j, c : c \in AddrOf(db.log) \cup {NullAddr} =>
           VersionsAt(d.log, j, c) = VersionsAt(db.log, j, c)
  BY <1>1, <1>3, ChainGrows DEF Live, e, p, NewEntry
<1>5. StagesOK(d.stages, d.log)
  BY <1>1, <1>3 DEF Live, StagesOK
<1>6. Live(d)
  BY <1>1, <1>3, <1>4, <1>5 DEF Live
<1>7. BufferGet(d, k) = v
  <2>1. PICK q : IsNewest(q, Of(d.log, k)) /\ BufferGet(d, k) = ValueOf(d.log, q)
    BY <1>6, ReadsNewest
  <2>2. Of(d.log, k) \in SUBSET Position
    BY <1>3, AddrPosition DEF Of
  <2>3. p = q
    BY <1>4, <2>1, <2>2, NewestUnique
  <2> QED  BY <1>2, <1>3, <2>1, <2>3 DEF ValueOf
<1>8. ASSUME NEW j, j # k
      PROVE  BufferGet(d, j) = BufferGet(db, j)
  <2>1. Of(d.log, j) = Of(db.log, j) /\ Agree(d.log, db.log, Of(db.log, j))
    BY <1>3, <1>4, <1>8 DEF Agree, Of
  <2> QED  BY <1>6, <2>1, SameGets
<1>9. ASSUME NEW j, NEW i \in 1 .. Len(db.stages)
      PROVE  SnapshotGet(d, j, db.stages[i]) = SnapshotGet(db, j, db.stages[i])
  <2> DEFINE c == db.stages[i]
  <2>1. Pos(c) \in AddrOf(db.log) \cup {NullAddr} /\ Pos(c) \in Position
    BY <1>9, StagePositions
  <2> HIDE DEF c
  <2>2. VersionsAt(d.log, j, Pos(c)) = VersionsAt(db.log, j, Pos(c))
    BY <1>4, <2>1
  <2>3. Agree(d.log, db.log, VersionsAt(db.log, j, Pos(c)))
    BY <1>3 DEF Agree, VersionsAt, Of
  <2>4. SnapshotGet(d, j, c) = SnapshotGet(db, j, c)
    BY <1>6, <2>1, <2>2, <2>3, SameSnapshots
  <2> QED  BY <2>4 DEF c
<1> QED  BY <1>1, <1>6, <1>7, <1>8, <1>9 DEF Writes

MayOverwrite(db, k, v) ==
    /\ db.nodes[k].vptr # NullAddr
    /\ ValueLen(v) = ValueLen(Entry(db, db.nodes[k].vptr).value)
    /\ db.stages = <<>> \/ CanModify(Last(db.stages), db.nodes[k].vptr)
InPlace(db, k, v) == [db EXCEPT !.log[db.nodes[k].vptr[1]].at[db.nodes[k].vptr[2]].value = v]

\* A value that no checkpoint needs is overwritten in place.
LEMMA OverwriteWrites ==
    ASSUME NEW db, Live(db), NEW k \in DOMAIN db.nodes, NEW v \in 0 .. 99,
           MayOverwrite(db, k, v), NEW d, d = InPlace(db, k, v)
    PROVE  Writes(db, d, k, v)
<1> DEFINE a == db.nodes[k].vptr
           L == Overwritten(db.log, a, v)
<1>0. /\ Shape(db) /\ LogOK(db.log) /\ ChainOK(db.nodes, db.log) /\ StagesOK(db.stages, db.log)
  BY DEF Live
<1>1. d = [db EXCEPT !.log = L]
  BY <1>0 DEF Overwritten, Shape, InPlace
<1> HIDE DEF L
<1>2. d.log = L /\ d.nodes = db.nodes /\ d.stages = db.stages /\ d.vlogInvalid = db.vlogInvalid /\ Shape(d)
  BY <1>0, <1>1 DEF Shape
<1>3. a \in Of(db.log, k) /\ IsNewest(a, Of(db.log, k)) /\ a \in AddrOf(db.log) /\ a \in Position
  BY <1>0, AddrPosition DEF ChainOK, IsNewest, Of, MayOverwrite
<1>4. ValueLen(v) = ValueLen(Ent(db.log, a).value) /\ a # NullAddr
  BY DEF Entry, Ent, MayOverwrite
<1> HIDE DEF a
<1>5. /\ LogOK(d.log) /\ AddrOf(d.log) = AddrOf(db.log)
      /\ \A c \in AddrOf(db.log) :
           /\ Ent(d.log, c).node = Ent(db.log, c).node /\ Ent(d.log, c).old = Ent(db.log, c).old
           /\ Ent(d.log, c).value = IF c = a THEN v ELSE Ent(db.log, c).value
  <2> DEFINE O == Overwritten(db.log, a, v)
  <2>1. d.log = O
    BY <1>2 DEF L
  <2>2. /\ LogOK(O) /\ AddrOf(O) = AddrOf(db.log) /\ TailOf(O) = TailOf(db.log)
        /\ \A c \in AddrOf(db.log) :
             /\ Ent(O, c).node = Ent(db.log, c).node /\ Ent(O, c).old = Ent(db.log, c).old
             /\ Ent(O, c).value = IF c = a THEN v ELSE Ent(db.log, c).value
    BY <1>0, <1>3, <1>4, OverwriteKeeps, Zenon
  <2> HIDE DEF O
  <2> QED  BY <2>1, <2>2
<1>6. \A j : Of(d.log, j) = Of(db.log, j)
  BY <1>5 DEF Of
<1>7. \A c \in AddrOf(db.log) : OldVersions(d.log, c) = OldVersions(db.log, c)
  BY <1>5, <1>6 DEF OldVersions
<1>8. ChainOK(d.nodes, d.log)
  BY <1>0, <1>2, <1>5, <1>6, <1>7 DEF ChainOK
<1>9. StagesOK(d.stages, d.log)
  BY <1>0, <1>2, <1>5 DEF StagesOK
<1>10. Live(d)
  BY <1>2, <1>5, <1>8, <1>9 DEF Live
<1>11. BufferGet(d, k) = v
  <2>1. PICK q : IsNewest(q, Of(d.log, k)) /\ BufferGet(d, k) = ValueOf(d.log, q)
    BY <1>10, ReadsNewest
  <2>2. Of(db.log, k) \in SUBSET Position
    BY <1>0, AddrPosition DEF Of
  <2>3. a = q
    BY <1>3, <1>6, <2>1, <2>2, NewestUnique
  <2> QED  BY <1>3, <1>4, <1>5, <2>1, <2>3 DEF ValueOf
<1>12. ASSUME NEW j, j # k
       PROVE  BufferGet(d, j) = BufferGet(db, j)
  <2>1. Agree(d.log, db.log, Of(db.log, j))
    BY <1>3, <1>5, <1>12 DEF Agree, Of
  <2> QED  BY <1>6, <1>10, <2>1, SameGets
<1>13. ASSUME NEW j, NEW i \in 1 .. Len(db.stages)
       PROVE  SnapshotGet(d, j, db.stages[i]) = SnapshotGet(db, j, db.stages[i])
  <2> DEFINE c == db.stages[i]
             n == Len(db.stages)
  <2>1. Pos(c) \in Position
    BY <1>13, StagePositions
  <2>2. PICK X : db.stages \in Seq(X)
    BY DEF Live
  <2>3. n \in Nat \ {0} /\ n \in 1 .. n /\ i <= n /\ db.stages # <<>>
    BY <2>2
  <2>4. Before(Pos(db.stages[n]), a) /\ Pos(db.stages[n]) \in Position
    <3>1. CanModify(db.stages[n], a)
      BY <2>3 DEF Last, a, MayOverwrite
    <3>2. Pos(db.stages[n]) \in Position
      BY <2>3, StagePositions
    <3> QED  BY <1>3, <3>1, <3>2, CanModifyBefore
  <2>5. UpTo(Pos(c), Pos(db.stages[n]))
    BY <1>0, <2>3 DEF StagesOK
  <2> HIDE DEF c, n
  <2>6. Before(Pos(c), a)
    BY <1>3, <2>1, <2>4, <2>5, BeforeOrder DEF UpTo
  <2>7. ~UpTo(a, Pos(c))
    BY <1>3, <2>1, <2>6, BeforeOrder DEF UpTo
  <2>8. VersionsAt(d.log, j, Pos(c)) = VersionsAt(db.log, j, Pos(c))
    BY <1>6 DEF VersionsAt
  <2>9. Agree(d.log, db.log, VersionsAt(db.log, j, Pos(c)))
    BY <1>5, <2>7 DEF Agree, VersionsAt, Of
  <2>10. SnapshotGet(d, j, c) = SnapshotGet(db, j, c)
    BY <1>10, <2>1, <2>8, <2>9, SameSnapshots
  <2> QED  BY <2>10 DEF c
<1> QED  BY <1>2, <1>10, <1>11, <1>12, <1>13 DEF Writes

\* The size is only counted.
LEMMA SizeApart ==
    ASSUME NEW db, NEW c, NEW k, NEW v, Writes(db, c, k, v), Live(db), NEW x
    PROVE  Writes(db, [c EXCEPT !.size = x], k, v)
<1> DEFINE d == [c EXCEPT !.size = x]
<1>1. Live(c) /\ Shape(c)
  BY DEF Writes, Live
<1>2. d.log = c.log /\ d.nodes = c.nodes /\ d.stages = c.stages /\ d.vlogInvalid = c.vlogInvalid /\ Shape(d)
  BY <1>1 DEF Shape
<1> HIDE DEF d
<1>3. Live(d)
  BY <1>1, <1>2 DEF Live
<1>4. \A j : /\ BufferGet(d, j) = BufferGet(c, j)
             /\ \A cp : Pos(cp) \in Position => SnapshotGet(d, j, cp) = SnapshotGet(c, j, cp)
  BY <1>1, <1>2, <1>3, SameLogReads
<1>5. \A i \in 1 .. Len(db.stages) : Pos(db.stages[i]) \in Position
  BY StagePositions
<1>6. Writes(db, d, k, v)
  BY <1>2, <1>3, <1>4, <1>5 DEF Writes
<1> QED  BY <1>6 DEF d

\* setValue writes one key and keeps what the checkpoints need.
LEMMA SetValueWrites ==
    ASSUME NEW db, Live(db), NEW k \in DOMAIN db.nodes, NEW v \in 0 .. 99
    PROVE  Writes(db, SetValue(db, k, v), k, v)
<1> DEFINE a == db.nodes[k].vptr
           oldLen == IF a = NullAddr THEN 0 ELSE ValueLen(Entry(db, a).value)
           mine == db.stages = <<>> \/ CanModify(Last(db.stages), a)
           c == AppendValue(db, k, v)
           ap == [c EXCEPT !.size = @ - oldLen + ValueLen(v)]
<1>1. SetValue(db, k, v) = IF oldLen > 0 /\ mine /\ oldLen = ValueLen(v) THEN InPlace(db, k, v) ELSE ap
  BY DEF SetValue, InPlace
<1>2. ASSUME oldLen > 0, mine, oldLen = ValueLen(v)
      PROVE  MayOverwrite(db, k, v)
  BY <1>2 DEF MayOverwrite
<1>3. Writes(db, c, k, v)
  BY AppendWrites
<1>4. Writes(db, ap, k, v)
  <2> HIDE DEF oldLen, c
  <2> QED  BY <1>3, SizeApart
<1>5. CASE oldLen > 0 /\ mine /\ oldLen = ValueLen(v)
  <2>1. Writes(db, InPlace(db, k, v), k, v)
    BY <1>2, <1>5, OverwriteWrites
  <2> HIDE DEF oldLen, mine, ap
  <2> QED  BY <1>1, <1>5, <2>1
<1>6. CASE ~(oldLen > 0 /\ mine /\ oldLen = ValueLen(v))
  <2> HIDE DEF oldLen, mine, ap
  <2> QED  BY <1>1, <1>4, <1>6
<1> QED  BY <1>5, <1>6

\* set: with a value it writes the key, without one it changes no value.
LEMMA SetKVWrites ==
    ASSUME NEW db, Live(db), NEW k \in BKey, NEW v, NEW ops, NEW d, d = SetKV(db, k, v, ops)
    PROVE  /\ v \in 0 .. 99 => Writes(db, d, k, v)
           /\ v = NoValue => Writes(db, d, k, BufferGet(db, k))
<1> DEFINE x == db.dirty \/ db.stages = <<>>
           d1 == WithNode([db EXCEPT !.dirty = x], k)
           d2 == IF ops = <<>> THEN d1 ELSE SetFlags(d1, k, ops)
<1>1. d = IF v = NoValue THEN d2 ELSE SetValue(d2, k, v)
  BY DEF SetKV
<1> HIDE DEF x
<1>2. Live(d1) /\ d1.log = db.log /\ d1.stages = db.stages /\ k \in DOMAIN d1.nodes
  BY NodeAdded
<1> HIDE DEF d1
<1>3. Live(d2) /\ d2.log = db.log /\ d2.stages = db.stages /\ k \in DOMAIN d2.nodes
  BY <1>2, FlagsSet
<1> HIDE DEF d2
<1>4. \A j : /\ BufferGet(d2, j) = BufferGet(db, j)
             /\ \A cp : Pos(cp) \in Position => SnapshotGet(d2, j, cp) = SnapshotGet(db, j, cp)
  BY <1>3, SameLogReads
<1>5. \A i \in 1 .. Len(db.stages) : Pos(db.stages[i]) \in Position
  BY StagePositions
<1>6. v = NoValue => Writes(db, d, k, BufferGet(db, k))
  BY <1>1, <1>3, <1>4, <1>5 DEF Writes
<1>7. ASSUME v \in 0 .. 99
      PROVE  Writes(db, d, k, v)
  <2>1. d = SetValue(d2, k, v)
    BY <1>1, <1>7 DEF NoValue
  <2>2. Writes(d2, d, k, v)
    BY <1>3, <1>7, <2>1, SetValueWrites
  <2> QED  BY <1>3, <1>4, <1>5, <2>2 DEF Writes
<1> QED  BY <1>6, <1>7

-----------------------------------------------------------------------------
(* Sums over finite sets. *)

\* G[s] is the sum of the weights of s, in whatever order they are added.
Additive(G, w, S) ==
    /\ G \in [SUBSET S -> Nat] /\ G[{}] = 0 /\ \A x \in S : w[x] \in Nat
    /\ \A s \in SUBSET S : \A a \in s : G[s] = G[s \ {a}] + w[a]

SumOf(w, S) == (CHOOSE G : Additive(G, w, S))[S]

\* One more element adds its weight.
LEMMA AdditiveGrows ==
    ASSUME NEW w, NEW S, NEW G, Additive(G, w, S), NEW b, b \notin S, w[b] \in Nat
    PROVE  \E H : Additive(H, w, S \cup {b})
<1> DEFINE T == S \cup {b}
           H == [s \in SUBSET T |-> IF b \in s THEN G[s \ {b}] + w[b] ELSE G[s]]
<1>1. \A s \in SUBSET T : s \ {b} \in SUBSET S /\ (b \notin s => s \in SUBSET S)
  OBVIOUS
<1>2. \A s \in SUBSET S : G[s] \in Nat
  BY DEF Additive
<1>3. \A s \in SUBSET T : H[s] \in Nat
  BY <1>1, <1>2
<1>4. H \in [SUBSET T -> Nat] /\ H[{}] = 0
  BY <1>3 DEF Additive
<1>5. ASSUME NEW s \in SUBSET T, NEW a \in s
      PROVE  H[s] = H[s \ {a}] + w[a]
  <2>1. s \ {a} \in SUBSET T
    OBVIOUS
  <2>2. CASE a = b
    <3>1. H[s] = G[s \ {b}] + w[b] /\ H[s \ {a}] = G[s \ {b}]
      BY <2>1, <2>2
    <3> QED  BY <2>2, <3>1
  <2>3. CASE a # b /\ b \in s
    <3>1. H[s] = G[s \ {b}] + w[b] /\ H[s \ {a}] = G[(s \ {a}) \ {b}] + w[b]
      BY <2>1, <2>3
    <3>2. (s \ {a}) \ {b} = (s \ {b}) \ {a} /\ a \in s \ {b} /\ s \ {b} \in SUBSET S
      BY <1>1, <2>3
    <3> DEFINE g == G[(s \ {b}) \ {a}]
    <3>3. G[s \ {b}] = g + w[a]
      BY <3>2 DEF Additive
    <3>4. (s \ {b}) \ {a} \in SUBSET S
      BY <3>2
    <3>5. g \in Nat /\ w[a] \in Nat
      BY <1>2, <2>3, <3>2, <3>4 DEF Additive
    <3>6. H[s] = (g + w[a]) + w[b] /\ H[s \ {a}] = g + w[b]
      BY <3>1, <3>2, <3>3
    <3> HIDE DEF H, g
    <3> QED  BY <3>5, <3>6
  <2>4. CASE b \notin s
    <3>1. H[s] = G[s] /\ H[s \ {a}] = G[s \ {a}] /\ s \in SUBSET S
      BY <1>1, <2>1, <2>4
    <3> QED  BY <3>1 DEF Additive
  <2> QED  BY <2>2, <2>3, <2>4
<1>6. \A x \in T : w[x] \in Nat
  BY DEF Additive
<1> HIDE DEF H
<1>7. Additive(H, w, T)
  BY <1>4, <1>5, <1>6 DEF Additive
<1> QED  BY <1>7

\* Every finite set has sums.
LEMMA AdditiveExists ==
    ASSUME NEW w
    PROVE  \A S : IsFiniteSet(S) /\ (\A x \in S : w[x] \in Nat) => \E G : Additive(G, w, S)
<1> DEFINE P(n) == \A S : IsFiniteSet(S) /\ Cardinality(S) = n /\ (\A x \in S : w[x] \in Nat)
                       => \E G : Additive(G, w, S)
           N == {n \in Nat : P(n)}
<1>1. 0 \in N
  <2>1. ASSUME NEW S, IsFiniteSet(S), Cardinality(S) = 0
        PROVE  \E G : Additive(G, w, S)
    <3>1. S = {}
      BY <2>1, FS_EmptySet
    <3>2. Additive([s \in SUBSET S |-> 0], w, S)
      BY <3>1 DEF Additive
    <3> QED  BY <3>2
  <2> QED  BY <2>1
<1>2. ASSUME NEW n \in N PROVE n + 1 \in N
  <2>1. ASSUME NEW S, IsFiniteSet(S), Cardinality(S) = n + 1, \A x \in S : w[x] \in Nat
        PROVE  \E G : Additive(G, w, S)
    <3>1. S # {}
      BY <2>1, FS_EmptySet
    <3>2. PICK b \in S : TRUE
      BY <3>1
    <3>3. IsFiniteSet(S \ {b}) /\ Cardinality(S \ {b}) = (n + 1) - 1
      BY <2>1, <3>2, FS_RemoveElement
    <3>4. P(n) /\ n \in Nat
      BY <1>2
    <3>5. PICK G : Additive(G, w, S \ {b})
      BY <2>1, <3>3, <3>4
    <3>6. (S \ {b}) \cup {b} = S /\ b \notin S \ {b} /\ w[b] \in Nat
      BY <2>1, <3>2
    <3> QED  BY <3>5, <3>6, AdditiveGrows
  <2>2. P(n + 1)
    BY <2>1
  <2> HIDE DEF P
  <2> QED  BY <2>2
<1>3. N = Nat
  <2> HIDE DEF P
  <2> QED  BY <1>1, <1>2, SetInduction
<1>4. ASSUME NEW S, IsFiniteSet(S), \A x \in S : w[x] \in Nat
      PROVE  \E G : Additive(G, w, S)
  <2>1. Cardinality(S) \in Nat
    BY <1>4, FS_CardinalityType
  <2>2. P(Cardinality(S))
    <3> HIDE DEF P
    <3> QED  BY <1>3, <2>1
  <2> QED  BY <1>4, <2>2
<1> QED  BY <1>4

\* The weights determine the sums.
LEMMA AdditiveUnique ==
    ASSUME NEW w, NEW v, NEW S, NEW R, S \subseteq R, IsFiniteSet(S), NEW G, Additive(G, w, S),
           NEW H, Additive(H, v, R), \A x \in S : w[x] = v[x]
    PROVE  \A s \in SUBSET S : G[s] = H[s]
<1> DEFINE P(n) == \A s \in SUBSET S : Cardinality(s) = n => G[s] = H[s]
           N == {n \in Nat : P(n)}
<1>0. \A s \in SUBSET S : IsFiniteSet(s) /\ Cardinality(s) \in Nat
  BY FS_Subset, FS_CardinalityType
<1>1. 0 \in N
  <2>1. ASSUME NEW s \in SUBSET S, Cardinality(s) = 0
        PROVE  G[s] = H[s]
    <3>1. s = {}
      BY <1>0, <2>1, FS_EmptySet
    <3> QED  BY <3>1 DEF Additive
  <2> QED  BY <2>1
<1>2. ASSUME NEW n \in N PROVE n + 1 \in N
  <2>1. ASSUME NEW s \in SUBSET S, Cardinality(s) = n + 1
        PROVE  G[s] = H[s]
    <3>1. s # {}
      BY <1>0, <2>1, FS_EmptySet
    <3>2. PICK b \in s : TRUE
      BY <3>1
    <3>3. Cardinality(s \ {b}) = (n + 1) - 1 /\ s \ {b} \in SUBSET S
      BY <1>0, <2>1, <3>2, FS_RemoveElement
    <3>4. P(n) /\ n \in Nat
      BY <1>2
    <3>5. G[s \ {b}] = H[s \ {b}]
      BY <3>3, <3>4
    <3>6. s \in SUBSET R /\ b \in S
      BY <3>2
    <3>7. G[s] = G[s \ {b}] + w[b]
      BY <3>2 DEF Additive
    <3>8. H[s] = H[s \ {b}] + v[b]
      BY <3>2, <3>6 DEF Additive
    <3> QED  BY <3>5, <3>6, <3>7, <3>8
  <2>2. P(n + 1)
    BY <2>1
  <2> HIDE DEF P
  <2> QED  BY <2>2
<1>3. N = Nat
  <2> HIDE DEF P
  <2> QED  BY <1>1, <1>2, SetInduction
<1>4. ASSUME NEW s \in SUBSET S PROVE G[s] = H[s]
  <2>1. P(Cardinality(s))
    <3> HIDE DEF P
    <3> QED  BY <1>0, <1>3
  <2> QED  BY <2>1
<1> QED  BY <1>4

\* The sum of no weights, of one more weight, and of the same weights.
LEMMA SumProperties ==
    ASSUME NEW w, NEW S, IsFiniteSet(S), \A x \in S : w[x] \in Nat
    PROVE  /\ SumOf(w, S) \in Nat /\ (S = {} => SumOf(w, S) = 0)
           /\ \A v : (\A x \in S : v[x] = w[x]) => SumOf(v, S) = SumOf(w, S)
           /\ \A b : b \in S => SumOf(w, S) = SumOf(w, S \ {b}) + w[b]
<1> DEFINE G(v, R) == CHOOSE F : Additive(F, v, R)
<1>1. ASSUME NEW v, NEW R, IsFiniteSet(R), \A x \in R : v[x] \in Nat
      PROVE  Additive(G(v, R), v, R) /\ SumOf(v, R) = G(v, R)[R]
  <2>1. \E F : Additive(F, v, R)
    BY <1>1, AdditiveExists
  <2> QED  BY <2>1 DEF SumOf
<1>2. Additive(G(w, S), w, S) /\ SumOf(w, S) = G(w, S)[S]
  BY <1>1
<1> HIDE DEF G
<1>3. SumOf(w, S) \in Nat /\ (S = {} => SumOf(w, S) = 0)
  <2>1. S \in SUBSET S
    OBVIOUS
  <2>2. G(w, S)[S] \in Nat
    BY <1>2, <2>1 DEF Additive
  <2>3. S = {} => G(w, S)[S] = 0
    BY <1>2 DEF Additive
  <2> QED  BY <1>2, <2>2, <2>3
<1>4. ASSUME NEW v, \A x \in S : v[x] = w[x]
      PROVE  SumOf(v, S) = SumOf(w, S)
  <2>1. \A x \in S : v[x] \in Nat
    BY <1>4
  <2>2. Additive(G(v, S), v, S) /\ SumOf(v, S) = G(v, S)[S]
    BY <1>1, <2>1
  <2>3. S \in SUBSET S
    OBVIOUS
  <2> QED  BY <1>2, <1>4, <2>2, <2>3, AdditiveUnique
<1>5. ASSUME NEW b \in S
      PROVE  SumOf(w, S) = SumOf(w, S \ {b}) + w[b]
  <2> DEFINE R == S \ {b}
  <2>1. IsFiniteSet(R) /\ R \subseteq S /\ R \in SUBSET R /\ \A x \in R : w[x] \in Nat
    BY FS_Subset
  <2>2. Additive(G(w, R), w, R) /\ SumOf(w, R) = G(w, R)[R]
    BY <1>1, <2>1
  <2>3. G(w, R)[R] = G(w, S)[R]
    BY <1>2, <2>1, <2>2, AdditiveUnique
  <2>4. G(w, S)[S] = G(w, S)[R] + w[b]
    BY <1>2 DEF Additive
  <2> QED  BY <1>2, <2>2, <2>3, <2>4
<1> QED  BY <1>3, <1>4, <1>5

\* The fold over the elements of a set, in whatever order it takes them, is their sum.
LEMMA FoldIsSum ==
    ASSUME NEW w, NEW S, IsFiniteSet(S), \A x \in S : w[x] \in Nat
    PROVE  FoldSet(LAMBDA x, n : n + w[x], 0, S) = SumOf(w, S)
<1> DEFINE pick(s) == CHOOSE x \in s : TRUE
           Step(F) == [s \in SUBSET S |-> IF s = {} THEN 0 ELSE F[s \ {pick(s)}] + w[pick(s)]]
           G == CHOOSE F : Additive(F, w, S)
           fold == CHOOSE F : F = Step(F)
<1>1. FoldSet(LAMBDA x, n : n + w[x], 0, S) = fold[S]
  BY DEF FoldSet, MapThenFoldSet
<1>2. Additive(G, w, S) /\ SumOf(w, S) = G[S]
  <2>1. \E F : Additive(F, w, S)
    BY AdditiveExists
  <2> QED  BY <2>1 DEF SumOf
<1>p. \A s \in SUBSET S : s # {} => pick(s) \in s
  OBVIOUS
<1> HIDE DEF G, pick
<1>3. G = Step(G)
  <2>1. G = [s \in SUBSET S |-> G[s]]
    BY <1>2 DEF Additive
  <2>2. ASSUME NEW s \in SUBSET S
        PROVE  G[s] = IF s = {} THEN 0 ELSE G[s \ {pick(s)}] + w[pick(s)]
    BY <1>2, <1>p DEF Additive
  <2> QED  BY <2>1, <2>2
<1>4. fold = Step(fold)
  <2> HIDE DEF Step
  <2> QED  BY <1>3, Zenon
<1> HIDE DEF fold
<1>5. \A s \in SUBSET S : fold[s] = IF s = {} THEN 0 ELSE fold[s \ {pick(s)}] + w[pick(s)]
  BY <1>4, Zenon
<1>6. \A s \in SUBSET S : G[s] = IF s = {} THEN 0 ELSE G[s \ {pick(s)}] + w[pick(s)]
  BY <1>3, Zenon
<1> HIDE DEF Step
<1> DEFINE P(n) == \A s \in SUBSET S : Cardinality(s) = n => G[s] = fold[s]
           N == {n \in Nat : P(n)}
<1>7. \A s \in SUBSET S : IsFiniteSet(s) /\ Cardinality(s) \in Nat
  BY FS_Subset, FS_CardinalityType
<1>8. 0 \in N
  <2>1. ASSUME NEW s \in SUBSET S, Cardinality(s) = 0
        PROVE  G[s] = fold[s]
    <3>1. s = {}
      BY <1>7, <2>1, FS_EmptySet
    <3> QED  BY <1>5, <1>6, <3>1
  <2> QED  BY <2>1
<1>9. ASSUME NEW n \in N PROVE n + 1 \in N
  <2>1. ASSUME NEW s \in SUBSET S, Cardinality(s) = n + 1
        PROVE  G[s] = fold[s]
    <3> DEFINE b == pick(s)
    <3>1. s # {}
      BY <1>7, <2>1, FS_EmptySet
    <3>2. b \in s
      BY <1>p, <3>1
    <3> HIDE DEF b
    <3>3. Cardinality(s \ {b}) = (n + 1) - 1 /\ s \ {b} \in SUBSET S
      BY <1>7, <2>1, <3>2, FS_RemoveElement
    <3>4. P(n) /\ n \in Nat
      BY <1>9
    <3>5. G[s \ {b}] = fold[s \ {b}]
      BY <3>3, <3>4
    <3>6. G[s] = G[s \ {b}] + w[b] /\ fold[s] = fold[s \ {b}] + w[b]
      BY <1>5, <1>6, <3>1 DEF b
    <3> QED  BY <3>5, <3>6
  <2>2. P(n + 1)
    BY <2>1
  <2> HIDE DEF P
  <2> QED  BY <2>2
<1>10. N = Nat
  <2> HIDE DEF P
  <2> QED  BY <1>8, <1>9, SetInduction
<1>11. P(Cardinality(S))
  <2> HIDE DEF P
  <2> QED  BY <1>7, <1>10
<1> QED  BY <1>1, <1>2, <1>11

-----------------------------------------------------------------------------
(* The counters and the flags. *)

\* The length of the newest value of a key, as the node and the log have it.
Weight(nodes, log, k) ==
    IF nodes[k].vptr = NullAddr THEN 0 ELSE ValueLen(Ent(log, nodes[k].vptr).value)
Weights(nodes, log) == [k \in DOMAIN nodes |-> Weight(nodes, log, k)]
TotalOf(nodes, log) == SumOf(Weights(nodes, log), DOMAIN nodes)
PartOf(nodes, log, k) == IF k \in DOMAIN nodes THEN Weight(nodes, log, k) ELSE 0

PointsInto(nodes, log) == \A k \in DOMAIN nodes : nodes[k].vptr \in AddrOf(log) \cup {NullAddr}

\* Len and Size are those of the nodes and their values.
Counted(db) ==
    /\ IsFiniteSet(DOMAIN db.nodes) /\ db.count = Cardinality(DOMAIN db.nodes)
    /\ db.size = KeyLen * db.count + TotalOf(db.nodes, db.log)

\* A clean buffer has no persistent flag.
Flagless(db) ==
    /\ db.dirty \in BOOLEAN
    /\ ~db.dirty => \A k \in DOMAIN db.nodes : db.nodes[k].flags \cap PersistentFlags = {}

Tidy(db) == Counted(db) /\ Flagless(db)

\* Lengths of values are natural numbers.
LEMMA WeightNat ==
    ASSUME NEW nodes, NEW log, LogOK(log), PointsInto(nodes, log)
    PROVE  \A k \in DOMAIN nodes :
             Weight(nodes, log, k) \in Nat /\ Weights(nodes, log)[k] = Weight(nodes, log, k)
<1> SUFFICES ASSUME NEW k \in DOMAIN nodes
             PROVE  Weight(nodes, log, k) \in Nat /\ Weights(nodes, log)[k] = Weight(nodes, log, k)
  OBVIOUS
<1>1. CASE nodes[k].vptr = NullAddr
  BY <1>1 DEF Weight, Weights
<1>2. CASE nodes[k].vptr \in AddrOf(log)
  <2>1. Ent(log, nodes[k].vptr).value \in 0 .. 99
    BY <1>2, AddrIn DEF IsEntry
  <2> QED  BY <2>1 DEF Weight, Weights, ValueLen, Tombstone
<1> QED  BY <1>1, <1>2 DEF PointsInto

\* A readable buffer's nodes point at entries, whose values Get reads.
LEMMA LiveWeights ==
    ASSUME NEW db, Live(db)
    PROVE  /\ LogOK(db.log) /\ PointsInto(db.nodes, db.log)
           /\ \A k \in DOMAIN db.nodes :
                /\ BufferGet(db, k) = NotExist => Weight(db.nodes, db.log, k) = 0
                /\ BufferGet(db, k) # NotExist =>
                     /\ BufferGet(db, k) \in 0 .. 99
                     /\ Weight(db.nodes, db.log, k) = ValueLen(BufferGet(db, k))
<1>1. LogOK(db.log)
  BY DEF Live
<1>2. PointsInto(db.nodes, db.log)
  BY DEF Live, ChainOK, IsNewest, PointsInto, Of
<1>3. ASSUME NEW k \in DOMAIN db.nodes
      PROVE  /\ BufferGet(db, k) = NotExist => Weight(db.nodes, db.log, k) = 0
             /\ BufferGet(db, k) # NotExist =>
                  /\ BufferGet(db, k) \in 0 .. 99
                  /\ Weight(db.nodes, db.log, k) = ValueLen(BufferGet(db, k))
  <2>1. CASE db.nodes[k].vptr = NullAddr
    BY <2>1 DEF BufferGet, Weight
  <2>2. CASE db.nodes[k].vptr # NullAddr
    <3>1. db.nodes[k].vptr \in AddrOf(db.log)
      BY <1>2, <2>2 DEF PointsInto
    <3>2. BufferGet(db, k) = Ent(db.log, db.nodes[k].vptr).value
      BY <2>2 DEF BufferGet, Entry, Ent
    <3>3. BufferGet(db, k) \in 0 .. 99
      BY <1>1, <3>1, <3>2, AddrIn DEF IsEntry
    <3> QED  BY <2>2, <3>2, <3>3 DEF Weight, NotExist
  <2> QED  BY <2>1, <2>2
<1> QED  BY <1>1, <1>2, <1>3

\* When one key changes, the total changes by what that key weighs.
LEMMA Recount ==
    ASSUME NEW n1, NEW l1, LogOK(l1), PointsInto(n1, l1), IsFiniteSet(DOMAIN n1),
           NEW n2, NEW l2, LogOK(l2), PointsInto(n2, l2),
           NEW k, DOMAIN n2 \ {k} = DOMAIN n1 \ {k},
           \A j \in DOMAIN n1 \ {k} : Weight(n2, l2, j) = Weight(n1, l1, j)
    PROVE  /\ IsFiniteSet(DOMAIN n2)
           /\ \E r \in Nat : /\ TotalOf(n1, l1) = r + PartOf(n1, l1, k)
                             /\ TotalOf(n2, l2) = r + PartOf(n2, l2, k)
           /\ PartOf(n1, l1, k) \in Nat /\ PartOf(n2, l2, k) \in Nat
<1> DEFINE D == DOMAIN n1 \ {k}
<1>1. ASSUME NEW n, NEW l, LogOK(l), PointsInto(n, l), IsFiniteSet(DOMAIN n), DOMAIN n \ {k} = D
      PROVE  /\ SumOf(Weights(n, l), D) \in Nat /\ PartOf(n, l, k) \in Nat
             /\ TotalOf(n, l) = SumOf(Weights(n, l), D) + PartOf(n, l, k)
  <2> DEFINE w == Weights(n, l)
             S == DOMAIN n
  <2>1. \A j \in S : w[j] \in Nat /\ w[j] = Weight(n, l, j)
    BY <1>1, WeightNat
  <2> HIDE DEF w
  <2>2. IsFiniteSet(D) /\ D \subseteq S
    BY <1>1, FS_Subset
  <2>3. SumOf(w, D) \in Nat
    BY <2>1, <2>2, SumProperties
  <2>4. CASE k \in S
    <3>1. SumOf(w, S) = SumOf(w, S \ {k}) + w[k]
      BY <1>1, <2>1, <2>4, SumProperties
    <3> QED  BY <1>1, <2>1, <2>3, <2>4, <3>1 DEF TotalOf, PartOf, w
  <2>5. CASE k \notin S
    <3>1. D = S
      BY <1>1, <2>5
    <3> QED  BY <2>3, <2>5, <3>1 DEF TotalOf, PartOf, w
  <2> QED  BY <2>4, <2>5 DEF w
<1>2. IsFiniteSet(DOMAIN n2)
  <2>1. IsFiniteSet(D)
    BY FS_Subset
  <2>2. IsFiniteSet(D \cup {k})
    BY <2>1, FS_AddElement
  <2>3. DOMAIN n2 \subseteq D \cup {k}
    OBVIOUS
  <2> QED  BY <2>2, <2>3, FS_Subset
<1>3. SumOf(Weights(n2, l2), D) = SumOf(Weights(n1, l1), D)
  <2>1. IsFiniteSet(D)
    BY FS_Subset
  <2>2. \A j \in D : Weights(n1, l1)[j] \in Nat /\ Weights(n2, l2)[j] = Weights(n1, l1)[j]
    BY WeightNat
  <2> QED  BY <2>1, <2>2, SumProperties
<1>4. /\ SumOf(Weights(n1, l1), D) \in Nat /\ PartOf(n1, l1, k) \in Nat
      /\ TotalOf(n1, l1) = SumOf(Weights(n1, l1), D) + PartOf(n1, l1, k)
  BY <1>1
<1>5. /\ PartOf(n2, l2, k) \in Nat
      /\ TotalOf(n2, l2) = SumOf(Weights(n2, l2), D) + PartOf(n2, l2, k)
  BY <1>1, <1>2
<1> QED  BY <1>2, <1>3, <1>4, <1>5

\* The bytes of one key more or less.
LEMMA KeyBytes ==
    ASSUME NEW n \in Nat
    PROVE  KeyLen * n \in Nat /\ KeyLen * (n + 1) = KeyLen * n + KeyLen
           /\ (n # 0 => KeyLen * (n - 1) = KeyLen * n - KeyLen)
BY MemBufferAssumption

\* traverse counts the node it adds.
LEMMA NodeTidy ==
    ASSUME NEW db, Live(db), Tidy(db), NEW k \in BKey, NEW x \in BOOLEAN, db.dirty => x,
           NEW d, d = WithNode([db EXCEPT !.dirty = x], k)
    PROVE  Tidy(d) /\ d.dirty = x
<1> DEFINE c == [db EXCEPT !.dirty = x]
<1>0. /\ c.nodes = db.nodes /\ c.log = db.log /\ c.count = db.count /\ c.size = db.size
      /\ c.dirty = x /\ Shape(c)
  BY DEF Live, Shape
<1> HIDE DEF c
<1>1. Tidy(c)
  BY <1>0 DEF Tidy, Counted, Flagless
<1>2. CASE k \in DOMAIN db.nodes
  <2>1. d = c
    BY <1>0, <1>2 DEF WithNode, c
  <2> QED  BY <1>0, <1>1, <2>1
<1>3. CASE k \notin DOMAIN db.nodes
  <2> DEFINE n == [y \in DOMAIN db.nodes \cup {k} |-> IF y = k THEN FreshNode ELSE db.nodes[y]]
  <2>1. d = [c EXCEPT !.nodes = n, !.count = @ + 1, !.size = @ + KeyLen]
    BY <1>0, <1>3 DEF WithNode, c
  <2>2. /\ DOMAIN n = DOMAIN db.nodes \cup {k} /\ n[k] = FreshNode
        /\ \A y \in DOMAIN db.nodes : n[y] = db.nodes[y]
    BY <1>3, Zenon
  <2> HIDE DEF n
  <2>3. d.nodes = n /\ d.log = db.log /\ d.dirty = x /\ d.count = db.count + 1 /\ d.size = db.size + KeyLen
    BY <1>0, <2>1 DEF Shape
  <2>4. LogOK(db.log) /\ PointsInto(db.nodes, db.log)
    BY LiveWeights
  <2>5. PointsInto(n, db.log)
    BY <2>2, <2>4 DEF PointsInto, FreshNode
  <2>6. PartOf(n, db.log, k) = 0 /\ PartOf(db.nodes, db.log, k) = 0
    BY <1>3, <2>2 DEF PartOf, Weight, FreshNode
  <2>7. DOMAIN n \ {k} = DOMAIN db.nodes \ {k} /\ \A j \in DOMAIN db.nodes \ {k} :
          Weight(n, db.log, j) = Weight(db.nodes, db.log, j)
    BY <2>2 DEF Weight
  <2>8. IsFiniteSet(DOMAIN db.nodes) /\ db.count = Cardinality(DOMAIN db.nodes)
        /\ db.size = KeyLen * db.count + TotalOf(db.nodes, db.log)
    BY DEF Tidy, Counted
  <2>9. PICK r \in Nat : TotalOf(db.nodes, db.log) = r + PartOf(db.nodes, db.log, k)
                         /\ TotalOf(n, db.log) = r + PartOf(n, db.log, k)
    BY <2>4, <2>5, <2>7, <2>8, Recount
  <2>10. IsFiniteSet(DOMAIN n) /\ Cardinality(DOMAIN n) = db.count + 1 /\ db.count \in Nat
    BY <1>3, <2>2, <2>8, FS_AddElement, FS_CardinalityType
  <2>11. d.size = KeyLen * d.count + TotalOf(n, db.log)
    <3>1. TotalOf(n, db.log) = TotalOf(db.nodes, db.log) /\ TotalOf(n, db.log) \in Nat
      BY <2>6, <2>9
    <3>2. KeyLen * (db.count + 1) = KeyLen * db.count + KeyLen /\ KeyLen * db.count \in Nat
      BY <2>10, KeyBytes
    <3> QED  BY <2>3, <2>8, <3>1, <3>2, MemBufferAssumption
  <2>12. Counted(d)
    BY <2>3, <2>10, <2>11 DEF Counted
  <2>13. Flagless(d)
    BY <2>2, <2>3 DEF Tidy, Flagless, FreshNode
  <2> QED  BY <2>3, <2>12, <2>13 DEF Tidy
<1> QED  BY <1>2, <1>3

\* A persistent flag makes the buffer dirty.
LEMMA FlagsTidy ==
    ASSUME NEW db, Live(db), Tidy(db), NEW k \in DOMAIN db.nodes, NEW ops,
           NEW d, d = SetFlags(db, k, ops)
    PROVE  Tidy(d) /\ (db.dirty => d.dirty)
<1> DEFINE f == FoldLeft(ApplyFlagsOp, db.nodes[k].flags, ops)
           n == [db.nodes EXCEPT ![k].flags = f]
           x == db.dirty \/ f \cap PersistentFlags # {}
<1>1. d = [db EXCEPT !.nodes = n, !.dirty = x]
  BY DEF SetFlags
<1> HIDE DEF f
<1>2. db.nodes = [y \in DOMAIN db.nodes |-> db.nodes[y]] /\ \A y \in DOMAIN db.nodes :
        db.nodes[y] = [vptr |-> db.nodes[y].vptr, flags |-> db.nodes[y].flags]
  BY DEF Live, NodesOK
<1>3. n = [db.nodes EXCEPT ![k] = [vptr |-> db.nodes[k].vptr, flags |-> f]]
  <2> DEFINE e == db.nodes[k]
  <2>1. e = [vptr |-> e.vptr, flags |-> e.flags]
    BY <1>2
  <2>2. n = [db.nodes EXCEPT ![k] = [e EXCEPT !.flags = f]]
    OBVIOUS
  <2> HIDE DEF e, n
  <2>3. [e EXCEPT !.flags = f] = [vptr |-> e.vptr, flags |-> f]
    BY <2>1
  <2> QED  BY <2>2, <2>3 DEF e
<1> HIDE DEF n, x
<1>4. /\ DOMAIN n = DOMAIN db.nodes /\ n[k].flags = f /\ n[k].vptr = db.nodes[k].vptr
      /\ \A y \in DOMAIN db.nodes : y # k => n[y] = db.nodes[y]
  BY <1>2, <1>3
<1>5. d.nodes = n /\ d.log = db.log /\ d.dirty = x /\ d.count = db.count /\ d.size = db.size
  BY <1>1 DEF Live, Shape
<1>6. \A y \in DOMAIN n : n[y].vptr = db.nodes[y].vptr
  BY <1>4
<1>7. Weights(n, db.log) = Weights(db.nodes, db.log)
  BY <1>4, <1>6 DEF Weights, Weight
<1>8. Counted(d)
  BY <1>4, <1>5, <1>7 DEF Tidy, Counted, TotalOf
<1>9. Flagless(d) /\ (db.dirty => d.dirty)
  <2>1. db.dirty \in BOOLEAN /\ x \in BOOLEAN /\ (db.dirty => x)
    BY DEF x, Tidy, Flagless
  <2>2. ASSUME ~x
        PROVE  \A y \in DOMAIN n : n[y].flags \cap PersistentFlags = {}
    <3>1. ~db.dirty /\ f \cap PersistentFlags = {}
      BY <2>2 DEF x
    <3>2. \A y \in DOMAIN db.nodes : db.nodes[y].flags \cap PersistentFlags = {}
      BY <3>1 DEF Tidy, Flagless
    <3> QED  BY <1>4, <3>1, <3>2
  <2> QED  BY <1>5, <2>1, <2>2 DEF Flagless
<1> QED  BY <1>8, <1>9 DEF Tidy

\* setValue counts the difference of the lengths.
LEMMA ValueTidy ==
    ASSUME NEW db, Live(db), Tidy(db), NEW k \in DOMAIN db.nodes, NEW v \in 0 .. 99,
           NEW d, d = SetValue(db, k, v)
    PROVE  Tidy(d) /\ d.dirty = db.dirty
<1> DEFINE a == db.nodes[k].vptr
           oldLen == IF a = NullAddr THEN 0 ELSE ValueLen(Entry(db, a).value)
           mine == db.stages = <<>> \/ CanModify(Last(db.stages), a)
           c == AppendValue(db, k, v)
<1>1. d = IF oldLen > 0 /\ mine /\ oldLen = ValueLen(v) THEN InPlace(db, k, v)
          ELSE [c EXCEPT !.size = @ - oldLen + ValueLen(v)]
  BY DEF SetValue, InPlace
<1>2. Writes(db, d, k, v) /\ Live(d)
  <2>1. Writes(db, SetValue(db, k, v), k, v)
    BY SetValueWrites
  <2>2. Writes(db, d, k, v)
    BY <2>1
  <2> QED  BY <2>2 DEF Writes
<1>3. oldLen = Weight(db.nodes, db.log, k)
  BY DEF Weight, Entry, Ent
<1> HIDE DEF oldLen, mine, c
<1>4. /\ DOMAIN d.nodes = DOMAIN db.nodes /\ d.count = db.count /\ d.dirty = db.dirty
      /\ d.size = (db.size - oldLen) + ValueLen(v)
      /\ \A y \in DOMAIN db.nodes : d.nodes[y].flags = db.nodes[y].flags
  <2>0. /\ db.nodes = [y \in DOMAIN db.nodes |-> db.nodes[y]] /\ Shape(db)
        /\ \A y \in DOMAIN db.nodes :
             db.nodes[y] = [vptr |-> db.nodes[y].vptr, flags |-> db.nodes[y].flags]
    BY DEF Live, NodesOK
  <2>1. CASE oldLen > 0 /\ mine /\ oldLen = ValueLen(v)
    <3>1. d = InPlace(db, k, v)
      BY <1>1, <2>1
    <3>2. d.nodes = db.nodes /\ SameCounters(d, db)
      BY <2>0, <3>1 DEF InPlace, Shape, SameCounters
    <3>3. db.size \in Int /\ oldLen \in Nat
      <4>1. TotalOf(db.nodes, db.log) \in Nat
        <5>1. \A j \in DOMAIN db.nodes : Weights(db.nodes, db.log)[j] \in Nat
          BY LiveWeights, WeightNat
        <5> QED  BY <5>1, SumProperties DEF TotalOf, Tidy, Counted
      <4>2. KeyLen * db.count \in Nat
        BY FS_CardinalityType, KeyBytes DEF Tidy, Counted
      <4>3. oldLen \in Nat
        BY <1>3, LiveWeights, WeightNat
      <4> QED  BY <4>1, <4>2, <4>3 DEF Tidy, Counted
    <3> QED  BY <2>1, <3>2, <3>3 DEF SameCounters
  <2>2. CASE ~(oldLen > 0 /\ mine /\ oldLen = ValueLen(v))
    <3>1. d = [c EXCEPT !.size = @ - oldLen + ValueLen(v)]
      BY <1>1, <2>2
    <3>2. PICK base : AppendsTo(base, db, c, k, v)
      BY AppendShape DEF c
    <3> DEFINE p == GrownTail(base, NewEntry(db, k, v))
    <3>3. Shape(c) /\ SameCounters(c, db) /\ c.nodes = [db.nodes EXCEPT ![k].vptr = p]
      BY <3>2 DEF AppendsTo
    <3> HIDE DEF p
    <3>4. /\ d.nodes = c.nodes /\ d.count = db.count /\ d.dirty = db.dirty
          /\ d.size = (db.size - oldLen) + ValueLen(v)
      BY <3>1, <3>3 DEF Shape, SameCounters
    <3>5. DOMAIN c.nodes = DOMAIN db.nodes
          /\ \A y \in DOMAIN db.nodes : c.nodes[y].flags = db.nodes[y].flags
      <4> DEFINE N == db.nodes
                 e == N[k]
      <4>1. e = [vptr |-> e.vptr, flags |-> e.flags] /\ k \in DOMAIN N
            /\ N = [y \in DOMAIN N |-> N[y]]
        BY <2>0
      <4>2. c.nodes = [N EXCEPT ![k] = [e EXCEPT !.vptr = p]]
        BY <3>3
      <4> HIDE DEF e
      <4>3. [e EXCEPT !.vptr = p] = [vptr |-> p, flags |-> e.flags]
        BY <4>1
      <4> HIDE DEF N
      <4>4. DOMAIN c.nodes = DOMAIN N /\ c.nodes[k].flags = e.flags
            /\ \A y \in DOMAIN N : y # k => c.nodes[y] = N[y]
        BY <4>1, <4>2, <4>3
      <4> QED  BY <4>4 DEF N, e
    <3> QED  BY <3>4, <3>5
  <2> QED  BY <2>1, <2>2
<1>5. /\ LogOK(db.log) /\ PointsInto(db.nodes, db.log)
      /\ LogOK(d.log) /\ PointsInto(d.nodes, d.log)
  BY <1>2, LiveWeights
<1>6. Weight(d.nodes, d.log, k) = ValueLen(v)
  <2>1. BufferGet(d, k) = v /\ k \in DOMAIN d.nodes /\ v # NotExist
    BY <1>2, <1>4 DEF Writes, NotExist
  <2> QED  BY <1>2, <2>1, LiveWeights
<1>7. ASSUME NEW j \in DOMAIN db.nodes \ {k}
      PROVE  Weight(d.nodes, d.log, j) = Weight(db.nodes, db.log, j)
  <2>1. BufferGet(d, j) = BufferGet(db, j)
    BY <1>2 DEF Writes
  <2>2. CASE BufferGet(db, j) = NotExist
    <3>1. Weight(db.nodes, db.log, j) = 0
      BY <2>2, LiveWeights
    <3>2. Weight(d.nodes, d.log, j) = 0
      BY <1>2, <1>4, <2>1, <2>2, LiveWeights
    <3> QED  BY <3>1, <3>2
  <2>3. CASE BufferGet(db, j) # NotExist
    <3>1. Weight(db.nodes, db.log, j) = ValueLen(BufferGet(db, j))
      BY <2>3, LiveWeights
    <3>2. Weight(d.nodes, d.log, j) = ValueLen(BufferGet(d, j))
      BY <1>2, <1>4, <2>1, <2>3, LiveWeights
    <3> QED  BY <2>1, <3>1, <3>2
  <2> QED  BY <2>2, <2>3
<1>8. IsFiniteSet(DOMAIN db.nodes) /\ db.count = Cardinality(DOMAIN db.nodes)
      /\ db.size = KeyLen * db.count + TotalOf(db.nodes, db.log) /\ Flagless(db)
  BY DEF Tidy, Counted
<1>9. /\ \E r \in Nat : /\ TotalOf(db.nodes, db.log) = r + PartOf(db.nodes, db.log, k)
                        /\ TotalOf(d.nodes, d.log) = r + PartOf(d.nodes, d.log, k)
      /\ PartOf(db.nodes, db.log, k) \in Nat /\ PartOf(d.nodes, d.log, k) \in Nat
  BY <1>4, <1>5, <1>7, <1>8, Recount
<1>10. PartOf(db.nodes, db.log, k) = oldLen /\ PartOf(d.nodes, d.log, k) = ValueLen(v)
  BY <1>3, <1>4, <1>6 DEF PartOf
<1>11. KeyLen * db.count \in Nat
  BY <1>8, FS_CardinalityType, KeyBytes
<1>12. d.size = KeyLen * db.count + TotalOf(d.nodes, d.log)
  BY <1>4, <1>8, <1>9, <1>10, <1>11
<1>13. Counted(d)
  BY <1>4, <1>8, <1>12 DEF Counted
<1>14. Flagless(d)
  BY <1>4, <1>8 DEF Flagless
<1> QED  BY <1>4, <1>13, <1>14 DEF Tidy

\* set keeps the books, and outside of a stage makes the buffer dirty.
LEMMA SetKVTidy ==
    ASSUME NEW db, Live(db), Tidy(db), NEW k \in BKey, NEW v \in 0 .. 99 \cup {NoValue}, NEW ops,
           NEW d, d = SetKV(db, k, v, ops)
    PROVE  Tidy(d) /\ (db.dirty => d.dirty) /\ (db.stages = <<>> => d.dirty)
<1> DEFINE x == db.dirty \/ db.stages = <<>>
           d1 == WithNode([db EXCEPT !.dirty = x], k)
           d2 == IF ops = <<>> THEN d1 ELSE SetFlags(d1, k, ops)
<1>1. d = IF v = NoValue THEN d2 ELSE SetValue(d2, k, v)
  BY DEF SetKV
<1>2. x \in BOOLEAN /\ (db.dirty => x) /\ (db.stages = <<>> => x)
  BY DEF Tidy, Flagless
<1> HIDE DEF x
<1>3. Live(d1) /\ k \in DOMAIN d1.nodes
  BY NodeAdded
<1>4. Tidy(d1) /\ d1.dirty = x
  BY <1>2, NodeTidy
<1> HIDE DEF d1
<1>5. Live(d2) /\ k \in DOMAIN d2.nodes
  BY <1>3, FlagsSet
<1>6. Tidy(d2) /\ (x => d2.dirty)
  BY <1>3, <1>4, FlagsTidy
<1> HIDE DEF d2
<1>7. CASE v = NoValue
  BY <1>1, <1>2, <1>6, <1>7
<1>8. CASE v # NoValue
  <2>1. v \in 0 .. 99 /\ d = SetValue(d2, k, v)
    BY <1>1, <1>8
  <2>2. Tidy(d) /\ d.dirty = d2.dirty
    BY <1>5, <1>6, <2>1, ValueTidy
  <2> QED  BY <1>2, <1>6, <2>2
<1> QED  BY <1>7, <1>8

-----------------------------------------------------------------------------
(* Undoing a stage. *)

\* Of db the entries up to the cursor c are left, and the nodes say so.
Undone(db, x, c) ==
    /\ Shape(x) /\ x.vlogInvalid = FALSE /\ x.log = db.log /\ x.stages = db.stages
    /\ NodesOK(x.nodes)
    /\ c \in AddrOf(db.log) \cup {NullAddr}
    /\ \A a \in AddrOf(db.log) : UpTo(a, c) => Ent(db.log, a).node \in DOMAIN x.nodes
    /\ \A k \in DOMAIN x.nodes : IsNewest(x.nodes[k].vptr, VersionsAt(db.log, k, c))

\* The cursor moved back is behind all that was before it.
LEMMA MovedBack ==
    ASSUME NEW db, Live(db), NEW c \in AddrOf(db.log)
    PROVE  LET m == MoveBackCursor(db, c) IN
           /\ m \in AddrOf(db.log) \cup {NullAddr}
           /\ \A a \in AddrOf(db.log) : UpTo(a, m) <=> Before(a, c)
           /\ \A k : VersionsAt(db.log, k, m) = {a \in Of(db.log, k) : Before(a, c)}
<1> DEFINE m == MoveBackCursor(db, c)
           A == AddrOf(db.log)
<1>1. IsNewest(m, {a \in A : Before(a, c)}) /\ A \in SUBSET Position /\ NullAddr \notin A
  BY MoveBackPrevious, AddrPosition DEF Live
<1> HIDE DEF m, A
<1>2. m \in A \cup {NullAddr}
  BY <1>1 DEF IsNewest
<1>3. ASSUME NEW a \in A
      PROVE  UpTo(a, m) <=> Before(a, c)
  <2>1. CASE m = NullAddr
    <3>1. ~UpTo(a, NullAddr)
      BY <1>1 DEF UpTo, Before, NullAddr, Position
    <3>2. {b \in A : Before(b, c)} = {}
      BY <1>1, <2>1 DEF IsNewest
    <3> QED  BY <2>1, <3>1, <3>2
  <2>2. CASE m \in A
    <3>1. Before(m, c) /\ \A b \in A : Before(b, c) => UpTo(b, m)
      BY <1>1, <2>2 DEF IsNewest
    <3>2. c \in Position
      BY <1>1 DEF A
    <3> QED  BY <1>1, <2>2, <3>1, <3>2, BeforeOrder DEF UpTo
  <2> QED  BY <1>2, <2>1, <2>2
<1>4. \A k : VersionsAt(db.log, k, m) = {a \in Of(db.log, k) : Before(a, c)}
  BY <1>3 DEF VersionsAt, Of, A
<1> QED  BY <1>2, <1>3, <1>4 DEF m, A

\* The nodes after one entry is undone.
UndoneNodes(nodes, e) ==
    IF e.old = NullAddr /\ nodes[e.node].flags \cap PersistentFlags = {}
    THEN [y \in DOMAIN nodes \ {e.node} |-> nodes[y]]
    ELSE [nodes EXCEPT ![e.node] =
            [vptr |-> e.old,
             flags |-> IF e.old = NullAddr THEN @.flags \cap PersistentFlags ELSE @.flags]]

\* One turn of the loop in revertToCheckpoint changes the node of the entry and the
\* counters, never the log or the stages.
LEMMA UndoShape ==
    ASSUME NEW x, Shape(x), NodesOK(x.nodes), NEW c, Entry(x, c).node \in DOMAIN x.nodes,
           NEW d, d = UndoEntry(x, c)
    PROVE  /\ Shape(d) /\ d.log = x.log /\ d.stages = x.stages /\ d.vlogInvalid = x.vlogInvalid
           /\ d.nodes = UndoneNodes(x.nodes, Entry(x, c))
<1> DEFINE e == Entry(x, c)
           n == x.nodes
           kept == n[e.node].flags \cap PersistentFlags
           s == x.size - ValueLen(e.value)
           n1 == [n EXCEPT ![e.node].vptr = e.old]
           d1 == [x EXCEPT !.nodes[e.node].vptr = e.old, !.size = @ - ValueLen(e.value)]
<1>1. d = IF e.old # NullAddr THEN [d1 EXCEPT !.size = @ + ValueLen(Entry(x, e.old).value)]
          ELSE IF kept = {} THEN DropNode(d1, e.node)
          ELSE [d1 EXCEPT !.nodes[e.node].flags = kept, !.dirty = TRUE]
  BY DEF UndoEntry
<1> HIDE DEF e
<1>2. d1 = [[x EXCEPT !.nodes = n1] EXCEPT !.size = s]
  BY DEF Shape
<1> HIDE DEF s, n1, d1
<1>3. /\ d1.nodes = n1 /\ d1.log = x.log /\ d1.stages = x.stages /\ d1.vlogInvalid = x.vlogInvalid
      /\ Shape(d1)
  BY <1>2 DEF Shape
<1>4. /\ n = [y \in DOMAIN n |-> n[y]] /\ e.node \in DOMAIN n
      /\ n[e.node] = [vptr |-> n[e.node].vptr, flags |-> n[e.node].flags]
  BY DEF NodesOK, e
<1> HIDE DEF n
<1>5. n1 = [n EXCEPT ![e.node] = [vptr |-> e.old, flags |-> n[e.node].flags]]
  <2>1. [n[e.node] EXCEPT !.vptr = e.old] = [vptr |-> e.old, flags |-> n[e.node].flags]
    BY <1>4
  <2>2. n1 = [n EXCEPT ![e.node] = [n[e.node] EXCEPT !.vptr = e.old]]
    BY DEF n1
  <2> QED  BY <2>1, <2>2
<1>6. CASE e.old # NullAddr
  <2>1. d = [d1 EXCEPT !.size = @ + ValueLen(Entry(x, e.old).value)]
    BY <1>1, <1>6
  <2>2. UndoneNodes(n, e) = n1
    BY <1>5, <1>6 DEF UndoneNodes
  <2> QED  BY <1>3, <2>1, <2>2 DEF Shape, e, n
<1>7. CASE e.old = NullAddr /\ kept = {}
  <2> DEFINE n2 == [y \in DOMAIN n1 \ {e.node} |-> n1[y]]
             n3 == [y \in DOMAIN n \ {e.node} |-> n[y]]
  <2>1. d = [d1 EXCEPT !.nodes = n2, !.count = @ - 1, !.size = @ - KeyLen]
    BY <1>1, <1>3, <1>7 DEF DropNode
  <2>2. UndoneNodes(n, e) = n3
    BY <1>7 DEF UndoneNodes
  <2>3. n2 = n3
    BY <1>4, <1>5
  <2> HIDE DEF n2, n3
  <2> QED  BY <1>3, <2>1, <2>2, <2>3 DEF Shape, e, n
<1>8. CASE e.old = NullAddr /\ kept # {}
  <2> DEFINE n2 == [n1 EXCEPT ![e.node].flags = kept]
             n3 == [n EXCEPT ![e.node] = [vptr |-> e.old, flags |-> kept]]
  <2>1. d = [d1 EXCEPT !.nodes[e.node].flags = kept, !.dirty = TRUE]
    BY <1>1, <1>8
  <2>2. d = [[d1 EXCEPT !.nodes = n2] EXCEPT !.dirty = TRUE]
    <3> HIDE DEF kept
    <3> QED  BY <1>3, <2>1 DEF Shape
  <2>3. UndoneNodes(n, e) = n3
    BY <1>8 DEF UndoneNodes
  <2>4. n2 = n3
    <3> HIDE DEF kept
    <3>1. DOMAIN n1 = DOMAIN n /\ n1[e.node] = [vptr |-> e.old, flags |-> n[e.node].flags]
          /\ n1 = [y \in DOMAIN n |-> n1[y]] /\ \A y \in DOMAIN n : y # e.node => n1[y] = n[y]
      BY <1>4, <1>5
    <3>2. [n1[e.node] EXCEPT !.flags = kept] = [vptr |-> e.old, flags |-> kept]
      BY <3>1
    <3>3. n2 = [n1 EXCEPT ![e.node] = [vptr |-> e.old, flags |-> kept]]
      BY <3>2
    <3> QED  BY <1>4, <3>1, <3>3
  <2> HIDE DEF n2, n3
  <2> QED  BY <1>3, <2>2, <2>3, <2>4 DEF Shape, e, n
<1> QED  BY <1>6, <1>7, <1>8

\* What one turn does to the counters and to dirty.
LEMMA UndoCounts ==
    ASSUME NEW x, Shape(x), NodesOK(x.nodes), NEW c, Entry(x, c).node \in DOMAIN x.nodes,
           NEW d, d = UndoEntry(x, c)
    PROVE  LET e == Entry(x, c)
               kept == x.nodes[e.node].flags \cap PersistentFlags
               size == x.size - ValueLen(e.value)
           IN  /\ e.old # NullAddr =>
                    /\ d.size = size + ValueLen(Entry(x, e.old).value)
                    /\ d.count = x.count /\ d.dirty = x.dirty
               /\ (e.old = NullAddr /\ kept = {}) =>
                    d.size = size - KeyLen /\ d.count = x.count - 1 /\ d.dirty = x.dirty
               /\ (e.old = NullAddr /\ kept # {}) =>
                    d.size = size /\ d.count = x.count /\ d.dirty = TRUE
<1> DEFINE e == Entry(x, c)
           n == x.nodes
           kept == n[e.node].flags \cap PersistentFlags
           s == x.size - ValueLen(e.value)
           n1 == [n EXCEPT ![e.node].vptr = e.old]
           d1 == [x EXCEPT !.nodes[e.node].vptr = e.old, !.size = @ - ValueLen(e.value)]
<1>1. d = IF e.old # NullAddr THEN [d1 EXCEPT !.size = @ + ValueLen(Entry(x, e.old).value)]
          ELSE IF kept = {} THEN DropNode(d1, e.node)
          ELSE [d1 EXCEPT !.nodes[e.node].flags = kept, !.dirty = TRUE]
  BY DEF UndoEntry
<1> HIDE DEF e
<1>2. d1 = [[x EXCEPT !.nodes = n1] EXCEPT !.size = s]
  BY DEF Shape
<1> HIDE DEF s, n1, d1
<1>3. Shape(d1) /\ d1.size = s /\ d1.count = x.count /\ d1.dirty = x.dirty
  BY <1>2 DEF Shape
<1> HIDE DEF n, kept
<1>4. ASSUME e.old # NullAddr
      PROVE  /\ d.size = s + ValueLen(Entry(x, e.old).value)
             /\ d.count = x.count /\ d.dirty = x.dirty
  BY <1>1, <1>3, <1>4 DEF Shape
<1>5. ASSUME e.old = NullAddr, kept = {}
      PROVE  d.size = s - KeyLen /\ d.count = x.count - 1 /\ d.dirty = x.dirty
  BY <1>1, <1>3, <1>5 DEF Shape, DropNode
<1>6. ASSUME e.old = NullAddr, kept # {}
      PROVE  d.size = s /\ d.count = x.count /\ d.dirty = TRUE
  BY <1>1, <1>3, <1>6 DEF Shape
<1> QED  BY <1>4, <1>5, <1>6 DEF s, e, kept, n

\* One step of revertToCheckpoint undoes the entry at the cursor.
LEMMA UndoStep ==
    ASSUME NEW db, Live(db), NEW x, NEW c \in AddrOf(db.log), Undone(db, x, c)
    PROVE  Undone(db, UndoEntry(x, c), MoveBackCursor(db, c))
<1> DEFINE log == db.log
           A == AddrOf(log)
           d == UndoEntry(x, c)
           m == MoveBackCursor(db, c)
           e == Ent(log, c)
           n == x.nodes
           k == e.node
           n2 == UndoneNodes(n, e)
<1>1. /\ Shape(x) /\ NodesOK(n) /\ x.log = log /\ Entry(x, c) = e /\ k \in DOMAIN n
      /\ \A a \in A : UpTo(a, c) => Ent(log, a).node \in DOMAIN n
      /\ \A j \in DOMAIN n : IsNewest(n[j].vptr, VersionsAt(log, j, c))
  BY DEF Undone, Entry, Ent, UpTo
<1>2. /\ Shape(d) /\ d.log = x.log /\ d.stages = x.stages /\ d.vlogInvalid = x.vlogInvalid
      /\ d.nodes = n2
  BY <1>1, UndoShape
<1>3. /\ m \in A \cup {NullAddr}
      /\ \A a \in A : UpTo(a, m) <=> Before(a, c)
      /\ \A j : VersionsAt(log, j, m) = {a \in Of(log, j) : Before(a, c)}
  BY MovedBack
<1>4. IsNewest(e.old, VersionsAt(log, k, m))
  BY <1>3 DEF Live, ChainOK, OldVersions
<1>5. \A j : j # k => VersionsAt(log, j, m) = VersionsAt(log, j, c)
  <2>1. \A j : j # k => c \notin Of(log, j)
    BY DEF Of
  <2> QED  BY <1>3, <2>1 DEF VersionsAt, UpTo
<1> HIDE DEF m, d, e, n, n2, k
<1>6. /\ n = [y \in DOMAIN n |-> n[y]] /\ DOMAIN n \subseteq BKey
      /\ \A j \in DOMAIN n : n[j] = [vptr |-> n[j].vptr, flags |-> n[j].flags]
  BY <1>1 DEF NodesOK
<1>7. CASE e.old = NullAddr /\ n[k].flags \cap PersistentFlags = {}
  <2>1. n2 = [y \in DOMAIN n \ {k} |-> n[y]]
    BY <1>7 DEF n2, UndoneNodes, k
  <2>2. /\ DOMAIN n2 = DOMAIN n \ {k} /\ \A j \in DOMAIN n2 : n2[j] = n[j]
        /\ n2 = [y \in DOMAIN n2 |-> n2[y]]
    BY <2>1, Zenon
  <2>3. NodesOK(n2)
    BY <1>6, <2>2 DEF NodesOK
  <2>4. VersionsAt(log, k, m) = {}
    <3>1. VersionsAt(log, k, m) \subseteq A /\ NullAddr \notin A
      BY AddrPosition DEF Live, VersionsAt, Of
    <3> QED  BY <1>4, <1>7, <3>1 DEF IsNewest
  <2>5. \A a \in A : UpTo(a, m) => Ent(log, a).node \in DOMAIN n2
    <3> SUFFICES ASSUME NEW a \in A, UpTo(a, m) PROVE Ent(log, a).node \in DOMAIN n2
      OBVIOUS
    <3>1. Ent(log, a).node # k
      BY <2>4 DEF VersionsAt, Of
    <3>2. UpTo(a, c)
      BY <1>3 DEF UpTo
    <3> QED  BY <1>1, <2>2, <3>1, <3>2
  <2>6. \A j \in DOMAIN n2 : IsNewest(n2[j].vptr, VersionsAt(log, j, m))
    BY <1>1, <1>5, <2>2
  <2>7. Undone(db, d, m)
    BY <1>1, <1>2, <1>3, <2>3, <2>5, <2>6 DEF Undone
  <2> QED  BY <2>7 DEF d, m
<1>8. CASE ~(e.old = NullAddr /\ n[k].flags \cap PersistentFlags = {})
  <2> DEFINE f == IF e.old = NullAddr THEN n[k].flags \cap PersistentFlags ELSE n[k].flags
  <2>1. n2 = [n EXCEPT ![k] = [vptr |-> e.old, flags |-> f]]
    BY <1>8 DEF n2, UndoneNodes, k
  <2> HIDE DEF f
  <2>2. /\ DOMAIN n2 = DOMAIN n /\ n2[k] = [vptr |-> e.old, flags |-> f]
        /\ \A j \in DOMAIN n : j # k => n2[j] = n[j]
        /\ n2 = [y \in DOMAIN n2 |-> n2[y]]
    BY <1>1, <1>6, <2>1
  <2>3. NodesOK(n2)
    BY <1>6, <2>2 DEF NodesOK
  <2>4. \A a \in A : UpTo(a, m) => Ent(log, a).node \in DOMAIN n2
    BY <1>1, <1>3, <2>2 DEF UpTo
  <2>5. \A j \in DOMAIN n2 : IsNewest(n2[j].vptr, VersionsAt(log, j, m))
    <3> SUFFICES ASSUME NEW j \in DOMAIN n2 PROVE IsNewest(n2[j].vptr, VersionsAt(log, j, m))
      OBVIOUS
    <3>1. CASE j = k
      <4>1. n2[j].vptr = e.old
        BY <2>2, <3>1
      <4> QED  BY <1>4, <3>1, <4>1
    <3>2. CASE j # k
      BY <1>1, <1>5, <2>2, <3>2
    <3> QED  BY <3>1, <3>2
  <2>6. Undone(db, d, m)
    BY <1>1, <1>2, <1>3, <2>3, <2>4, <2>5 DEF Undone
  <2> QED  BY <2>6 DEF d, m
<1> QED  BY <1>7, <1>8

\* Undone, with the books kept: what Cleanup leaves is counted as it is.
Tracked(db, x, c) ==
    Undone(db, x, c) /\ (Tidy(db) => Tidy(x) /\ (db.dirty => x.dirty))

\* Each turn of revertToCheckpoint keeps the books.
LEMMA UndoTracked ==
    ASSUME NEW db, Live(db), NEW x, NEW c \in AddrOf(db.log), Tracked(db, x, c)
    PROVE  Tracked(db, UndoEntry(x, c), MoveBackCursor(db, c))
<1> DEFINE log == db.log
           d == UndoEntry(x, c)
           m == MoveBackCursor(db, c)
           e == Ent(log, c)
           n == x.nodes
           k == e.node
           n2 == d.nodes
<1>1. Undone(db, x, c) /\ Undone(db, d, m)
  BY UndoStep DEF Tracked
<1> SUFFICES ASSUME Tidy(db) PROVE Tidy(d) /\ (db.dirty => d.dirty)
  BY <1>1 DEF Tracked
<1>2. Tidy(x) /\ (db.dirty => x.dirty)
  BY DEF Tracked
<1>3. /\ Shape(x) /\ NodesOK(n) /\ x.log = log /\ Entry(x, c) = e /\ k \in DOMAIN n
      /\ \A j \in DOMAIN n : IsNewest(n[j].vptr, VersionsAt(log, j, c))
  BY <1>1 DEF Undone, Entry, Ent, UpTo
<1>4. d.log = log /\ n2 = UndoneNodes(n, e)
  BY <1>3, UndoShape
<1>5. ASSUME NEW y, NEW a, Undone(db, y, a)
      PROVE  PointsInto(y.nodes, log)
  <2>1. \A j \in DOMAIN y.nodes : IsNewest(y.nodes[j].vptr, VersionsAt(log, j, a))
    BY <1>5 DEF Undone
  <2> QED  BY <2>1 DEF IsNewest, VersionsAt, Of, PointsInto
<1>6. LogOK(log) /\ PointsInto(n, log) /\ PointsInto(n2, log)
  BY <1>1, <1>5 DEF Live
<1>7. /\ e.old # NullAddr =>
           /\ d.size = (x.size - ValueLen(e.value)) + ValueLen(Ent(log, e.old).value)
           /\ d.count = x.count /\ d.dirty = x.dirty
      /\ (e.old = NullAddr /\ n[k].flags \cap PersistentFlags = {}) =>
           /\ d.size = (x.size - ValueLen(e.value)) - KeyLen
           /\ d.count = x.count - 1 /\ d.dirty = x.dirty
      /\ (e.old = NullAddr /\ n[k].flags \cap PersistentFlags # {}) =>
           d.size = x.size - ValueLen(e.value) /\ d.count = x.count /\ d.dirty = TRUE
  <2>1. Entry(x, e.old) = Ent(log, e.old)
    BY <1>3 DEF Entry, Ent
  <2> DEFINE E == Entry(x, c)
             kept == x.nodes[E.node].flags \cap PersistentFlags
             size == x.size - ValueLen(E.value)
  <2>2. Entry(x, c).node \in DOMAIN x.nodes /\ E = e
    BY <1>3
  <2>3. /\ E.old # NullAddr =>
             /\ d.size = size + ValueLen(Entry(x, E.old).value)
             /\ d.count = x.count /\ d.dirty = x.dirty
        /\ (E.old = NullAddr /\ kept = {}) =>
             d.size = size - KeyLen /\ d.count = x.count - 1 /\ d.dirty = x.dirty
        /\ (E.old = NullAddr /\ kept # {}) =>
             d.size = size /\ d.count = x.count /\ d.dirty = TRUE
    BY <1>3, <2>2, UndoCounts
  <2> HIDE DEF d, E
  <2> QED  BY <2>1, <2>2, <2>3
<1>8. n[k].vptr = c
  <2>1. IsNewest(c, VersionsAt(log, k, c))
    BY DEF IsNewest, VersionsAt, Of, UpTo
  <2>2. VersionsAt(log, k, c) \in SUBSET Position
    BY <1>6, AddrPosition DEF VersionsAt, Of
  <2> QED  BY <1>3, <2>1, <2>2, NewestUnique
<1>9. c # NullAddr
  BY <1>6, AddrPosition
<1> HIDE DEF d, m, n2, n, k
<1>10. PartOf(n, log, k) = ValueLen(e.value)
  BY <1>3, <1>8, <1>9 DEF PartOf, Weight
<1>11. /\ n = [y \in DOMAIN n |-> n[y]]
       /\ \A y \in DOMAIN n : n[y] = [vptr |-> n[y].vptr, flags |-> n[y].flags]
  BY <1>3 DEF NodesOK
<1>12. IsFiniteSet(DOMAIN n) /\ x.count = Cardinality(DOMAIN n) /\ x.count \in Nat
       /\ x.size = KeyLen * x.count + TotalOf(n, log) /\ KeyLen * x.count \in Nat
  <2>1. IsFiniteSet(DOMAIN n) /\ x.count = Cardinality(DOMAIN n)
        /\ x.size = KeyLen * x.count + TotalOf(n, log)
    BY <1>2, <1>3 DEF Tidy, Counted, n
  <2> QED  BY <2>1, FS_CardinalityType, KeyBytes
<1>13. Flagless(x) /\ x.dirty \in BOOLEAN
  BY <1>2 DEF Tidy, Flagless
<1>14. CASE e.old = NullAddr /\ n[k].flags \cap PersistentFlags = {}
  <2>1. n2 = [y \in DOMAIN n \ {k} |-> n[y]]
    BY <1>4, <1>14 DEF UndoneNodes, k
  <2>2. DOMAIN n2 = DOMAIN n \ {k} /\ \A j \in DOMAIN n2 : n2[j] = n[j]
    BY <2>1, Zenon
  <2>3. DOMAIN n2 \ {k} = DOMAIN n \ {k}
        /\ \A j \in DOMAIN n \ {k} : Weight(n2, log, j) = Weight(n, log, j)
    BY <2>2 DEF Weight
  <2>4. PartOf(n2, log, k) = 0
    BY <2>2 DEF PartOf
  <2>5. /\ \E r \in Nat : TotalOf(n, log) = r + PartOf(n, log, k) /\ TotalOf(n2, log) = r + PartOf(n2, log, k)
        /\ PartOf(n, log, k) \in Nat
    BY <1>6, <1>12, <2>3, Recount
  <2>6. IsFiniteSet(DOMAIN n2) /\ Cardinality(DOMAIN n2) = x.count - 1
    BY <1>3, <1>12, <2>2, FS_RemoveElement
  <2>7. x.count # 0
    BY <1>3, <1>12, FS_EmptySet
  <2>8. KeyLen * (x.count - 1) = KeyLen * x.count - KeyLen
    BY <1>12, <2>7, KeyBytes
  <2>9. d.size = KeyLen * d.count + TotalOf(n2, log)
    <3>1. d.size = (x.size - ValueLen(e.value)) - KeyLen /\ d.count = x.count - 1
      BY <1>7, <1>14
    <3> QED  BY <1>10, <1>12, <2>4, <2>5, <2>8, <3>1, MemBufferAssumption
  <2>10. Counted(d)
    BY <1>4, <1>7, <1>14, <2>6, <2>9 DEF Counted, n2
  <2>11. Flagless(d)
    BY <1>7, <1>13, <1>14, <2>2 DEF Flagless, n2, n
  <2> QED  BY <1>2, <1>7, <1>14, <2>10, <2>11 DEF Tidy
<1>15. CASE ~(e.old = NullAddr /\ n[k].flags \cap PersistentFlags = {})
  <2> DEFINE f == IF e.old = NullAddr THEN n[k].flags \cap PersistentFlags ELSE n[k].flags
  <2>1. n2 = [n EXCEPT ![k] = [vptr |-> e.old, flags |-> f]]
    BY <1>4, <1>15 DEF UndoneNodes, k
  <2>f. e.old # NullAddr => f = n[k].flags
    OBVIOUS
  <2> HIDE DEF f
  <2>2. /\ DOMAIN n2 = DOMAIN n /\ n2[k] = [vptr |-> e.old, flags |-> f]
        /\ \A j \in DOMAIN n : j # k => n2[j] = n[j]
    BY <1>3, <1>11, <2>1
  <2>3. DOMAIN n2 \ {k} = DOMAIN n \ {k}
        /\ \A j \in DOMAIN n \ {k} : Weight(n2, log, j) = Weight(n, log, j)
    BY <2>2 DEF Weight
  <2>4. PartOf(n2, log, k) = IF e.old = NullAddr THEN 0 ELSE ValueLen(Ent(log, e.old).value)
    BY <1>3, <2>2 DEF PartOf, Weight
  <2>5. /\ \E r \in Nat : TotalOf(n, log) = r + PartOf(n, log, k) /\ TotalOf(n2, log) = r + PartOf(n2, log, k)
        /\ PartOf(n, log, k) \in Nat /\ PartOf(n2, log, k) \in Nat
    BY <1>6, <1>12, <2>3, Recount
  <2>6. d.size = (x.size - PartOf(n, log, k)) + PartOf(n2, log, k) /\ d.count = x.count
    <3>1. CASE e.old # NullAddr
      BY <1>7, <1>10, <2>4, <3>1
    <3>2. CASE e.old = NullAddr
      <4>1. d.size = x.size - PartOf(n, log, k) /\ d.count = x.count /\ PartOf(n2, log, k) = 0
        BY <1>7, <1>10, <1>15, <2>4, <3>2
      <4>2. x.size \in Int
        BY <1>12, <2>5
      <4> QED  BY <2>5, <4>1, <4>2
    <3> QED  BY <3>1, <3>2
  <2>7. d.size = KeyLen * d.count + TotalOf(n2, log)
    BY <1>12, <2>5, <2>6
  <2>8. Counted(d)
    BY <1>4, <1>12, <2>2, <2>6, <2>7 DEF Counted, n2
  <2>9. Flagless(d) /\ (x.dirty => d.dirty)
    <3>1. CASE e.old # NullAddr
      <4>1. d.dirty = x.dirty /\ \A j \in DOMAIN n : n2[j].flags = n[j].flags
        BY <1>7, <2>2, <2>f, <3>1
      <4> QED  BY <1>13, <2>2, <4>1 DEF Flagless, n, n2
    <3>2. CASE e.old = NullAddr
      <4>1. d.dirty = TRUE
        BY <1>7, <1>15, <3>2
      <4> QED  BY <4>1 DEF Flagless
    <3> QED  BY <3>1, <3>2
  <2> QED  BY <1>2, <2>8, <2>9 DEF Tidy
<1> QED  BY <1>14, <1>15

\* The log has finitely many entries.
LEMMA FiniteLog ==
    ASSUME NEW log, LogOK(log)
    PROVE  IsFiniteSet(AddrOf(log))
<1>0. PICK X : log \in Seq(X)
  BY DEF LogOK
<1> DEFINE B(b) == {<<b, o>> : o \in DOMAIN log[b].at}
           D == 1 .. Len(log)
<1>1. Len(log) \in Nat /\ DOMAIN log = D
  BY <1>0
<1>2. ASSUME NEW b \in D
      PROVE  IsFiniteSet(B(b))
  <2> DEFINE O == DOMAIN log[b].at
             f == [o \in O |-> <<b, o>>]
  <2>1. log[b].length \in Nat /\ \A o \in O : o \in Nat /\ o <= log[b].length
    BY <1>2 DEF LogOK, BlockOK
  <2>2. IsFiniteSet(0 .. log[b].length) /\ O \subseteq 0 .. log[b].length
    <3>1. \A n \in Nat : IsFiniteSet(0 .. n)
      BY FS_Interval
    <3>2. O \subseteq 0 .. log[b].length
      BY <2>1
    <3> QED  BY <2>1, <3>1, <3>2
  <2>3. IsFiniteSet(O)
    BY <2>2, FS_Subset
  <2>4. f \in Surjection(O, B(b))
    BY DEF Surjection
  <2> HIDE DEF f, O, B
  <2> QED  BY <2>3, <2>4, FS_Surjection
<1>3. IsFiniteSet({B(b) : b \in D})
  <2> DEFINE f == [b \in D |-> B(b)]
  <2>1. f \in Surjection(D, {B(b) : b \in D})
    BY DEF Surjection
  <2>2. IsFiniteSet(D)
    BY <1>1, FS_Interval
  <2> HIDE DEF f, D, B
  <2> QED  BY <2>1, <2>2, FS_Surjection
<1>4. AddrOf(log) = UNION {B(b) : b \in D}
  BY <1>1 DEF AddrOf
<1>5. \A T \in {B(b) : b \in D} : IsFiniteSet(T)
  BY <1>2
<1> HIDE DEF B, D
<1> QED  BY <1>3, <1>4, <1>5, FS_UNION

\* One turn of the loop of revertToCheckpoint.
Turn(db, head, r) ==
    IF r.at = head THEN r
    ELSE [db |-> UndoEntry(r.db, r.at), at |-> MoveBackCursor(db, r.at)]

Turns(F, db, head, z, n) == F = [i \in 0 .. n |-> IF i = 0 THEN z ELSE Turn(db, head, F[i - 1])]

\* The loop of revertToCheckpoint can be unfolded to any number of turns.
LEMMA LoopExists ==
    ASSUME NEW db, NEW head, NEW z
    PROVE  \A n \in Nat : \E F : Turns(F, db, head, z, n)
<1> DEFINE Steps(F, n) == F = [i \in 0 .. n |-> IF i = 0 THEN z ELSE Turn(db, head, F[i - 1])]
           S == {n \in Nat : \E F : Steps(F, n)}
<1>1. 0 \in S
  <2> DEFINE F == [i \in 0 .. 0 |-> z]
  <2>1. Steps(F, 0)
    OBVIOUS
  <2> HIDE DEF F, Steps
  <2> QED  BY <2>1
<1>2. ASSUME NEW n \in S
      PROVE  n + 1 \in S
  <2>1. PICK F : Steps(F, n)
    BY <1>2
  <2> DEFINE G == [i \in 0 .. n + 1 |-> IF i <= n THEN F[i] ELSE Turn(db, head, F[n])]
  <2>2. n \in Nat
    BY <1>2
  <2>3. /\ \A i \in 0 .. n : F[i] = IF i = 0 THEN z ELSE Turn(db, head, F[i - 1])
        /\ \A i \in 0 .. n : G[i] = F[i]
        /\ G[n + 1] = Turn(db, head, F[n])
    <3>1. \A i \in 0 .. n : F[i] = IF i = 0 THEN z ELSE Turn(db, head, F[i - 1])
      BY <2>1, Zenon
    <3>2. \A i \in 0 .. n : i \in 0 .. n + 1 /\ i <= n
      BY <2>2
    <3>3. n + 1 \in 0 .. n + 1 /\ ~(n + 1 <= n)
      BY <2>2
    <3> QED  BY <3>1, <3>2, <3>3, Zenon
  <2> HIDE DEF G
  <2>4. \A i \in 0 .. n + 1 : G[i] = IF i = 0 THEN z ELSE Turn(db, head, G[i - 1])
    <3> SUFFICES ASSUME NEW i \in 0 .. n + 1
                 PROVE  G[i] = IF i = 0 THEN z ELSE Turn(db, head, G[i - 1])
      OBVIOUS
    <3>1. CASE i = n + 1
      <4>1. n \in 0 .. n /\ i # 0 /\ i - 1 = n
        BY <2>2, <3>1
      <4> QED  BY <2>3, <3>1, <4>1
    <3>2. CASE i # n + 1
      <4>1. i \in 0 .. n /\ (i # 0 => i - 1 \in 0 .. n)
        BY <2>2, <3>2
      <4> QED  BY <2>3, <4>1
    <3> QED  BY <3>1, <3>2
  <2>5. Steps(G, n + 1)
    <3>1. G = [i \in 0 .. n + 1 |-> G[i]]
      BY DEF G
    <3> QED  BY <2>4, <3>1
  <2> HIDE DEF Steps
  <2> QED  BY <2>2, <2>5
<1> HIDE DEF S
<1>3. S = Nat
  BY <1>1, <1>2, SetInduction DEF S
<1> QED  BY <1>3, Zenon DEF S, Turns

\* revertToCheckpoint reaches the checkpoint, with all behind it undone.
LEMMA RevertReaches ==
    ASSUME NEW db, Live(db), NEW cp, Pos(cp) \in AddrOf(db.log) \cup {NullAddr}
    PROVE  Tracked(db, RevertToCheckpoint(db, cp), Pos(cp))
<1> DEFINE A == AddrOf(db.log)
           N == Cardinality(A)
           head == Pos(cp)
           z == [db |-> db, at |-> TailOf(db.log)]
           loop[n \in 0 .. N] == IF n = 0 THEN z ELSE Turn(db, head, loop[n - 1])
<1>0. /\ LogOK(db.log) /\ IsFiniteSet(A) /\ N \in Nat /\ A \in SUBSET Position /\ NullAddr \notin A
      /\ head \in Position /\ head \in A \cup {NullAddr}
  BY FiniteLog, FS_CardinalityType, AddrPosition, BeforeOrder DEF Live
<1>1. RevertToCheckpoint(db, cp) = loop[N].db
  <2>1. <<Checkpoint(db).blocks, Checkpoint(db).offset>> = TailOf(db.log)
    BY DEF Checkpoint, TailOf, Last
  <2>2. Addresses(db) = A
    BY DEF Addresses, AddrOf
  <2> QED  BY <2>1, <2>2 DEF RevertToCheckpoint, Turn, Pos
<1>2. loop = CHOOSE F : F = [n \in 0 .. N |-> IF n = 0 THEN z ELSE Turn(db, head, F[n - 1])]
  BY DEF loop
<1> HIDE DEF loop, N
<1>3. loop = [n \in 0 .. N |-> IF n = 0 THEN z ELSE Turn(db, head, loop[n - 1])]
  <2>1. \E F : F = [n \in 0 .. N |-> IF n = 0 THEN z ELSE Turn(db, head, F[n - 1])]
    <3> HIDE DEF z, head
    <3>1. \E F : Turns(F, db, head, z, N)
      BY <1>0, LoopExists
    <3> QED  BY <3>1, Zenon DEF Turns
  <2> QED  BY <1>2, <2>1, Zenon
<1>4. \A n \in 0 .. N : loop[n] = IF n = 0 THEN z ELSE Turn(db, head, loop[n - 1])
  BY <1>3, Zenon
<1> DEFINE R(c) == {a \in A : UpTo(a, c)}
           P(n, r) == /\ Tracked(db, r.db, r.at) /\ UpTo(head, r.at)
                      /\ r.at = head \/ Cardinality(R(r.at)) <= N - n
           S == {n \in Nat : n \in 0 .. N => P(n, loop[n])}
<1>5. 0 \in S
  <2>1. 0 \in 0 .. N /\ loop[0] = z
    BY <1>0, <1>4
  <2>2. IsNewest(TailOf(db.log), A)
    BY <1>0, TailNewest
  <2>3. R(TailOf(db.log)) = A
    BY <1>0, <2>2 DEF IsNewest
  <2>4. UpTo(head, TailOf(db.log))
    <3>1. CASE TailOf(db.log) = NullAddr
      BY <1>0, <2>2, <3>1 DEF IsNewest, UpTo
    <3>2. CASE TailOf(db.log) \in A
      <4>1. \A a \in A : UpTo(a, TailOf(db.log))
        BY <2>2, <3>2 DEF IsNewest
      <4>2. UpTo(NullAddr, TailOf(db.log))
        BY <1>0, <3>2 DEF UpTo, Before, NullAddr, Position
      <4> QED  BY <1>0, <4>1, <4>2
    <3> QED  BY <2>2, <3>1, <3>2 DEF IsNewest
  <2>5. Tracked(db, db, TailOf(db.log))
    <3>1. \A k : VersionsAt(db.log, k, TailOf(db.log)) = Of(db.log, k)
      BY <2>3 DEF VersionsAt, Of
    <3>2. TailOf(db.log) \in A \cup {NullAddr}
      BY <2>2 DEF IsNewest
    <3>3. Undone(db, db, TailOf(db.log))
      BY <3>1, <3>2 DEF Undone, Live, ChainOK
    <3> QED  BY <3>3 DEF Tracked
  <2>6. z.db = db /\ z.at = TailOf(db.log)
    OBVIOUS
  <2>7. Cardinality(R(z.at)) <= N - 0
    <3>1. R(z.at) = A
      BY <2>3, <2>6
    <3>2. Cardinality(R(z.at)) = N
      BY <3>1 DEF N
    <3> HIDE DEF R
    <3> QED  BY <1>0, <3>2
  <2> HIDE DEF R, z
  <2>8. P(0, z)
    BY <2>4, <2>5, <2>6, <2>7
  <2> HIDE DEF P
  <2> QED  BY <2>1, <2>8
<1>6. ASSUME NEW n \in S PROVE n + 1 \in S
  <2> SUFFICES ASSUME n + 1 \in 0 .. N PROVE P(n + 1, loop[n + 1])
    OBVIOUS
  <2> DEFINE r == loop[n]
             c == r.at
             m == MoveBackCursor(db, c)
  <2>1. n \in Nat /\ n \in 0 .. N /\ n + 1 # 0 /\ (n + 1) - 1 = n
    BY <1>0, <1>6
  <2>2. loop[n + 1] = Turn(db, head, r)
    BY <1>4, <2>1
  <2>3. P(n, r)
    BY <1>6, <2>1
  <2>4. CASE c = head
    <3>1. loop[n + 1] = r
      BY <2>2, <2>4 DEF Turn
    <3> HIDE DEF r, R
    <3> QED  BY <2>3, <2>4, <3>1
  <2>5. CASE c # head
    <3>1. loop[n + 1] = [db |-> UndoEntry(r.db, c), at |-> m]
      BY <2>2, <2>5 DEF Turn
    <3> HIDE DEF r, m
    <3>2. loop[n + 1].db = UndoEntry(r.db, c) /\ loop[n + 1].at = m
      BY <3>1
    <3>3. Tracked(db, r.db, c) /\ UpTo(head, c) /\ Cardinality(R(c)) <= N - n
      BY <2>3, <2>5
    <3> HIDE DEF c
    <3>4. c \in A
      <4>1. c \in A \cup {NullAddr}
        BY <3>3 DEF Tracked, Undone
      <4>2. c # NullAddr
        BY <1>0, <2>5, <3>3 DEF UpTo, Before, NullAddr, Position
      <4> QED  BY <4>1, <4>2
    <3>5. Tracked(db, UndoEntry(r.db, c), m)
      BY <3>3, <3>4, UndoTracked DEF m
    <3>6. /\ m \in A \cup {NullAddr} /\ \A a \in A : UpTo(a, m) <=> Before(a, c)
      BY <3>4, MovedBack DEF m
    <3>7. UpTo(head, m)
      <4>1. Before(head, c)
        BY <2>5, <3>3 DEF UpTo
      <4>2. CASE head \in A
        BY <3>6, <4>1, <4>2
      <4>3. CASE head = NullAddr
        <5>1. CASE m = NullAddr
          BY <4>3, <5>1 DEF UpTo
        <5>2. CASE m \in A
          BY <1>0, <4>3, <5>2 DEF UpTo, Before, NullAddr, Position
        <5> QED  BY <3>6, <5>1, <5>2
      <4> QED  BY <1>0, <4>2, <4>3
    <3>8. R(m) = R(c) \ {c} /\ c \in R(c) /\ IsFiniteSet(R(c))
      <4>1. \A a \in A : Before(a, c) <=> UpTo(a, c) /\ a # c
        BY <1>0, <3>4, BeforeOrder DEF UpTo
      <4>2. IsFiniteSet(R(c))
        BY <1>0, FS_Subset
      <4> QED  BY <3>4, <3>6, <4>1, <4>2 DEF UpTo
    <3> HIDE DEF R
    <3>9. Cardinality(R(m)) = Cardinality(R(c)) - 1 /\ Cardinality(R(c)) \in Nat
      BY <3>8, FS_RemoveElement, FS_CardinalityType
    <3>10. Cardinality(R(m)) <= N - (n + 1)
      BY <1>0, <2>1, <3>3, <3>9
    <3> QED  BY <3>2, <3>5, <3>7, <3>10
  <2> QED  BY <2>4, <2>5
<1>7. S = Nat
  <2> HIDE DEF P
  <2> QED  BY <1>5, <1>6, SetInduction
<1>8. P(N, loop[N])
  <2> HIDE DEF P
  <2>1. N \in 0 .. N /\ N \in S
    BY <1>0, <1>7
  <2> QED  BY <2>1
<1> DEFINE r == loop[N]
<1>9. r.at = head
  <2> SUFFICES ASSUME r.at # head PROVE FALSE
    OBVIOUS
  <2>1. Cardinality(R(r.at)) <= N - N /\ UpTo(head, r.at) /\ r.at \in A \cup {NullAddr}
    BY <1>8 DEF Tracked, Undone
  <2> HIDE DEF r
  <2>2. IsFiniteSet(R(r.at))
    BY <1>0, FS_Subset
  <2>3. Cardinality(R(r.at)) = 0
    <3> HIDE DEF R
    <3> QED  BY <1>0, <2>1, <2>2, FS_CardinalityType
  <2>4. R(r.at) = {}
    <3> HIDE DEF R
    <3> QED  BY <2>2, <2>3, FS_EmptySet
  <2>5. r.at = NullAddr
    BY <2>1, <2>4 DEF UpTo
  <2> QED  BY <1>0, <2>1, <2>5 DEF UpTo, Before, NullAddr, Position
<1> QED  BY <1>1, <1>8, <1>9

\* Cleanup goes back to the values of its checkpoint and keeps the older stages.
CleanedUp(db, h) ==
    [Truncate(RevertToCheckpoint(db, db.stages[h]), db.stages[h])
       EXCEPT !.stages = SubSeq(@, 1, h - 1)]

Restores(db, d, h) ==
    /\ Live(d) /\ d.stages = SubSeq(db.stages, 1, h - 1)
    /\ \A k : BufferGet(d, k) = SnapshotGet(db, k, db.stages[h])
    /\ \A k : \A i \in 1 .. h - 1 :
         SnapshotGet(d, k, db.stages[i]) = SnapshotGet(db, k, db.stages[i])

\* Cleanup of the last stage gives back every value that was there when the stage
\* began, and leaves the older stages as they were.
LEMMA CleanupRestores ==
    ASSUME NEW db, Live(db), NEW h \in Nat \ {0}, h = Len(db.stages)
    PROVE  Restores(db, CleanedUp(db, h), h)
<1> DEFINE d == CleanedUp(db, h)
           cp == db.stages[h]
           c == Pos(cp)
           log == db.log
           A == AddrOf(log)
           r == RevertToCheckpoint(db, cp)
           L == CutLog(log, cp)
           st == SubSeq(db.stages, 1, h - 1)
<1>0. PICK X : db.stages \in Seq(X)
  BY DEF Live
<1>1. /\ h \in 1 .. Len(db.stages) /\ c \in A \cup {NullAddr} /\ c \in Position
      /\ LogOK(log) /\ A \in SUBSET Position /\ NullAddr \notin A
  <2>1. h \in 1 .. Len(db.stages)
    OBVIOUS
  <2>2. c \in A \cup {NullAddr} /\ c \in Position
    BY <2>1, StagePositions
  <2>3. LogOK(log)
    BY DEF Live
  <2> QED  BY <2>1, <2>2, <2>3, AddrPosition
<1>2. Undone(db, r, c)
  BY <1>1, RevertReaches DEF Tracked
<1>3. /\ Shape(r) /\ r.log = log /\ r.stages = db.stages /\ r.vlogInvalid = FALSE
      /\ NodesOK(r.nodes)
      /\ \A a \in A : UpTo(a, c) => Ent(log, a).node \in DOMAIN r.nodes
      /\ \A k \in DOMAIN r.nodes : IsNewest(r.nodes[k].vptr, VersionsAt(log, k, c))
  BY <1>2 DEF Undone
<1>4. d = [[r EXCEPT !.blockSize = cp.blockSize, !.log = L] EXCEPT !.stages = SubSeq(@, 1, h - 1)]
  BY <1>3 DEF CleanedUp, Truncate, CutLog
<1>5. /\ LogOK(L) /\ AddrOf(L) = {a \in A : UpTo(a, c)}
      /\ \A a \in AddrOf(L) : Ent(L, a) = Ent(log, a)
  BY <1>1, CutKeeps
<1> HIDE DEF d, r, L
<1>6. Shape(d) /\ d.log = L /\ d.nodes = r.nodes /\ d.stages = st /\ d.vlogInvalid = FALSE
  BY <1>3, <1>4 DEF Shape
<1>7. /\ st \in Seq(X) /\ Len(st) = h - 1 /\ \A i \in 1 .. h - 1 : st[i] = db.stages[i]
  BY <1>0
<1> HIDE DEF st
<1>8. \A k : Of(L, k) = VersionsAt(log, k, c)
  BY <1>5 DEF Of, VersionsAt
<1>9. ASSUME NEW a \in AddrOf(L)
      PROVE  OldVersions(L, a) = OldVersions(log, a)
  <2>1. a \in A /\ UpTo(a, c) /\ Ent(L, a) = Ent(log, a)
    BY <1>5, <1>9
  <2>2. \A x \in A : Before(x, a) => UpTo(x, c)
    BY <1>1, <2>1, BeforeOrder DEF UpTo
  <2>3. \A k : {x \in Of(L, k) : Before(x, a)} = {x \in Of(log, k) : Before(x, a)}
    BY <1>8, <2>2 DEF VersionsAt, Of
  <2> QED  BY <2>1, <2>3 DEF OldVersions
<1>10. ChainOK(d.nodes, d.log)
  <2>1. \A a \in AddrOf(L) : Ent(L, a).node \in DOMAIN r.nodes
    BY <1>3, <1>5
  <2>2. \A k \in DOMAIN r.nodes : IsNewest(r.nodes[k].vptr, Of(L, k))
    BY <1>3, <1>8
  <2>3. \A a \in AddrOf(L) : IsNewest(Ent(L, a).old, OldVersions(L, a))
    BY <1>5, <1>9 DEF Live, ChainOK
  <2> QED  BY <1>6, <2>1, <2>2, <2>3 DEF ChainOK
<1>11. ASSUME NEW i \in 1 .. h - 1
       PROVE  /\ i \in 1 .. Len(db.stages) /\ UpTo(Pos(db.stages[i]), c)
              /\ Pos(db.stages[i]) \in AddrOf(L) \cup {NullAddr}
              /\ Pos(db.stages[i]) \in Position
  <2>1. i \in 1 .. Len(db.stages) /\ i <= h
    OBVIOUS
  <2>2. UpTo(Pos(db.stages[i]), c)
    BY <1>1, <2>1 DEF Live, StagesOK
  <2>3. Pos(db.stages[i]) \in A \cup {NullAddr} /\ Pos(db.stages[i]) \in Position
    BY <2>1, StagePositions
  <2> QED  BY <1>5, <2>1, <2>2, <2>3
<1>12. StagesOK(d.stages, d.log)
  <2>1. \A i \in 1 .. h - 1 : Pos(st[i]) \in AddrOf(L) \cup {NullAddr}
    BY <1>7, <1>11
  <2>2. ASSUME NEW i \in 1 .. h - 1, NEW j \in 1 .. h - 1, i <= j
        PROVE  UpTo(Pos(st[i]), Pos(st[j]))
    <3>1. i \in 1 .. Len(db.stages) /\ j \in 1 .. Len(db.stages)
      BY <1>11
    <3> QED  BY <1>7, <2>2, <3>1 DEF Live, StagesOK
  <2> QED  BY <1>6, <1>7, <2>1, <2>2 DEF StagesOK
<1>13. Live(d)
  BY <1>3, <1>5, <1>6, <1>7, <1>10, <1>12 DEF Live
<1>14. ASSUME NEW k
       PROVE  BufferGet(d, k) = SnapshotGet(db, k, cp)
  <2>1. Of(d.log, k) = VersionsAt(db.log, k, Pos(cp)) /\ Agree(d.log, db.log, Of(d.log, k))
    BY <1>5, <1>6, <1>8 DEF Agree, Of
  <2> QED  BY <1>1, <1>13, <2>1, GetIsSnapshot
<1>15. ASSUME NEW k, NEW i \in 1 .. h - 1
       PROVE  SnapshotGet(d, k, db.stages[i]) = SnapshotGet(db, k, db.stages[i])
  <2> DEFINE e == db.stages[i]
  <2>1. UpTo(Pos(e), c) /\ Pos(e) \in Position
    BY <1>11
  <2> HIDE DEF e
  <2>2. \A x \in A : UpTo(x, Pos(e)) => UpTo(x, c)
    BY <1>1, <2>1, BeforeOrder DEF UpTo
  <2>3. VersionsAt(d.log, k, Pos(e)) = VersionsAt(db.log, k, Pos(e))
    BY <1>6, <1>8, <2>2 DEF VersionsAt, Of
  <2>4. Agree(d.log, db.log, VersionsAt(db.log, k, Pos(e)))
    BY <1>5, <1>6, <2>2 DEF Agree, VersionsAt, Of
  <2>5. SnapshotGet(d, k, e) = SnapshotGet(db, k, e)
    BY <1>13, <2>1, <2>3, <2>4, SameSnapshots
  <2> QED  BY <2>5 DEF e
<1> QED  BY <1>6, <1>13, <1>14, <1>15 DEF d, st, Restores

\* Staging saves what is read now.
LEMMA StagingSaves ==
    ASSUME NEW db, Live(db)
    PROVE  LET d == [db EXCEPT !.stages = Append(@, Checkpoint(db))]
               cp == Checkpoint(db)
           IN  /\ Live(d) /\ d.stages = Append(db.stages, cp)
               /\ \A k : BufferGet(d, k) = BufferGet(db, k)
               /\ \A k : SnapshotGet(d, k, cp) = BufferGet(db, k)
               /\ \A k : \A i \in 1 .. Len(db.stages) :
                    SnapshotGet(d, k, db.stages[i]) = SnapshotGet(db, k, db.stages[i])
<1> DEFINE d == [db EXCEPT !.stages = Append(@, Checkpoint(db))]
           cp == Checkpoint(db)
           A == AddrOf(db.log)
           st == Append(db.stages, cp)
           n == Len(db.stages)
<1>0. PICK X : db.stages \in Seq(X)
  BY DEF Live
<1>1. /\ Shape(d) /\ d.log = db.log /\ d.nodes = db.nodes /\ d.vlogInvalid = FALSE /\ d.stages = st
  <2>1. Shape(db) /\ db.vlogInvalid = FALSE /\ d = [db EXCEPT !.stages = st]
    BY DEF Live
  <2> HIDE DEF d, st
  <2> QED  BY <2>1 DEF Shape
<1>2. Pos(cp) = TailOf(db.log)
  BY DEF Checkpoint, TailOf, Last, Pos
<1>3. /\ IsNewest(Pos(cp), A) /\ Pos(cp) \in Position /\ A \in SUBSET Position /\ NullAddr \notin A
      /\ Pos(cp) \in A \cup {NullAddr}
  <2>1. IsNewest(Pos(cp), A) /\ Pos(cp) \in Position /\ A \in SUBSET Position /\ NullAddr \notin A
    BY <1>2, TailNewest, AddrPosition DEF Live
  <2> QED  BY <2>1 DEF IsNewest
<1> HIDE DEF d, cp
<1>4. /\ (\E Y : st \in Seq(Y)) /\ Len(st) = n + 1 /\ n \in Nat /\ st[n + 1] = cp
      /\ \A i \in 1 .. n : st[i] = db.stages[i]
  <2> DEFINE Y == X \cup {cp}
  <2>1. db.stages \in Seq(Y) /\ cp \in Y
    BY <1>0
  <2> HIDE DEF Y
  <2>2. /\ st \in Seq(Y) /\ Len(st) = n + 1 /\ n \in Nat /\ st[n + 1] = cp
        /\ \A i \in 1 .. n : st[i] = db.stages[i]
    BY <2>1
  <2> QED  BY <2>2
<1> HIDE DEF st, n
<1>5. \A a \in A \cup {NullAddr} : UpTo(a, Pos(cp))
  <2>1. CASE A = {}
    BY <1>3, <2>1 DEF IsNewest, UpTo
  <2>2. CASE A # {}
    <3>1. Pos(cp) \in A /\ \A a \in A : UpTo(a, Pos(cp))
      BY <1>3, <2>2 DEF IsNewest
    <3>2. UpTo(NullAddr, Pos(cp))
      BY <1>3, <3>1 DEF UpTo, Before, NullAddr, Position
    <3> QED  BY <3>1, <3>2
  <2> QED  BY <2>1, <2>2
<1>6. StagesOK(st, db.log)
  <2>0. \A i \in 1 .. n + 1 : i = n + 1 \/ i \in 1 .. n
    BY <1>4
  <2>1. \A i \in 1 .. n + 1 : Pos(st[i]) \in A \cup {NullAddr}
    BY <1>3, <1>4, <2>0 DEF Live, StagesOK, n
  <2>2. ASSUME NEW i \in 1 .. n + 1, NEW j \in 1 .. n + 1, i <= j
        PROVE  UpTo(Pos(st[i]), Pos(st[j]))
    <3>1. CASE j = n + 1
      BY <1>4, <1>5, <2>1, <3>1
    <3>2. CASE j \in 1 .. n
      <4>1. i \in 1 .. n
        BY <1>4, <2>2, <3>2
      <4> QED  BY <1>4, <2>2, <3>2, <4>1 DEF Live, StagesOK, n
    <3> QED  BY <2>0, <3>1, <3>2
  <2> QED  BY <1>4, <2>1, <2>2 DEF StagesOK
<1>7. Live(d)
  BY <1>1, <1>4, <1>6 DEF Live
<1>8. \A k : /\ BufferGet(d, k) = BufferGet(db, k)
             /\ \A x : Pos(x) \in Position => SnapshotGet(d, k, x) = SnapshotGet(db, k, x)
  <2>1. d.log = db.log
    BY <1>1
  <2> QED  BY <1>7, <2>1, SameLogReads
<1>9. ASSUME NEW k
      PROVE  SnapshotGet(db, k, cp) = BufferGet(db, k)
  <2>1. Of(db.log, k) = VersionsAt(db.log, k, Pos(cp)) /\ Agree(db.log, db.log, Of(db.log, k))
    BY <1>5 DEF VersionsAt, Agree, Of
  <2> QED  BY <1>3, <2>1, GetIsSnapshot
<1>10. \A i \in 1 .. n : Pos(db.stages[i]) \in Position
  BY StagePositions DEF n
<1> QED  BY <1>1, <1>3, <1>7, <1>8, <1>9, <1>10 DEF d, cp, st, n

-----------------------------------------------------------------------------
(* The refinement. *)

NowOf(db) == [k \in BKey |-> IF ~db.vlogInvalid THEN BufferGet(db, k) ELSE NotExist]
CopyOf(db, cp) == [k \in BKey |-> IF ~db.vlogInvalid THEN SnapshotGet(db, k, cp) ELSE NotExist]
SavedOf(db) == [i \in DOMAIN db.stages |-> CopyOf(db, db.stages[i])]
NoValues == [k \in BKey |-> NotExist]

\* What the mapping to StagedMap shows of a buffer with its values.
LEMMA LiveViews ==
    ASSUME NEW db, Live(db)
    PROVE  /\ NowOf(db) = [k \in BKey |-> BufferGet(db, k)]
           /\ \A cp : CopyOf(db, cp) = [k \in BKey |-> SnapshotGet(db, k, cp)]
           /\ SavedOf(db) = [i \in 1 .. Len(db.stages) |-> CopyOf(db, db.stages[i])]
           /\ Len(db.stages) \in Nat
<1>1. PICK X : db.stages \in Seq(X)
  BY DEF Live
<1>2. DOMAIN db.stages = 1 .. Len(db.stages) /\ Len(db.stages) \in Nat
  BY <1>1
<1>3. ~db.vlogInvalid
  BY DEF Live
<1> QED  BY <1>2, <1>3 DEF NowOf, CopyOf, SavedOf

\* What it shows after DiscardValues: nothing, at every stage.
LEMMA DiscardedViews ==
    ASSUME NEW db, Discarded(db)
    PROVE  /\ NowOf(db) = NoValues
           /\ SavedOf(db) = [i \in 1 .. Len(db.stages) |-> NoValues]
           /\ Len(db.stages) \in Nat
<1>1. PICK X : db.stages \in Seq(X)
  BY DEF Discarded
<1>2. DOMAIN db.stages = 1 .. Len(db.stages) /\ Len(db.stages) \in Nat
  BY <1>1
<1>3. db.vlogInvalid
  BY DEF Discarded
<1> QED  BY <1>2, <1>3 DEF NowOf, CopyOf, SavedOf, NoValues

\* A write of the buffer is a write of the map.
LEMMA WriteRefines ==
    ASSUME NEW db, Live(db), NEW d, NEW k \in BKey, NEW v, Writes(db, d, k, v)
    PROVE  NowOf(d) = [NowOf(db) EXCEPT ![k] = v] /\ SavedOf(d) = SavedOf(db)
<1>1. Live(d) /\ d.stages = db.stages
  BY DEF Writes
<1>2. /\ NowOf(db) = [j \in BKey |-> BufferGet(db, j)]
      /\ NowOf(d) = [j \in BKey |-> BufferGet(d, j)]
      /\ SavedOf(db) = [i \in 1 .. Len(db.stages) |-> CopyOf(db, db.stages[i])]
      /\ SavedOf(d) = [i \in 1 .. Len(db.stages) |-> CopyOf(d, db.stages[i])]
  BY <1>1, LiveViews
<1>3. ASSUME NEW i \in 1 .. Len(db.stages)
      PROVE  CopyOf(d, db.stages[i]) = CopyOf(db, db.stages[i])
  <2> DEFINE c == db.stages[i]
  <2>1. /\ CopyOf(d, c) = [j \in BKey |-> SnapshotGet(d, j, c)]
        /\ CopyOf(db, c) = [j \in BKey |-> SnapshotGet(db, j, c)]
    BY <1>1, LiveViews
  <2>2. \A j \in BKey : SnapshotGet(d, j, c) = SnapshotGet(db, j, c)
    BY <1>3 DEF Writes
  <2> QED  BY <2>1, <2>2
<1>4. SavedOf(d) = SavedOf(db)
  BY <1>2, <1>3
<1>5. \A j \in BKey : BufferGet(d, j) = IF j = k THEN v ELSE BufferGet(db, j)
  BY DEF Writes
<1>6. NowOf(d) = [NowOf(db) EXCEPT ![k] = v]
  BY <1>2, <1>5
<1> QED  BY <1>4, <1>6

\* t is s with x behind it.
Extends(t, s, n, x) ==
    /\ s = [i \in 1 .. n |-> s[i]] /\ t = [i \in 1 .. n + 1 |-> t[i]]
    /\ (\A i \in 1 .. n : t[i] = s[i]) /\ t[n + 1] = x

\* Append and SubSeq, for functions on 1 .. n.
LEMMA AppendFunction ==
    ASSUME NEW n \in Nat, NEW s, NEW x, NEW t, Extends(t, s, n, x)
    PROVE  t = Append(s, x)
<1>0. /\ s = [i \in 1 .. n |-> s[i]] /\ t = [i \in 1 .. n + 1 |-> t[i]]
      /\ (\A i \in 1 .. n : t[i] = s[i]) /\ t[n + 1] = x
  BY DEF Extends
<1> DEFINE Y == {s[i] : i \in 1 .. n} \cup {x}
<1>1. s \in [1 .. n -> Y] /\ x \in Y
  BY <1>0
<1> HIDE DEF Y
<1>2. s \in Seq(Y) /\ Len(s) = n
  <2>1. \A Z, f : f \in [1 .. n -> Z] => f \in Seq(Z) /\ Len(f) = n
    OBVIOUS
  <2> QED  BY <1>1, <2>1
<1>3. /\ Append(s, x) \in Seq(Y) /\ Len(Append(s, x)) = n + 1
      /\ \A i \in 1 .. n : Append(s, x)[i] = s[i]
      /\ Append(s, x)[n + 1] = x
  BY <1>1, <1>2
<1>4. Append(s, x) = [i \in 1 .. n + 1 |-> Append(s, x)[i]]
  <2>1. \A f : f \in Seq(Y) => f = [i \in 1 .. Len(f) |-> f[i]]
    OBVIOUS
  <2> QED  BY <1>3, <2>1
<1>5. \A i \in 1 .. n + 1 : i = n + 1 \/ i \in 1 .. n
  OBVIOUS
<1>6. \A i \in 1 .. n + 1 : Append(s, x)[i] = t[i]
  BY <1>0, <1>3, <1>5
<1> QED  BY <1>0, <1>4, <1>6

\* Dropping the last element of a stack: Release and Cleanup shorten the stages.
LEMMA CutFunction ==
    ASSUME NEW n \in Nat \ {0}, NEW s, s = [i \in 1 .. n |-> s[i]],
           NEW t, t = [i \in 1 .. n - 1 |-> s[i]]
    PROVE  t = SubSeq(s, 1, n - 1) /\ s # <<>> /\ Len(s) = n
<1> DEFINE Y == {s[i] : i \in 1 .. n}
<1>1. s \in [1 .. n -> Y]
  OBVIOUS
<1> HIDE DEF Y
<1>2. s \in Seq(Y) /\ Len(s) = n
  BY <1>1
<1>3. /\ SubSeq(s, 1, n - 1) \in Seq(Y) /\ Len(SubSeq(s, 1, n - 1)) = n - 1
      /\ \A i \in 1 .. n - 1 : SubSeq(s, 1, n - 1)[i] = s[i]
  BY <1>2
<1>4. SubSeq(s, 1, n - 1) = [i \in 1 .. n - 1 |-> SubSeq(s, 1, n - 1)[i]]
  BY <1>3
<1> QED  BY <1>2, <1>3, <1>4

\* Staging saves a copy of the map, readable or not.
LEMMA StagingRefines ==
    ASSUME NEW db, BufInv(db)
    PROVE  LET d == [db EXCEPT !.stages = Append(@, Checkpoint(db))]
           IN  BufInv(d) /\ NowOf(d) = NowOf(db) /\ SavedOf(d) = Append(SavedOf(db), NowOf(db))
<1> DEFINE d == [db EXCEPT !.stages = Append(@, Checkpoint(db))]
           cp == Checkpoint(db)
           n == Len(db.stages)
<1>0. \E X : db.stages \in Seq(X)
  BY DEF BufInv, Live, Discarded
<1>1. /\ n \in Nat /\ (\E Y : Append(db.stages, cp) \in Seq(Y)) /\ Len(Append(db.stages, cp)) = n + 1
      /\ Append(db.stages, cp)[n + 1] = cp
      /\ \A i \in 1 .. n : Append(db.stages, cp)[i] = db.stages[i]
  <2>0. PICK X : db.stages \in Seq(X)
    BY <1>0
  <2> DEFINE Y == X \cup {cp}
  <2> HIDE DEF cp
  <2>1. db.stages \in Seq(Y) /\ cp \in Y
    BY <2>0
  <2> HIDE DEF Y
  <2>2. /\ n \in Nat /\ Append(db.stages, cp) \in Seq(Y) /\ Len(Append(db.stages, cp)) = n + 1
        /\ Append(db.stages, cp)[n + 1] = cp
        /\ \A i \in 1 .. n : Append(db.stages, cp)[i] = db.stages[i]
    BY <2>1
  <2> QED  BY <2>2
<1> HIDE DEF cp, n
<1>2. CASE Live(db)
  <2>1. /\ Live(d) /\ d.stages = Append(db.stages, cp)
        /\ \A k : BufferGet(d, k) = BufferGet(db, k)
        /\ \A k : SnapshotGet(d, k, cp) = BufferGet(db, k)
        /\ \A k : \A i \in 1 .. n : SnapshotGet(d, k, db.stages[i]) = SnapshotGet(db, k, db.stages[i])
    BY <1>2, StagingSaves DEF cp, n
  <2> HIDE DEF d
  <2>2. /\ NowOf(db) = [k \in BKey |-> BufferGet(db, k)]
        /\ NowOf(d) = [k \in BKey |-> BufferGet(d, k)]
        /\ SavedOf(db) = [i \in 1 .. n |-> CopyOf(db, db.stages[i])]
        /\ SavedOf(d) = [i \in 1 .. Len(d.stages) |-> CopyOf(d, d.stages[i])]
        /\ \A c : CopyOf(db, c) = [k \in BKey |-> SnapshotGet(db, k, c)]
        /\ \A c : CopyOf(d, c) = [k \in BKey |-> SnapshotGet(d, k, c)]
    BY <1>2, <2>1, LiveViews DEF n
  <2>3. Len(d.stages) = n + 1 /\ d.stages[n + 1] = cp /\ \A i \in 1 .. n : d.stages[i] = db.stages[i]
    BY <1>1, <2>1
  <2>4. NowOf(d) = NowOf(db)
    BY <2>1, <2>2
  <2>5. CopyOf(d, cp) = NowOf(db)
    BY <2>1, <2>2
  <2>6. ASSUME NEW i \in 1 .. n
        PROVE  CopyOf(d, d.stages[i]) = CopyOf(db, db.stages[i])
    <3>1. CopyOf(d, d.stages[i]) = CopyOf(d, db.stages[i])
      BY <2>3
    <3>2. \A k \in BKey : SnapshotGet(d, k, db.stages[i]) = SnapshotGet(db, k, db.stages[i])
      BY <2>1
    <3> DEFINE c == db.stages[i]
    <3> HIDE DEF c
    <3>3. CopyOf(d, c) = CopyOf(db, c)
      BY <2>2, <3>2 DEF c
    <3> QED  BY <3>1, <3>3 DEF c
  <2> DEFINE s == SavedOf(db)
             t == SavedOf(d)
  <2>7. /\ s = [i \in 1 .. n |-> s[i]] /\ t = [i \in 1 .. n + 1 |-> t[i]]
    BY <2>2, <2>3
  <2>8. \A i \in 1 .. n : t[i] = s[i]
    <3>1. \A i \in 1 .. n : i \in 1 .. n + 1
      BY <1>1
    <3> QED  BY <2>2, <2>3, <2>6, <3>1
  <2>9. t[n + 1] = NowOf(db)
    <3>1. n + 1 \in 1 .. n + 1
      BY <1>1
    <3> QED  BY <2>2, <2>3, <2>5, <3>1
  <2> HIDE DEF s, t
  <2>10. t = Append(s, NowOf(db))
    <3>1. Extends(t, s, n, NowOf(db))
      BY <2>7, <2>8, <2>9 DEF Extends
    <3> QED  BY <1>1, <3>1, AppendFunction
  <2>11. BufInv(d)
    BY <2>1 DEF BufInv
  <2> QED  BY <2>4, <2>10, <2>11 DEF d, s, t
<1>3. CASE Discarded(db)
  <2>1. Discarded(d) /\ d.stages = Append(db.stages, cp)
    <3>1. Shape(db) /\ db.vlogInvalid = TRUE /\ d = [db EXCEPT !.stages = Append(db.stages, cp)]
      BY <1>3 DEF Discarded, cp
    <3> HIDE DEF d
    <3>2. Shape(d) /\ d.vlogInvalid = TRUE /\ d.stages = Append(db.stages, cp)
      BY <3>1 DEF Shape
    <3> QED  BY <1>1, <3>2 DEF Discarded
  <2> HIDE DEF d
  <2> DEFINE s == SavedOf(db)
             t == SavedOf(d)
  <2>2. NowOf(d) = NoValues /\ NowOf(db) = NoValues /\ t = [i \in 1 .. n + 1 |-> NoValues]
        /\ s = [i \in 1 .. n |-> NoValues]
    BY <1>1, <1>3, <2>1, DiscardedViews DEF n
  <2> HIDE DEF s, t
  <2>3. s = [i \in 1 .. n |-> s[i]] /\ t = [i \in 1 .. n + 1 |-> t[i]]
        /\ (\A i \in 1 .. n : t[i] = s[i]) /\ t[n + 1] = NoValues
    <3>1. \A i \in 1 .. n : i \in 1 .. n + 1
      BY <1>1
    <3>2. n + 1 \in 1 .. n + 1
      BY <1>1
    <3> QED  BY <2>2, <3>1, <3>2
  <2>4. t = Append(s, NoValues)
    <3>1. Extends(t, s, n, NoValues)
      BY <2>3 DEF Extends
    <3> QED  BY <1>1, <3>1, AppendFunction
  <2>5. BufInv(d)
    BY <2>1 DEF BufInv
  <2> QED  BY <2>2, <2>4, <2>5 DEF d, s, t
<1> QED  BY <1>2, <1>3 DEF BufInv

\* The newest stage is gone, the older ones read as before.
Popped(db, d, h) ==
    /\ h \in Nat \ {0} /\ h = Len(db.stages) /\ d.stages = SubSeq(db.stages, 1, h - 1)
    /\ Live(d) <=> Live(db)
    /\ Live(db) => \A k : \A i \in 1 .. h - 1 :
         SnapshotGet(d, k, db.stages[i]) = SnapshotGet(db, k, db.stages[i])

\* A stage that is gone leaves the copies below it.
LEMMA PopRefines ==
    ASSUME NEW db, BufInv(db), NEW d, BufInv(d), NEW h, Popped(db, d, h)
    PROVE  /\ SavedOf(d) = SubSeq(SavedOf(db), 1, h - 1)
           /\ SavedOf(db) # <<>> /\ Len(SavedOf(db)) = h
<1>a. /\ h \in Nat \ {0} /\ h = Len(db.stages) /\ d.stages = SubSeq(db.stages, 1, h - 1)
      /\ Live(d) <=> Live(db)
      /\ Live(db) => \A k : \A i \in 1 .. h - 1 :
           SnapshotGet(d, k, db.stages[i]) = SnapshotGet(db, k, db.stages[i])
  BY DEF Popped
<1>0. PICK X : db.stages \in Seq(X)
  BY DEF BufInv, Live, Discarded
<1>1. /\ d.stages \in Seq(X) /\ Len(d.stages) = h - 1
      /\ \A i \in 1 .. h - 1 : d.stages[i] = db.stages[i]
  BY <1>a, <1>0
<1> DEFINE s == SavedOf(db)
           t == SavedOf(d)
<1>2. /\ s = [i \in 1 .. h |-> s[i]] /\ t = [i \in 1 .. h - 1 |-> t[i]]
  <2>1. DOMAIN db.stages = 1 .. h /\ DOMAIN d.stages = 1 .. h - 1
    BY <1>a, <1>0, <1>1
  <2> QED  BY <2>1 DEF SavedOf
<1>3. \A i \in 1 .. h - 1 : t[i] = s[i]
  <2>0. \A i \in 1 .. h - 1 : i \in 1 .. h
    BY <1>a
  <2>1. CASE Live(db)
    <3> SUFFICES ASSUME NEW i \in 1 .. h - 1 PROVE t[i] = s[i]
      OBVIOUS
    <3> DEFINE c == db.stages[i]
    <3>1. s[i] = CopyOf(db, c) /\ t[i] = CopyOf(d, c)
      <4>1. /\ s = [x \in 1 .. h |-> CopyOf(db, db.stages[x])]
            /\ t = [x \in 1 .. h - 1 |-> CopyOf(d, d.stages[x])]
        BY <1>a, <1>1, <2>1, LiveViews
      <4>2. s[i] = CopyOf(db, db.stages[i]) /\ t[i] = CopyOf(d, d.stages[i])
        BY <2>0, <4>1
      <4> QED  BY <1>1, <4>2
    <3>2. /\ CopyOf(db, c) = [k \in BKey |-> SnapshotGet(db, k, c)]
          /\ CopyOf(d, c) = [k \in BKey |-> SnapshotGet(d, k, c)]
      BY <1>a, <2>1, LiveViews
    <3>3. \A k \in BKey : SnapshotGet(d, k, c) = SnapshotGet(db, k, c)
      BY <1>a, <2>1
    <3> QED  BY <3>1, <3>2, <3>3
  <2>2. CASE Discarded(db) /\ ~Live(db)
    <3>1. Discarded(d)
      BY <1>a, <2>2 DEF BufInv
    <3>2. s = [x \in 1 .. h |-> NoValues] /\ t = [x \in 1 .. h - 1 |-> NoValues]
      BY <1>a, <1>1, <2>2, <3>1, DiscardedViews
    <3> QED  BY <2>0, <3>2
  <2> QED  BY <2>1, <2>2 DEF BufInv
<1> HIDE DEF s, t
<1>4. t = [i \in 1 .. h - 1 |-> s[i]]
  BY <1>2, <1>3
<1>5. t = SubSeq(s, 1, h - 1) /\ s # <<>> /\ Len(s) = h
  BY <1>a, <1>2, <1>4, CutFunction, ZenonT(40)
<1> QED  BY <1>5 DEF s, t

\* The refinement mapping, before and after a step.
LEMMA BufferViews ==
    /\ BufferNow = NowOf(memdb) /\ BufferSaved = SavedOf(memdb)
    /\ BufferNow' = NowOf(memdb') /\ BufferSaved' = SavedOf(memdb')
BY DEF BufferNow, BufferSaved, NowOf, SavedOf, CopyOf, Readable

\* The new buffer is empty.
LEMMA NewBuffer ==
    BufInv(newMemDB) /\ NowOf(newMemDB) = NoValues /\ SavedOf(newMemDB) = <<>>
<1> DEFINE d == newMemDB
<1>1. /\ Shape(d) /\ d.vlogInvalid = FALSE /\ d.nodes = <<>> /\ d.log = <<>> /\ d.stages = <<>>
  BY DEF newMemDB, Shape
<1> HIDE DEF d
<1>2. NodesOK(<<>>)
  BY DEF NodesOK
<1>3. <<>> \in Seq({}) /\ Len(<<>>) = 0 /\ DOMAIN <<>> = {}
  OBVIOUS
<1>4. LogOK(<<>>)
  BY <1>3 DEF LogOK
<1>5. AddrOf(<<>>) = {}
  BY <1>3 DEF AddrOf
<1>6. ChainOK(<<>>, <<>>)
  BY <1>3, <1>5 DEF ChainOK
<1>7. StagesOK(<<>>, <<>>)
  BY <1>3 DEF StagesOK
<1>8. Live(d)
  BY <1>1, <1>2, <1>3, <1>4, <1>6, <1>7 DEF Live
<1>9. SavedOf(d) = <<>>
  BY <1>1, <1>3 DEF SavedOf
<1>10. \A k : BufferGet(d, k) = NotExist
  BY <1>1, <1>3 DEF BufferGet
<1>11. NowOf(d) = NoValues
  BY <1>8, <1>10, LiveViews DEF NoValues
<1> QED  BY <1>8, <1>9, <1>11 DEF BufInv, d

\* Every operation of the buffer is one of the map, or changes nothing there.
LEMMA BufferStep ==
    ASSUME BufInv(memdb), BufferNext
    PROVE  BufInv(memdb') /\ (Staged!SNext \/ UNCHANGED <<BufferNow, BufferSaved>>)
<1>0. /\ BufferNow = NowOf(memdb) /\ BufferSaved = SavedOf(memdb)
      /\ BufferNow' = NowOf(memdb') /\ BufferSaved' = SavedOf(memdb')
  BY BufferViews
<1>a. ~memdb.vlogInvalid => Live(memdb)
  BY DEF BufInv, Discarded
<1>1. ASSUME NEW k \in BKey, NEW v \in BValue \cup {Tombstone}, NEW ops, BufferSet(k, v, ops)
      PROVE  BufInv(memdb') /\ Staged!SNext
  <2>1. Live(memdb) /\ memdb' = SetKV(memdb, k, v, ops)
    BY <1>a, <1>1 DEF BufferSet
  <2>2. v \in 0 .. 99
    BY MemBufferAssumption DEF Tombstone
  <2>3. Writes(memdb, memdb', k, v)
    BY <2>1, <2>2, SetKVWrites
  <2>4. NowOf(memdb') = [NowOf(memdb) EXCEPT ![k] = v] /\ SavedOf(memdb') = SavedOf(memdb)
    BY <2>1, <2>3, WriteRefines
  <2>5. Staged!SWrite(k, v)
    BY <1>0, <2>4 DEF Staged!SWrite
  <2>6. BufInv(memdb')
    BY <2>3 DEF Writes, BufInv
  <2> QED  BY <2>5, <2>6 DEF Staged!SNext
<1>2. ASSUME NEW k \in BKey, NEW op \in FlagsOp, UpdateFlags(k, op)
      PROVE  BufInv(memdb') /\ UNCHANGED <<BufferNow, BufferSaved>>
  <2>1. Live(memdb) /\ memdb' = SetKV(memdb, k, NoValue, <<op>>)
    BY <1>a, <1>2 DEF UpdateFlags
  <2>2. Writes(memdb, memdb', k, BufferGet(memdb, k))
    BY <2>1, SetKVWrites
  <2>3. /\ NowOf(memdb') = [NowOf(memdb) EXCEPT ![k] = BufferGet(memdb, k)]
        /\ SavedOf(memdb') = SavedOf(memdb)
    BY <2>1, <2>2, WriteRefines
  <2>4. NowOf(memdb) = [j \in BKey |-> BufferGet(memdb, j)]
    BY <2>1, LiveViews
  <2>5. NowOf(memdb') = NowOf(memdb)
    BY <2>3, <2>4
  <2>6. BufInv(memdb')
    BY <2>2 DEF Writes, BufInv
  <2> QED  BY <1>0, <2>3, <2>5, <2>6
<1>3. ASSUME Staging
      PROVE  BufInv(memdb') /\ Staged!SNext
  <2>1. memdb' = [memdb EXCEPT !.stages = Append(@, Checkpoint(memdb))]
    BY <1>3 DEF Staging
  <2>2. /\ BufInv(memdb') /\ NowOf(memdb') = NowOf(memdb)
        /\ SavedOf(memdb') = Append(SavedOf(memdb), NowOf(memdb))
    BY <2>1, StagingRefines
  <2>3. Staged!SStaging
    BY <1>0, <2>2 DEF Staged!SStaging
  <2> QED  BY <2>2, <2>3 DEF Staged!SNext
<1>4. ASSUME Reset
      PROVE  BufInv(memdb') /\ Staged!SNext
  <2>1. memdb' = newMemDB
    BY <1>4 DEF Reset
  <2>2. BufInv(memdb') /\ NowOf(memdb') = NoValues /\ SavedOf(memdb') = <<>>
    BY <2>1, NewBuffer
  <2>3. Staged!SReset
    BY <1>0, <2>2 DEF Staged!SReset, Staged!Blank, NoValues
  <2> QED  BY <2>2, <2>3 DEF Staged!SNext
<1>5. ASSUME DiscardValues
      PROVE  BufInv(memdb') /\ Staged!SNext
  <2>1. Live(memdb) /\ memdb' = [memdb EXCEPT !.vlogInvalid = TRUE, !.log = <<>>, !.blockSize = 0]
    BY <1>a, <1>5 DEF DiscardValues
  <2>2. Shape(memdb') /\ memdb'.vlogInvalid = TRUE /\ memdb'.stages = memdb.stages
    BY <2>1 DEF Live, Shape
  <2>3. Discarded(memdb')
    BY <2>1, <2>2 DEF Live, Discarded
  <2>4. /\ NowOf(memdb') = NoValues
        /\ SavedOf(memdb') = [i \in 1 .. Len(memdb.stages) |-> NoValues]
    BY <2>2, <2>3, DiscardedViews
  <2>5. DOMAIN SavedOf(memdb) = 1 .. Len(memdb.stages)
    BY <2>1, LiveViews
  <2>6. Staged!SDiscard
    BY <1>0, <2>4, <2>5 DEF Staged!SDiscard, Staged!Blank, NoValues
  <2> QED  BY <2>3, <2>6 DEF Staged!SNext, BufInv
<1>6. ASSUME NEW h \in 1 .. MaxStages, Release(h)
      PROVE  BufInv(memdb') /\ Staged!SNext
  <2> DEFINE y == memdb.dirty \/ (h = 1 /\ ~SamePosition(memdb.stages[1], Checkpoint(memdb)))
             st == SubSeq(memdb.stages, 1, h - 1)
  <2>1. h = Len(memdb.stages) /\ memdb' = [memdb EXCEPT !.dirty = y, !.stages = st]
    BY <1>6 DEF Release
  <2> HIDE DEF y
  <2>2. PICK X : memdb.stages \in Seq(X)
    BY DEF BufInv, Live, Discarded
  <2>3. /\ h \in Nat \ {0} /\ st \in Seq(X) /\ Len(st) = h - 1
        /\ \A i \in 1 .. h - 1 : st[i] = memdb.stages[i]
    BY <2>1, <2>2
  <2> HIDE DEF st
  <2>4. /\ Shape(memdb') /\ memdb'.log = memdb.log /\ memdb'.nodes = memdb.nodes
        /\ memdb'.vlogInvalid = memdb.vlogInvalid /\ memdb'.stages = st
    BY <2>1 DEF BufInv, Live, Discarded, Shape
  <2>5. Live(memdb) => Live(memdb')
    <3> SUFFICES ASSUME Live(memdb) PROVE Live(memdb')
      OBVIOUS
    <3>1. \A i \in 1 .. h - 1 : i \in 1 .. Len(memdb.stages)
      BY <2>1, <2>3
    <3>2. StagesOK(st, memdb.log)
      BY <2>3, <3>1 DEF Live, StagesOK
    <3> QED  BY <2>3, <2>4, <3>2 DEF Live
  <2>6. Discarded(memdb) => Discarded(memdb') /\ ~Live(memdb) /\ ~Live(memdb')
    BY <2>3, <2>4 DEF Discarded, Live
  <2>7. BufInv(memdb') /\ (Live(memdb') <=> Live(memdb))
    BY <2>5, <2>6 DEF BufInv
  <2>8. ASSUME Live(memdb)
        PROVE  /\ \A k : BufferGet(memdb', k) = BufferGet(memdb, k)
               /\ \A k : \A i \in 1 .. h - 1 :
                    SnapshotGet(memdb', k, memdb.stages[i]) = SnapshotGet(memdb, k, memdb.stages[i])
    <3>1. Live(memdb') /\ memdb'.log = memdb.log
      BY <2>4, <2>5, <2>8
    <3>2. \A k : /\ BufferGet(memdb', k) = BufferGet(memdb, k)
                 /\ \A cp : Pos(cp) \in Position =>
                      SnapshotGet(memdb', k, cp) = SnapshotGet(memdb, k, cp)
      BY <2>8, <3>1, SameLogReads
    <3>3. \A i \in 1 .. h - 1 : i \in 1 .. Len(memdb.stages)
      BY <2>1, <2>3
    <3>4. \A i \in 1 .. h - 1 : Pos(memdb.stages[i]) \in Position
      BY <2>8, <3>3, StagePositions
    <3> QED  BY <3>2, <3>4
  <2>9. /\ SavedOf(memdb') = SubSeq(SavedOf(memdb), 1, h - 1)
        /\ SavedOf(memdb) # <<>> /\ Len(SavedOf(memdb)) = h
    <3>1. Popped(memdb, memdb', h)
      BY <2>1, <2>3, <2>4, <2>7, <2>8 DEF Popped, st
    <3> QED  BY <2>7, <3>1, PopRefines
  <2>10. NowOf(memdb') = NowOf(memdb)
    <3>1. CASE Live(memdb)
      BY <2>7, <2>8, <3>1, LiveViews
    <3>2. CASE Discarded(memdb)
      BY <2>6, <3>2, DiscardedViews
    <3> QED  BY <3>1, <3>2 DEF BufInv
  <2>11. Staged!SRelease
    BY <1>0, <2>9, <2>10 DEF Staged!SRelease
  <2> QED  BY <2>7, <2>11 DEF Staged!SNext
<1>7. ASSUME NEW h \in 1 .. MaxStages, Cleanup(h)
      PROVE  BufInv(memdb') /\ Staged!SNext
  <2> DEFINE st == SubSeq(memdb.stages, 1, h - 1)
             cp == memdb.stages[h]
  <2>1. h = Len(memdb.stages)
        /\ memdb' = IF memdb.vlogInvalid THEN [memdb EXCEPT !.stages = st] ELSE CleanedUp(memdb, h)
    BY <1>7 DEF Cleanup, CleanedUp
  <2>2. PICK X : memdb.stages \in Seq(X)
    BY DEF BufInv, Live, Discarded
  <2>3. /\ h \in Nat \ {0} /\ st \in Seq(X) /\ h \in 1 .. h
    BY <2>1, <2>2
  <2>4. ASSUME Live(memdb)
        PROVE  /\ Live(memdb') /\ memdb'.stages = st
               /\ \A k : BufferGet(memdb', k) = SnapshotGet(memdb, k, cp)
               /\ \A k : \A i \in 1 .. h - 1 :
                    SnapshotGet(memdb', k, memdb.stages[i]) = SnapshotGet(memdb, k, memdb.stages[i])
    <3>1. memdb' = CleanedUp(memdb, h)
      BY <2>1, <2>4 DEF Live
    <3>2. Restores(memdb, memdb', h)
      BY <2>1, <2>3, <2>4, <3>1, CleanupRestores
    <3> QED  BY <3>2 DEF Restores
  <2>5. ASSUME Discarded(memdb)
        PROVE  Discarded(memdb') /\ memdb'.stages = st /\ ~Live(memdb) /\ ~Live(memdb')
    <3>1. memdb' = [memdb EXCEPT !.stages = st] /\ Shape(memdb) /\ memdb.vlogInvalid = TRUE
      BY <2>1, <2>5 DEF Discarded
    <3> HIDE DEF st
    <3>2. Shape(memdb') /\ memdb'.vlogInvalid = TRUE /\ memdb'.stages = st
      BY <3>1 DEF Shape
    <3> QED  BY <2>3, <3>1, <3>2 DEF Discarded, Live
  <2>6. BufInv(memdb') /\ (Live(memdb') <=> Live(memdb)) /\ memdb'.stages = st
    BY <2>4, <2>5 DEF BufInv
  <2>7. /\ SavedOf(memdb') = SubSeq(SavedOf(memdb), 1, h - 1)
        /\ SavedOf(memdb) # <<>> /\ Len(SavedOf(memdb)) = h
    <3>1. Popped(memdb, memdb', h)
      BY <2>1, <2>3, <2>4, <2>6 DEF Popped
    <3> QED  BY <2>6, <3>1, PopRefines
  <2>8. NowOf(memdb') = SavedOf(memdb)[h]
    <3>1. CASE Live(memdb)
      <4>1. SavedOf(memdb)[h] = CopyOf(memdb, cp)
        BY <2>1, <2>3, <3>1, LiveViews
      <4>2. CopyOf(memdb, cp) = [k \in BKey |-> SnapshotGet(memdb, k, cp)]
        BY <3>1, LiveViews
      <4>3. NowOf(memdb') = [k \in BKey |-> BufferGet(memdb', k)]
        BY <2>4, <3>1, LiveViews
      <4> QED  BY <2>4, <3>1, <4>1, <4>2, <4>3
    <3>2. CASE Discarded(memdb)
      <4>1. NowOf(memdb') = NoValues
        BY <2>5, <3>2, DiscardedViews
      <4>2. SavedOf(memdb) = [i \in 1 .. h |-> NoValues]
        BY <2>1, <3>2, DiscardedViews
      <4> QED  BY <2>3, <4>1, <4>2
    <3> QED  BY <3>1, <3>2 DEF BufInv
  <2>9. Staged!SCleanup
    BY <1>0, <2>7, <2>8 DEF Staged!SCleanup
  <2> QED  BY <2>6, <2>9 DEF Staged!SNext
<1> QED  BY <1>1, <1>2, <1>3, <1>4, <1>5, <1>6, <1>7 DEF BufferNext

-----------------------------------------------------------------------------
\* The invariant of memdb: the log is in order, the chains of old versions of all
\* keys are complete, and the checkpoints of the open stages lie on entries in
\* the order of the stages.
BufferInv == BufInv(memdb)

\* memdb keeps its invariant in every sequence of writes, stages and discards.
THEOREM BufferInvHolds == BufferSpec => []BufferInv
<1>1. BufferInit => BufferInv
  BY NewBuffer DEF BufferInit, BufferInv
<1>2. BufferInv /\ [BufferNext]_bufferVars => BufferInv'
  <2> SUFFICES ASSUME BufferInv, [BufferNext]_bufferVars PROVE BufferInv'
    OBVIOUS
  <2>1. CASE BufferNext
    BY <2>1, BufferStep DEF BufferInv
  <2>2. CASE UNCHANGED bufferVars
    BY <2>2 DEF BufferInv, bufferVars
  <2> QED  BY <2>1, <2>2
<1> QED  BY <1>1, <1>2, PTL DEF BufferSpec

\* The buffer implements StagedMap: whatever is overwritten in place, appended,
\* undone or truncated, Get reads the last value written, and every open stage
\* keeps exactly the values the buffer had when it began, so that Cleanup brings
\* them back (Set, Delete, Staging, Release, Cleanup, Reset and DiscardValues).
THEOREM BufferImplementsStagedMap == BufferSpec => ImplementsStagedMap
<1>1. BufferInit => Staged!SInit
  <2> SUFFICES ASSUME BufferInit PROVE Staged!SInit
    OBVIOUS
  <2>1. NowOf(memdb) = NoValues /\ SavedOf(memdb) = <<>>
    BY NewBuffer DEF BufferInit
  <2> QED  BY <2>1, BufferViews DEF Staged!SInit, Staged!Blank, NoValues
<1>2. BufferInv /\ [BufferNext]_bufferVars => [Staged!SNext]_<<BufferNow, BufferSaved>>
  <2> SUFFICES ASSUME BufferInv, [BufferNext]_bufferVars
               PROVE  Staged!SNext \/ UNCHANGED <<BufferNow, BufferSaved>>
    OBVIOUS
  <2>1. CASE BufferNext
    BY <2>1, BufferStep DEF BufferInv
  <2>2. CASE UNCHANGED bufferVars
    BY <2>2, BufferViews DEF bufferVars
  <2> QED  BY <2>1, <2>2
<1> QED  BY <1>1, <1>2, BufferInvHolds, PTL DEF BufferSpec, ImplementsStagedMap, Staged!SSpec

-----------------------------------------------------------------------------
(* What the buffer says of itself. *)

\* What lies below all open stages.
BaseGet(db, k) == IF db.stages = <<>> THEN BufferGet(db, k) ELSE SnapshotGet(db, k, db.stages[1])

\* A clean buffer has nothing there.
CleanBase(db) == ~db.dirty => \A k : BaseGet(db, k) = NotExist

BookInv(db) == Live(db) => Tidy(db) /\ CleanBase(db)

\* The books depend on the nodes, the log and the counters alone.
LEMMA SameTidy ==
    ASSUME NEW db, Tidy(db), NEW d, d.nodes = db.nodes,
           TotalOf(d.nodes, d.log) = TotalOf(db.nodes, db.log),
           d.count = db.count, d.size = db.size, d.dirty \in BOOLEAN, db.dirty => d.dirty
    PROVE  Tidy(d)
BY DEF Tidy, Counted, Flagless

\* An empty buffer has empty books.
LEMMA NewBooks == BookInv(newMemDB)
<1> DEFINE z == newMemDB
<1>1. DOMAIN z.nodes = {} /\ z.count = 0 /\ z.size = 0 /\ z.dirty = FALSE /\ z.stages = <<>>
  BY DEF newMemDB
<1> HIDE DEF z
<1>2. IsFiniteSet({}) /\ Cardinality({}) = 0
  BY FS_EmptySet
<1>3. TotalOf(z.nodes, z.log) = 0
  BY <1>1, <1>2, SumProperties DEF TotalOf
<1>4. Tidy(z)
  <2>1. KeyLen * 0 = 0
    BY MemBufferAssumption
  <2>2. Counted(z)
    BY <1>1, <1>2, <1>3, <2>1 DEF Counted
  <2>3. Flagless(z)
    BY <1>1 DEF Flagless
  <2> QED  BY <2>2, <2>3 DEF Tidy
<1>5. CleanBase(z)
  BY <1>1 DEF CleanBase, BaseGet, BufferGet
<1> QED  BY <1>4, <1>5 DEF BookInv, z

\* Writes outside of a stage make the buffer dirty, those in a stage stay above
\* what the first one saved.
LEMMA WriteBooks ==
    ASSUME NEW db, Live(db), BookInv(db), NEW k \in BKey, NEW v \in 0 .. 99 \cup {NoValue}, NEW ops,
           NEW d, d = SetKV(db, k, v, ops)
    PROVE  BookInv(d)
<1>1. Tidy(db) /\ CleanBase(db)
  BY DEF BookInv
<1>2. Tidy(d) /\ (db.dirty => d.dirty) /\ (db.stages = <<>> => d.dirty)
  BY <1>1, SetKVTidy
<1>3. \E w : Writes(db, d, k, w)
  BY SetKVWrites
<1>4. d.stages = db.stages /\ \A j : \A i \in 1 .. Len(db.stages) :
        SnapshotGet(d, j, db.stages[i]) = SnapshotGet(db, j, db.stages[i])
  BY <1>3 DEF Writes
<1>5. ASSUME ~d.dirty, NEW j
      PROVE  BaseGet(d, j) = NotExist
  <2>1. db.stages # <<>> /\ ~db.dirty
    BY <1>2, <1>5
  <2>2. 1 \in 1 .. Len(db.stages)
    BY <2>1 DEF Live
  <2>3. BaseGet(d, j) = BaseGet(db, j)
    BY <1>4, <2>1, <2>2 DEF BaseGet
  <2> QED  BY <1>1, <2>1, <2>3 DEF CleanBase
<1> QED  BY <1>2, <1>5 DEF BookInv, CleanBase

\* Staging changes nothing but the stack of stages.
LEMMA StagingBooks ==
    ASSUME NEW db, Live(db), BookInv(db),
           NEW d, d = [db EXCEPT !.stages = Append(@, Checkpoint(db))]
    PROVE  BookInv(d)
<1> DEFINE cp == Checkpoint(db)
<1>1. Tidy(db) /\ CleanBase(db) /\ db.dirty \in BOOLEAN
  BY DEF BookInv, Tidy, Flagless
<1>2. /\ d.stages = Append(db.stages, cp)
      /\ \A k : SnapshotGet(d, k, cp) = BufferGet(db, k)
      /\ \A k : \A i \in 1 .. Len(db.stages) :
           SnapshotGet(d, k, db.stages[i]) = SnapshotGet(db, k, db.stages[i])
  BY StagingSaves
<1> HIDE DEF cp
<1>3. /\ d.nodes = db.nodes /\ d.log = db.log /\ d.count = db.count /\ d.size = db.size
      /\ d.dirty = db.dirty
  BY DEF Live, Shape
<1>4. Tidy(d)
  BY <1>1, <1>3, SameTidy
<1>5. ASSUME NEW k
      PROVE  BaseGet(d, k) = BaseGet(db, k)
  <2>0. PICK X : db.stages \in Seq(X)
    BY DEF Live
  <2>1. d.stages # <<>>
    BY <1>2, <2>0
  <2>2. CASE db.stages = <<>>
    <3>1. d.stages[1] = cp
      BY <1>2, <2>2
    <3> QED  BY <1>2, <2>1, <2>2, <3>1 DEF BaseGet
  <2>3. CASE db.stages # <<>>
    <3>1. 1 \in 1 .. Len(db.stages) /\ d.stages[1] = db.stages[1]
      BY <1>2, <2>0, <2>3
    <3> QED  BY <1>2, <2>1, <2>3, <3>1 DEF BaseGet
  <2> QED  BY <2>2, <2>3
<1> QED  BY <1>1, <1>3, <1>4, <1>5 DEF BookInv, CleanBase

\* What a snapshot reads depends only on its position.
LEMMA SamePlace ==
    ASSUME NEW db, Live(db), NEW k, NEW a, NEW b, Pos(a) \in Position, Pos(b) = Pos(a)
    PROVE  SnapshotGet(db, k, a) = SnapshotGet(db, k, b)
<1>1. PICK p : IsNewest(p, VersionsAt(db.log, k, Pos(a))) /\ SnapshotGet(db, k, a) = ValueOf(db.log, p)
  BY ReadsNewest
<1>2. PICK q : IsNewest(q, VersionsAt(db.log, k, Pos(a))) /\ SnapshotGet(db, k, b) = ValueOf(db.log, q)
  BY ReadsNewest
<1>3. VersionsAt(db.log, k, Pos(a)) \in SUBSET Position
  BY AddrPosition DEF Live, VersionsAt, Of
<1> QED  BY <1>1, <1>2, <1>3, NewestUnique

\* The first stage stays unless it is the one that goes.
LEMMA CutStages ==
    ASSUME NEW X, NEW s \in Seq(X), NEW h \in Nat \ {0}, h = Len(s)
    PROVE  LET t == SubSeq(s, 1, h - 1)
           IN  /\ h > 1 => t # <<>> /\ t[1] = s[1]
               /\ h = 1 => t = <<>>
               /\ s # <<>> /\ 1 \in 1 .. Len(s) /\ (h = 1 \/ h > 1)
<1> DEFINE t == SubSeq(s, 1, h - 1)
<1>1. t \in Seq(X) /\ Len(t) = h - 1 /\ \A i \in 1 .. h - 1 : t[i] = s[i]
  OBVIOUS
<1> HIDE DEF t
<1>2. h = 1 => t = <<>>
  BY <1>1
<1>3. ASSUME h > 1
      PROVE  t # <<>> /\ t[1] = s[1]
  <2>1. 1 \in 1 .. h - 1 /\ Len(t) # 0
    BY <1>1, <1>3
  <2>2. t # <<>>
    BY <2>1
  <2> QED  BY <1>1, <2>1, <2>2
<1> QED  BY <1>2, <1>3 DEF t

\* A key without a version behind the checkpoint reads the same from the snapshot.
LEMMA NothingNewer ==
    ASSUME NEW db, Live(db), NEW k, NEW cp, Pos(cp) \in Position,
           \A a \in Of(db.log, k) : UpTo(a, Pos(cp))
    PROVE  SnapshotGet(db, k, cp) = BufferGet(db, k)
<1>1. VersionsAt(db.log, k, Pos(cp)) = Of(db.log, k)
  BY DEF VersionsAt
<1>2. PICK p : IsNewest(p, VersionsAt(db.log, k, Pos(cp))) /\ SnapshotGet(db, k, cp) = ValueOf(db.log, p)
  BY ReadsNewest
<1>3. PICK q : IsNewest(q, Of(db.log, k)) /\ BufferGet(db, k) = ValueOf(db.log, q)
  BY ReadsNewest
<1>4. Of(db.log, k) \in SUBSET Position
  BY AddrPosition DEF Of, Live
<1> QED  BY <1>1, <1>2, <1>3, <1>4, NewestUnique

\* A snapshot taken now reads what the buffer reads.
LEMMA TailReads ==
    ASSUME NEW db, Live(db), NEW k
    PROVE  /\ Pos(Checkpoint(db)) \in Position
           /\ SnapshotGet(db, k, Checkpoint(db)) = BufferGet(db, k)
<1> DEFINE tail == Checkpoint(db)
<1>1. Pos(tail) = TailOf(db.log)
  BY DEF Checkpoint, TailOf, Last, Pos
<1>2. Pos(tail) \in Position /\ IsNewest(Pos(tail), AddrOf(db.log))
  BY <1>1, TailNewest DEF Live
<1> HIDE DEF tail
<1>3. \A a \in Of(db.log, k) : UpTo(a, Pos(tail))
  BY <1>2 DEF IsNewest, Of
<1>4. SnapshotGet(db, k, tail) = BufferGet(db, k)
  BY <1>2, <1>3, NothingNewer
<1> QED  BY <1>2, <1>4 DEF tail

\* Two readable buffers with the same log read the same everywhere.
LEMMA SameReads ==
    ASSUME NEW db, Live(db), NEW d, Live(d), d.log = db.log
    PROVE  \A k : /\ BufferGet(d, k) = BufferGet(db, k)
                  /\ \A c : Pos(c) \in Position => SnapshotGet(d, k, c) = SnapshotGet(db, k, c)
<1> SUFFICES ASSUME NEW k
             PROVE  /\ BufferGet(d, k) = BufferGet(db, k)
                    /\ \A c : Pos(c) \in Position => SnapshotGet(d, k, c) = SnapshotGet(db, k, c)
  OBVIOUS
<1> QED  BY SameLogReads

\* The values of a released first stage become the buffer's, and make it dirty
\* unless nothing was written since the stage began.
LEMMA ReleaseBooks ==
    ASSUME NEW db, Live(db), BookInv(db), NEW h \in Nat \ {0}, h = Len(db.stages),
           NEW d, Live(d), d.nodes = db.nodes, d.log = db.log, d.count = db.count, d.size = db.size,
           d.stages = SubSeq(db.stages, 1, h - 1),
           d.dirty \in BOOLEAN,
           d.dirty <=> db.dirty \/ (h = 1 /\ ~SamePosition(db.stages[1], Checkpoint(db)))
    PROVE  BookInv(d)
<1> DEFINE cp == db.stages[1]
           tail == Checkpoint(db)
<1>0. PICK X : db.stages \in Seq(X)
  BY DEF Live
<1>1. Tidy(db) /\ CleanBase(db) /\ db.dirty \in BOOLEAN
  BY DEF BookInv, Tidy, Flagless
<1>2. d.dirty \in BOOLEAN /\ (db.dirty => d.dirty)
  BY <1>1
<1>3. /\ h > 1 => d.stages # <<>> /\ d.stages[1] = cp
      /\ h = 1 => d.stages = <<>>
      /\ db.stages # <<>> /\ 1 \in 1 .. Len(db.stages) /\ (h = 1 \/ h > 1)
  <2> DEFINE s == db.stages
             t == SubSeq(s, 1, h - 1)
  <2>1. s \in Seq(X) /\ h = Len(s) /\ d.stages = t
    BY <1>0
  <2> HIDE DEF s
  <2>2. (h > 1 => t # <<>> /\ t[1] = s[1]) /\ (h = 1 => t = <<>>) /\ s # <<>> /\ 1 \in 1 .. Len(s)
        /\ (h = 1 \/ h > 1)
    BY <2>1, CutStages
  <2> HIDE DEF t
  <2> QED  BY <2>1, <2>2 DEF s
<1>5. Tidy(d)
  BY <1>1, <1>2, SameTidy
<1>6. \A k : /\ BufferGet(d, k) = BufferGet(db, k)
             /\ \A c : Pos(c) \in Position => SnapshotGet(d, k, c) = SnapshotGet(db, k, c)
  <2> HIDE DEF cp, tail
  <2> QED  BY SameReads, Zenon
<1>7. Pos(cp) \in Position
  BY <1>3, StagePositions
<1>8. ASSUME ~d.dirty, NEW k
      PROVE  BaseGet(d, k) = NotExist
  <2>1. ~db.dirty /\ (h = 1 => SamePosition(cp, tail))
    BY <1>8
  <2>2. SnapshotGet(db, k, cp) = NotExist
    BY <1>1, <1>3, <2>1 DEF CleanBase, BaseGet
  <2> HIDE DEF tail, cp
  <2>3. CASE h = 1
    <3>1. Pos(tail) = Pos(cp)
      BY <2>1, <2>3 DEF SamePosition, Pos
    <3>2. SnapshotGet(db, k, tail) = SnapshotGet(db, k, cp)
      BY <1>7, <3>1, SamePlace
    <3>3. SnapshotGet(db, k, tail) = BufferGet(db, k)
      BY <1>7, <3>1, TailReads DEF tail
    <3>4. BaseGet(d, k) = BufferGet(d, k)
      BY <1>3, <2>3 DEF BaseGet
    <3> QED  BY <1>6, <2>2, <3>2, <3>3, <3>4
  <2>4. CASE h > 1
    <3>1. BaseGet(d, k) = SnapshotGet(d, k, cp)
      BY <1>3, <2>4 DEF BaseGet
    <3> QED  BY <1>6, <1>7, <2>2, <3>1
  <2> QED  BY <1>3, <2>3, <2>4
<1> QED  BY <1>5, <1>8 DEF BookInv, CleanBase

\* Cleanup takes the values it undoes out of the books.
LEMMA CleanupBooks ==
    ASSUME NEW db, Live(db), BookInv(db), NEW h \in Nat \ {0}, h = Len(db.stages),
           NEW d, d = CleanedUp(db, h)
    PROVE  BookInv(d)
<1> DEFINE cp == db.stages[h]
           c == Pos(cp)
           log == db.log
           r == RevertToCheckpoint(db, cp)
           L == CutLog(log, cp)
           st == SubSeq(db.stages, 1, h - 1)
<1>0. PICK X : db.stages \in Seq(X)
  BY DEF Live
<1>1. Tidy(db) /\ CleanBase(db)
  BY DEF BookInv
<1>2. h \in 1 .. Len(db.stages) /\ 1 \in 1 .. Len(db.stages)
  OBVIOUS
<1>3. c \in AddrOf(log) \cup {NullAddr} /\ LogOK(log)
  BY <1>2, StagePositions DEF Live
<1>4. Undone(db, r, c) /\ Tidy(r) /\ (db.dirty => r.dirty)
  BY <1>1, <1>3, RevertReaches DEF Tracked
<1>5. /\ Shape(r) /\ r.log = log /\ r.stages = db.stages
      /\ \A k \in DOMAIN r.nodes : IsNewest(r.nodes[k].vptr, VersionsAt(log, k, c))
  BY <1>4 DEF Undone
<1>6. d = [[r EXCEPT !.blockSize = cp.blockSize, !.log = L] EXCEPT !.stages = SubSeq(@, 1, h - 1)]
  BY <1>5 DEF CleanedUp, Truncate, CutLog
<1>7. /\ AddrOf(L) = {a \in AddrOf(log) : UpTo(a, c)}
      /\ \A a \in AddrOf(L) : Ent(L, a) = Ent(log, a)
  BY <1>3, CutKeeps
<1>8. Restores(db, d, h)
  BY CleanupRestores
<1> HIDE DEF r, L
<1>9. /\ d.log = L /\ d.nodes = r.nodes /\ d.count = r.count /\ d.size = r.size
      /\ d.dirty = r.dirty
  BY <1>5, <1>6 DEF Shape
<1>10. Weights(d.nodes, d.log) = Weights(r.nodes, r.log)
  <2>1. ASSUME NEW k \in DOMAIN r.nodes
        PROVE  Weight(r.nodes, L, k) = Weight(r.nodes, log, k)
    <3>1. r.nodes[k].vptr = NullAddr \/ r.nodes[k].vptr \in AddrOf(L)
      BY <1>5, <1>7 DEF IsNewest, VersionsAt, Of
    <3> QED  BY <1>7, <3>1 DEF Weight
  <2> QED  BY <1>5, <1>9, <2>1 DEF Weights
<1>11. Tidy(d)
  BY <1>4, <1>9, <1>10, SameTidy DEF TotalOf, Tidy, Flagless
<1>12. /\ d.stages = st /\ \A k : BufferGet(d, k) = SnapshotGet(db, k, cp)
       /\ \A k : \A i \in 1 .. h - 1 : SnapshotGet(d, k, db.stages[i]) = SnapshotGet(db, k, db.stages[i])
  BY <1>8 DEF Restores
<1>13. (h > 1 => st # <<>> /\ st[1] = db.stages[1]) /\ (h = 1 => st = <<>>) /\ db.stages # <<>>
       /\ (h = 1 \/ h > 1)
  BY <1>0, CutStages
<1> HIDE DEF st
<1>14. ASSUME ~d.dirty, NEW k
       PROVE  BaseGet(d, k) = NotExist
  <2>1. SnapshotGet(db, k, db.stages[1]) = NotExist
    BY <1>1, <1>4, <1>9, <1>13, <1>14 DEF CleanBase, BaseGet
  <2>2. CASE h = 1
    <3>1. BaseGet(d, k) = BufferGet(d, k)
      BY <1>12, <1>13, <2>2 DEF BaseGet
    <3>2. BufferGet(d, k) = SnapshotGet(db, k, db.stages[1])
      BY <1>12, <2>2
    <3> QED  BY <2>1, <3>1, <3>2
  <2>3. CASE h > 1
    <3>1. 1 \in 1 .. h - 1
      BY <2>3
    <3>2. BaseGet(d, k) = SnapshotGet(d, k, db.stages[1])
      BY <1>12, <1>13, <2>3 DEF BaseGet
    <3>3. SnapshotGet(d, k, db.stages[1]) = SnapshotGet(db, k, db.stages[1])
      BY <1>12, <3>1
    <3> QED  BY <2>1, <3>2, <3>3
  <2> QED  BY <1>13, <2>2, <2>3
<1> QED  BY <1>11, <1>14 DEF BookInv, CleanBase

\* Every operation keeps the books; once the values are given up there are none
\* until Reset.
LEMMA BookStep ==
    ASSUME BufInv(memdb), BookInv(memdb), BufferNext
    PROVE  BookInv(memdb')
<1>a. ~memdb.vlogInvalid => Live(memdb)
  BY DEF BufInv, Discarded
<1>b. memdb.vlogInvalid => Discarded(memdb) /\ memdb.vlogInvalid = TRUE
  BY DEF BufInv, Live, Discarded
<1>c. \A d : d.vlogInvalid = TRUE => BookInv(d)
  BY DEF BookInv, Live
<1>1. ASSUME NEW k \in BKey, NEW v \in BValue \cup {Tombstone}, NEW ops, BufferSet(k, v, ops)
      PROVE  BookInv(memdb')
  <2>1. Live(memdb) /\ memdb' = SetKV(memdb, k, v, ops)
    BY <1>a, <1>1 DEF BufferSet
  <2>2. v \in 0 .. 99 \cup {NoValue}
    BY MemBufferAssumption DEF Tombstone
  <2> QED  BY <2>1, <2>2, WriteBooks
<1>2. ASSUME NEW k \in BKey, NEW op \in FlagsOp, UpdateFlags(k, op)
      PROVE  BookInv(memdb')
  <2>1. Live(memdb) /\ memdb' = SetKV(memdb, k, NoValue, <<op>>)
    BY <1>a, <1>2 DEF UpdateFlags
  <2> QED  BY <2>1, WriteBooks
<1>3. ASSUME Staging
      PROVE  BookInv(memdb')
  <2>1. memdb' = [memdb EXCEPT !.stages = Append(@, Checkpoint(memdb))]
    BY <1>3 DEF Staging
  <2>2. CASE ~memdb.vlogInvalid
    BY <1>a, <2>1, <2>2, StagingBooks
  <2>3. CASE memdb.vlogInvalid
    <3>1. memdb'.vlogInvalid = TRUE
      BY <1>b, <2>1, <2>3 DEF Discarded, Shape
    <3> QED  BY <1>c, <3>1
  <2> QED  BY <2>2, <2>3
<1>4. ASSUME Reset
      PROVE  BookInv(memdb')
  BY <1>4, NewBooks DEF Reset
<1>5. ASSUME DiscardValues
      PROVE  BookInv(memdb')
  <2>1. Live(memdb) /\ memdb' = [memdb EXCEPT !.vlogInvalid = TRUE, !.log = <<>>, !.blockSize = 0]
    BY <1>a, <1>5 DEF DiscardValues
  <2>2. memdb'.vlogInvalid = TRUE
    BY <2>1 DEF Live, Shape
  <2> QED  BY <1>c, <2>2
<1>6. ASSUME NEW h \in 1 .. MaxStages, Release(h), BufInv(memdb')
      PROVE  BookInv(memdb')
  <2> DEFINE y == memdb.dirty \/ (h = 1 /\ ~SamePosition(memdb.stages[1], Checkpoint(memdb)))
             st == SubSeq(memdb.stages, 1, h - 1)
  <2>1. h = Len(memdb.stages) /\ memdb' = [memdb EXCEPT !.dirty = y, !.stages = st] /\ h \in Nat \ {0}
    BY <1>6 DEF Release
  <2>2. y \in BOOLEAN
    OBVIOUS
  <2> HIDE DEF y, st
  <2>3. /\ memdb'.nodes = memdb.nodes /\ memdb'.log = memdb.log /\ memdb'.count = memdb.count
        /\ memdb'.size = memdb.size /\ memdb'.stages = st /\ memdb'.dirty = y
        /\ memdb'.vlogInvalid = memdb.vlogInvalid
    BY <2>1 DEF BufInv, Live, Discarded, Shape
  <2>4. CASE memdb.vlogInvalid
    BY <1>b, <1>c, <2>3, <2>4
  <2>5. CASE ~memdb.vlogInvalid
    <3>1. Live(memdb) /\ Live(memdb')
      BY <1>a, <1>6, <2>3, <2>5 DEF BufInv, Discarded
    <3>2. memdb'.dirty \in BOOLEAN
          /\ (memdb'.dirty <=> memdb.dirty \/ (h = 1 /\ ~SamePosition(memdb.stages[1], Checkpoint(memdb))))
      BY <2>2, <2>3 DEF y
    <3>3. memdb'.stages = SubSeq(memdb.stages, 1, h - 1)
      BY <2>3 DEF st
    <3> QED  BY <2>1, <2>3, <3>1, <3>2, <3>3, ReleaseBooks
  <2> QED  BY <2>4, <2>5
<1>7. ASSUME NEW h \in 1 .. MaxStages, Cleanup(h)
      PROVE  BookInv(memdb')
  <2>1. h = Len(memdb.stages) /\ h \in Nat \ {0}
        /\ memdb' = IF memdb.vlogInvalid THEN [memdb EXCEPT !.stages = SubSeq(memdb.stages, 1, h - 1)]
                    ELSE CleanedUp(memdb, h)
    BY <1>7 DEF Cleanup, CleanedUp
  <2>2. CASE ~memdb.vlogInvalid
    BY <1>a, <2>1, <2>2, CleanupBooks
  <2>3. CASE memdb.vlogInvalid
    <3>1. memdb'.vlogInvalid = TRUE
      BY <1>b, <2>1, <2>3 DEF Discarded, Shape
    <3> QED  BY <1>c, <3>1
  <2> QED  BY <2>2, <2>3
<1>8. BufInv(memdb')
  BY BufferStep
<1> QED  BY <1>1, <1>2, <1>3, <1>4, <1>5, <1>6, <1>7, <1>8 DEF BufferNext

\* What SizeExact and DirtyComplete rest on: the counters are sums over the nodes,
\* a clean buffer has no persistent flag and nothing below its first stage.
BookKeeping == BookInv(memdb)

\* The books are kept by every sequence of writes, stages, releases and undone
\* stages (SetWithFlags, Staging, Release, Cleanup, Reset and DiscardValues).
THEOREM BookKeepingHolds == BufferSpec => []BookKeeping
<1>1. BufferInit => BookKeeping
  BY NewBooks DEF BufferInit, BookKeeping
<1>2. BufferInv /\ BookKeeping /\ [BufferNext]_bufferVars => BookKeeping'
  <2> SUFFICES ASSUME BufferInv, BookKeeping, [BufferNext]_bufferVars PROVE BookKeeping'
    OBVIOUS
  <2>1. CASE BufferNext
    BY <2>1, BookStep DEF BufferInv, BookKeeping
  <2>2. CASE UNCHANGED bufferVars
    BY <2>2 DEF BookKeeping, bufferVars
  <2> QED  BY <2>1, <2>2
<1> QED  BY <1>1, <1>2, BufferInvHolds, PTL DEF BufferSpec

\* The books imply that Size and Len are exact and that a clean buffer is clean.
LEMMA BooksSay == BufferInv /\ BookKeeping => SizeExact /\ DirtyComplete
<1> SUFFICES ASSUME BufferInv, BookKeeping, Readable PROVE SizeExact /\ DirtyComplete
  BY DEF SizeExact, DirtyComplete
<1> DEFINE nodes == memdb.nodes
           log == memdb.log
           length == [k \in DOMAIN nodes |->
                        IF BufferGet(memdb, k) = NotExist THEN 0 ELSE ValueLen(BufferGet(memdb, k))]
<1>1. Live(memdb)
  BY DEF BufferInv, BufInv, Discarded, Readable
<1>2. Counted(memdb) /\ Flagless(memdb) /\ CleanBase(memdb)
  BY <1>1 DEF BookKeeping, BookInv, Tidy
<1>3. SizeExact
  <2>1. LogOK(log) /\ PointsInto(nodes, log)
    BY <1>1, LiveWeights
  <2>2. \A k \in DOMAIN nodes : Weights(nodes, log)[k] \in Nat
    BY <2>1, WeightNat
  <2>3. \A k \in DOMAIN nodes : length[k] = Weights(nodes, log)[k]
    <3> SUFFICES ASSUME NEW k \in DOMAIN nodes PROVE length[k] = Weights(nodes, log)[k]
      OBVIOUS
    <3>1. Weights(nodes, log)[k] = Weight(nodes, log, k)
      BY <2>1, WeightNat
    <3>2. /\ BufferGet(memdb, k) = NotExist => Weight(nodes, log, k) = 0
          /\ BufferGet(memdb, k) # NotExist => Weight(nodes, log, k) = ValueLen(BufferGet(memdb, k))
      BY <1>1, LiveWeights
    <3> QED  BY <3>1, <3>2
  <2>4. IsFiniteSet(DOMAIN nodes)
    BY <1>2 DEF Counted
  <2> HIDE DEF length
  <2>5. SumOf(length, DOMAIN nodes) = TotalOf(nodes, log)
    BY <2>2, <2>3, <2>4, SumProperties DEF TotalOf
  <2>6. \A k \in DOMAIN nodes : length[k] \in Nat
    BY <2>2, <2>3
  <2>7. FoldSet(LAMBDA k, n : n + length[k], 0, DOMAIN nodes) = SumOf(length, DOMAIN nodes)
    BY <2>4, <2>6, FoldIsSum
  <2>8. /\ memdb.count = Cardinality(DOMAIN nodes)
        /\ memdb.size = KeyLen * memdb.count + FoldSet(LAMBDA k, n : n + length[k], 0, DOMAIN nodes)
    BY <1>2, <2>5, <2>7 DEF Counted
  <2> QED  BY <2>8 DEF SizeExact, length
<1>4. DirtyComplete
  <2> SUFFICES ASSUME ~memdb.dirty, NEW k \in DOMAIN memdb.nodes
               PROVE  /\ SnapshotGet(memdb, k, GetSnapshot(memdb)) = NotExist
                      /\ memdb.nodes[k].flags \cap PersistentFlags = {}
    BY DEF DirtyComplete
  <2>1. memdb.nodes[k].flags \cap PersistentFlags = {}
    BY <1>2 DEF Flagless
  <2>2. BaseGet(memdb, k) = NotExist
    BY <1>2 DEF CleanBase
  <2>3. SnapshotGet(memdb, k, GetSnapshot(memdb)) = BaseGet(memdb, k)
    <3>1. CASE memdb.stages = <<>>
      <4>1. SnapshotGet(memdb, k, Checkpoint(memdb)) = BufferGet(memdb, k)
        BY <1>1, TailReads
      <4> QED  BY <3>1, <4>1 DEF BaseGet, GetSnapshot
    <3>2. CASE memdb.stages # <<>>
      BY <3>2 DEF BaseGet, GetSnapshot
    <3> QED  BY <3>1, <3>2
  <2> QED  BY <2>1, <2>2, <2>3
<1> QED  BY <1>3, <1>4

-----------------------------------------------------------------------------
(* The walk of InspectStage. *)

\* One turn of the walk back from the end of the log to a checkpoint.
Back(db, head, c) == IF c = head THEN head ELSE MoveBackCursor(db, c)

Backs(F, db, head, z, n) == F = [i \in 0 .. n |-> IF i = 0 THEN z ELSE Back(db, head, F[i - 1])]

\* The walk of InspectStage moves as the loop of revertToCheckpoint does.
LEMMA WalkExists ==
    ASSUME NEW db, NEW head, NEW z, NEW n \in Nat
    PROVE  \E F : Backs(F, db, head, z, n)
<1> DEFINE r == [db |-> db, at |-> z]
<1>0. r.at = z
  OBVIOUS
<1> HIDE DEF r
<1>1. PICK F : Turns(F, db, head, r, n)
  BY LoopExists
<1>2. \A i \in 0 .. n : F[i] = IF i = 0 THEN r ELSE Turn(db, head, F[i - 1])
  BY <1>1, Zenon DEF Turns
<1> DEFINE G == [i \in 0 .. n |-> F[i].at]
           H == [i \in 0 .. n |-> IF i = 0 THEN z ELSE Back(db, head, G[i - 1])]
<1>3. \A i \in 0 .. n : G[i] = F[i].at
  OBVIOUS
<1>4. \A x : Turn(db, head, x).at = Back(db, head, x.at)
  BY DEF Turn, Back
<1>5. \A i \in 0 .. n : G[i] = IF i = 0 THEN z ELSE Back(db, head, G[i - 1])
  <2> HIDE DEF G
  <2> SUFFICES ASSUME NEW i \in 0 .. n
               PROVE  G[i] = IF i = 0 THEN z ELSE Back(db, head, G[i - 1])
    OBVIOUS
  <2>1. CASE i = 0
    BY <1>0, <1>2, <1>3, <2>1
  <2>2. CASE i # 0
    <3>1. i - 1 \in 0 .. n
      BY <2>2
    <3>2. F[i] = Turn(db, head, F[i - 1])
      BY <1>2, <2>2
    <3> QED  BY <1>3, <1>4, <2>2, <3>1, <3>2
  <2> QED  BY <2>1, <2>2
<1>6. G = H
  <2>1. \A i \in 0 .. n : G[i] = H[i]
    BY <1>5
  <2> QED  BY <2>1
<1>7. Backs(G, db, head, z, n)
  BY <1>6, Zenon DEF Backs
<1> HIDE DEF G
<1> QED  BY <1>7

\* The walk meets, from the newest to the oldest, every entry behind the
\* checkpoint, and none twice.
Walks(log, head, at, n) ==
    /\ \A i \in 0 .. n : at[i] \in AddrOf(log) \cup {NullAddr} /\ UpTo(head, at[i])
    /\ \A i, j \in 0 .. n : i < j => at[j] = head \/ Before(at[j], at[i])
    /\ \A a \in AddrOf(log) : Before(head, a) => \E i \in 0 .. n : at[i] = a

\* InspectStage's walk over the log is complete.
LEMMA WalkReaches ==
    ASSUME NEW db, Live(db), NEW cp, Pos(cp) \in AddrOf(db.log) \cup {NullAddr}
    PROVE  \E n \in Nat : /\ DOMAIN EntriesSince(db, cp) = 0 .. n
                          /\ Walks(db.log, Pos(cp), EntriesSince(db, cp), n)
<1> DEFINE A == AddrOf(db.log)
           N == Cardinality(A)
           head == Pos(cp)
           z == TailOf(db.log)
           at[n \in 0 .. N] == IF n = 0 THEN z ELSE Back(db, head, at[n - 1])
<1>0. /\ LogOK(db.log) /\ IsFiniteSet(A) /\ N \in Nat /\ A \in SUBSET Position /\ NullAddr \notin A
      /\ head \in Position /\ head \in A \cup {NullAddr} /\ NullAddr \in Position
  BY FiniteLog, FS_CardinalityType, AddrPosition, BeforeOrder DEF Live
<1>1. EntriesSince(db, cp) = at
  <2>1. <<Checkpoint(db).blocks, Checkpoint(db).offset>> = TailOf(db.log)
    BY DEF Checkpoint, TailOf, Last
  <2>2. Addresses(db) = A
    BY DEF Addresses, AddrOf
  <2> QED  BY <2>1, <2>2 DEF EntriesSince, Back, Pos
<1>2. at = CHOOSE F : F = [n \in 0 .. N |-> IF n = 0 THEN z ELSE Back(db, head, F[n - 1])]
  BY DEF at
<1> HIDE DEF at, N
<1>3. at = [n \in 0 .. N |-> IF n = 0 THEN z ELSE Back(db, head, at[n - 1])]
  <2>1. \E F : F = [n \in 0 .. N |-> IF n = 0 THEN z ELSE Back(db, head, F[n - 1])]
    <3> HIDE DEF z, head
    <3>1. \E F : Backs(F, db, head, z, N)
      BY <1>0, WalkExists
    <3> QED  BY <3>1, Zenon DEF Backs
  <2> QED  BY <1>2, <2>1, Zenon
<1>4. /\ DOMAIN at = 0 .. N
      /\ \A n \in 0 .. N : at[n] = IF n = 0 THEN z ELSE Back(db, head, at[n - 1])
  BY <1>3, Zenon
<1>b. \A a \in A : Before(NullAddr, a) /\ ~Before(a, NullAddr)
  BY <1>0 DEF Before, NullAddr, Position
<1> DEFINE R(c) == {a \in A : UpTo(a, c)}
           Met(a, n) == \E i \in 0 .. n : at[i] = a
           P(n) == /\ at[n] \in A \cup {NullAddr} /\ UpTo(head, at[n])
                   /\ at[n] = head \/ Cardinality(R(at[n])) <= N - n
                   /\ \A i \in 0 .. n : i < n => at[n] = head \/ Before(at[n], at[i])
                   /\ \A a \in A : UpTo(a, at[n]) \/ Met(a, n)
           S == {n \in Nat : n \in 0 .. N => \A i \in 0 .. n : P(i)}
<1>5. P(0)
  <2>1. 0 \in 0 .. N /\ at[0] = z
    BY <1>0, <1>4
  <2>2. IsNewest(z, A)
    BY <1>0, TailNewest
  <2>3. R(z) = A
    BY <1>0, <2>2 DEF IsNewest
  <2>4. z \in A \cup {NullAddr} /\ UpTo(head, z)
    <3> HIDE DEF z, head
    <3>1. CASE z = NullAddr
      BY <1>0, <2>2, <3>1 DEF IsNewest, UpTo
    <3>2. CASE z \in A
      BY <1>0, <1>b, <2>2, <3>2 DEF IsNewest, UpTo
    <3> QED  BY <2>2, <3>1, <3>2 DEF IsNewest
  <2>5. Cardinality(R(z)) <= N - 0
    <3>1. Cardinality(R(z)) = N
      BY <2>3 DEF N
    <3> HIDE DEF R
    <3> QED  BY <1>0, <3>1
  <2>6. \A a \in A : UpTo(a, z)
    BY <2>3
  <2> HIDE DEF R, z
  <2>7. \A i \in 0 .. 0 : ~(i < 0)
    OBVIOUS
  <2> QED  BY <2>1, <2>4, <2>5, <2>6, <2>7
<1>6. ASSUME NEW n \in Nat, n + 1 \in 0 .. N, \A i \in 0 .. n : P(i)
      PROVE  P(n + 1)
  <2> DEFINE c == at[n]
             m == at[n + 1]
  <2>1. n \in 0 .. N /\ n \in 0 .. n /\ n + 1 # 0 /\ (n + 1) - 1 = n
    BY <1>0, <1>6
  <2>2. m = Back(db, head, c)
    BY <1>4, <1>6, <2>1
  <2>3. /\ c \in A \cup {NullAddr} /\ UpTo(head, c)
        /\ c = head \/ Cardinality(R(c)) <= N - n
        /\ \A i \in 0 .. n : i < n => c = head \/ Before(c, at[i])
        /\ \A a \in A : UpTo(a, c) \/ Met(a, n)
    BY <1>6, <2>1
  <2>4. \A i \in 0 .. n : at[i] \in A \cup {NullAddr}
    BY <1>6
  <2>5. \A i \in 0 .. n + 1 : i < n + 1 => i \in 0 .. n /\ (i < n \/ i = n)
    BY <2>1
  <2>6. \A a : Met(a, n) => Met(a, n + 1)
    <3>1. \A i \in 0 .. n : i \in 0 .. n + 1
      BY <2>1
    <3> QED  BY <3>1
  <2>m. Met(c, n + 1)
    BY <2>1
  <2> HIDE DEF c, m, Met
  <2>7. CASE c = head
    <3>1. m = head
      BY <2>2, <2>7 DEF Back
    <3>2. \A a \in A : UpTo(a, m) \/ Met(a, n + 1)
      BY <2>3, <2>6, <2>7, <3>1
    <3>3. m \in A \cup {NullAddr} /\ UpTo(head, m)
      BY <1>0, <3>1 DEF UpTo
    <3> HIDE DEF R, head
    <3> QED  BY <3>1, <3>2, <3>3 DEF m
  <2>8. CASE c # head
    <3>1. m = MoveBackCursor(db, c)
      BY <2>2, <2>8 DEF Back
    <3>2. c \in A
      BY <1>0, <2>3, <2>8 DEF UpTo, Before, NullAddr, Position
    <3>3. /\ m \in A \cup {NullAddr} /\ \A a \in A : UpTo(a, m) <=> Before(a, c)
      BY <3>1, <3>2, MovedBack
    <3>4. UpTo(head, m)
      <4>1. Before(head, c)
        BY <2>3, <2>8 DEF UpTo
      <4>2. CASE head \in A
        BY <3>3, <4>1, <4>2
      <4>3. CASE head = NullAddr
        BY <1>b, <3>3, <4>3 DEF UpTo
      <4> QED  BY <1>0, <4>2, <4>3
    <3>5. R(m) = R(c) \ {c} /\ c \in R(c) /\ IsFiniteSet(R(c))
      <4>1. \A a \in A : Before(a, c) <=> UpTo(a, c) /\ a # c
        BY <1>0, <3>2, BeforeOrder DEF UpTo
      <4>2. IsFiniteSet(R(c))
        BY <1>0, FS_Subset
      <4> QED  BY <3>2, <3>3, <4>1, <4>2 DEF UpTo
    <3>6. Before(m, c)
      <4>1. CASE m \in A
        BY <3>3, <4>1 DEF UpTo
      <4>2. CASE m = NullAddr
        BY <1>b, <3>2, <4>2
      <4> QED  BY <3>3, <4>1, <4>2
    <3>7. \A i \in 0 .. n + 1 : i < n + 1 => Before(m, at[i])
      <4> SUFFICES ASSUME NEW i \in 0 .. n + 1, i < n + 1 PROVE Before(m, at[i])
        OBVIOUS
      <4>1. CASE i = n
        BY <3>6, <4>1 DEF c
      <4>2. CASE i < n
        <5>1. Before(c, at[i]) /\ at[i] \in Position
          BY <1>0, <2>3, <2>4, <2>5, <2>8, <4>2
        <5>2. m \in Position /\ c \in Position
          BY <1>0, <3>2, <3>3
        <5> QED  BY <3>6, <5>1, <5>2, BeforeOrder
      <4> QED  BY <2>5, <4>1, <4>2
    <3>8. \A a \in A : UpTo(a, m) \/ Met(a, n + 1)
      BY <2>3, <2>6, <2>m, <3>3 DEF UpTo
    <3> HIDE DEF R
    <3>9. Cardinality(R(m)) = Cardinality(R(c)) - 1 /\ Cardinality(R(c)) \in Nat
      BY <3>5, FS_RemoveElement, FS_CardinalityType
    <3>10. Cardinality(R(m)) <= N - (n + 1)
      BY <1>0, <2>1, <2>3, <2>8, <3>9
    <3> HIDE DEF head
    <3> QED  BY <3>3, <3>4, <3>7, <3>8, <3>10 DEF m
  <2> QED  BY <2>7, <2>8
<1> HIDE DEF P
<1>7. S = Nat
  <2>1. 0 \in S
    <3>1. \A i \in 0 .. 0 : i = 0
      OBVIOUS
    <3> QED  BY <1>5, <3>1
  <2>2. ASSUME NEW n \in S PROVE n + 1 \in S
    <3> SUFFICES ASSUME n + 1 \in 0 .. N, NEW i \in 0 .. n + 1 PROVE P(i)
      BY <2>2
    <3>1. n \in Nat /\ n \in 0 .. N
      BY <1>0, <2>2
    <3>2. \A j \in 0 .. n : P(j)
      BY <2>2, <3>1
    <3>3. i = n + 1 \/ i \in 0 .. n
      BY <3>1
    <3> QED  BY <1>6, <3>1, <3>2, <3>3
  <2> HIDE DEF S
  <2>3. S \subseteq Nat
    BY DEF S
  <2> QED  BY <2>1, <2>2, <2>3, SetInduction
<1>8. \A n \in 0 .. N : P(n)
  <2>1. N \in 0 .. N /\ N \in S
    BY <1>0, <1>7
  <2> QED  BY <2>1
<1>9. at[N] = head
  <2> DEFINE c == at[N]
  <2>1. P(N)
    BY <1>0, <1>8
  <2>2. c \in A \cup {NullAddr} /\ UpTo(head, c) /\ (c = head \/ Cardinality(R(c)) <= N - N)
    BY <2>1 DEF P
  <2> HIDE DEF c
  <2>3. SUFFICES ASSUME c # head PROVE FALSE
    BY DEF c
  <2>4. IsFiniteSet(R(c))
    BY <1>0, FS_Subset
  <2>5. R(c) = {}
    <3> HIDE DEF R
    <3>1. Cardinality(R(c)) = 0
      BY <1>0, <2>2, <2>3, <2>4, FS_CardinalityType
    <3> QED  BY <2>4, <3>1, FS_EmptySet
  <2>6. c = NullAddr
    BY <2>2, <2>5 DEF UpTo
  <2> QED  BY <1>0, <2>2, <2>3, <2>6 DEF UpTo, Before, NullAddr, Position
<1>10. Walks(db.log, head, at, N)
  <2>1. \A i \in 0 .. N : at[i] \in A \cup {NullAddr} /\ UpTo(head, at[i])
    BY <1>8 DEF P
  <2>2. ASSUME NEW i \in 0 .. N, NEW j \in 0 .. N, i < j
        PROVE  at[j] = head \/ Before(at[j], at[i])
    <3>1. i \in 0 .. j
      BY <2>2
    <3> QED  BY <1>8, <2>2, <3>1 DEF P
  <2>3. ASSUME NEW a \in A, Before(head, a)
        PROVE  \E i \in 0 .. N : at[i] = a
    <3>0. N \in 0 .. N /\ P(N)
      BY <1>0, <1>8
    <3>1. UpTo(a, at[N]) \/ Met(a, N)
      BY <3>0 DEF P
    <3>2. ~UpTo(a, head)
      BY <1>0, <2>3, BeforeOrder DEF UpTo
    <3> QED  BY <1>9, <3>1, <3>2
  <2> QED  BY <2>1, <2>2, <2>3 DEF Walks
<1> HIDE DEF head
<1> QED  BY <1>0, <1>1, <1>4, <1>10 DEF head

\* The walk and the chains of old versions together make InspectStage exact.
LEMMA InspectionExact == BufferInv => InspectExact
<1> SUFFICES ASSUME BufferInv, Readable, NEW h \in DOMAIN memdb.stages
             PROVE  LET at == EntriesSince(memdb, memdb.stages[h])
                        turns == InspectStage(memdb, h)
                        keyAt(n) == Entry(memdb, at[n]).node
                    IN /\ \A m, n \in turns : keyAt(m) = keyAt(n) => m = n
                       /\ \A n \in turns : BufferGet(memdb, keyAt(n)) = Entry(memdb, at[n]).value
                       /\ \A k \in DOMAIN memdb.nodes :
                            BufferGet(memdb, k) # SnapshotGet(memdb, k, memdb.stages[h])
                              => \E n \in turns : keyAt(n) = k
  BY DEF InspectExact
<1> DEFINE nodes == memdb.nodes
           log == memdb.log
           cp == memdb.stages[h]
           head == Pos(cp)
           at == EntriesSince(memdb, cp)
           turns == InspectStage(memdb, h)
<1>1. Live(memdb)
  BY DEF BufferInv, BufInv, Discarded, Readable
<1>2. h \in 1 .. Len(memdb.stages)
  BY <1>1 DEF Live
<1>3. head \in AddrOf(log) \cup {NullAddr} /\ head \in Position
  BY <1>1, <1>2, StagePositions
<1>4. PICK N \in Nat : DOMAIN at = 0 .. N /\ Walks(log, head, at, N)
  BY <1>1, <1>3, WalkReaches
<1>5. turns = {n \in 0 .. N : at[n] # head /\ nodes[Ent(log, at[n]).node].vptr = at[n]}
  BY <1>4 DEF InspectStage, Entry, Ent, Pos
<1>6. LogOK(log) /\ ChainOK(nodes, log) /\ AddrOf(log) \in SUBSET Position /\ NullAddr \notin AddrOf(log)
  BY <1>1, AddrPosition DEF Live
<1>7. \A a : Entry(memdb, a) = Ent(log, a)
  BY DEF Entry, Ent
<1> HIDE DEF turns, at, head
<1>8. ASSUME NEW n \in turns
      PROVE  at[n] \in AddrOf(log)
  <2>1. at[n] \in AddrOf(log) \cup {NullAddr} /\ UpTo(head, at[n]) /\ at[n] # head
    BY <1>4, <1>5 DEF Walks
  <2> QED  BY <1>3, <2>1 DEF UpTo, Before, NullAddr, Position
<1>9. ASSUME NEW m \in turns, NEW n \in turns, Ent(log, at[m]).node = Ent(log, at[n]).node
      PROVE  m = n
  <2>1. at[m] = at[n] /\ at[m] # head /\ m \in 0 .. N /\ n \in 0 .. N
    BY <1>5, <1>9
  <2>2. ~Before(at[m], at[n]) /\ ~Before(at[n], at[m])
    BY <1>6, <1>8, <2>1, BeforeOrder
  <2>3. ~(m < n) /\ ~(n < m)
    BY <1>4, <2>1, <2>2 DEF Walks
  <2> QED  BY <2>1, <2>3
<1>10. ASSUME NEW n \in turns
       PROVE  BufferGet(memdb, Ent(log, at[n]).node) = Ent(log, at[n]).value
  <2>1. Ent(log, at[n]).node \in DOMAIN nodes /\ nodes[Ent(log, at[n]).node].vptr = at[n]
        /\ at[n] # NullAddr
    BY <1>5, <1>6, <1>8 DEF ChainOK
  <2> QED  BY <1>7, <2>1 DEF BufferGet
<1>11. ASSUME NEW k \in DOMAIN nodes, BufferGet(memdb, k) # SnapshotGet(memdb, k, cp)
       PROVE  \E n \in turns : Ent(log, at[n]).node = k
  <2> DEFINE q == nodes[k].vptr
  <2>1. IsNewest(q, Of(log, k))
    BY <1>6 DEF ChainOK
  <2> HIDE DEF q
  <2>2. PICK a \in Of(log, k) : ~UpTo(a, head)
    BY <1>1, <1>3, <1>11, NothingNewer DEF head
  <2>3. q \in Of(log, k) /\ UpTo(a, q)
    BY <2>1, <2>2 DEF IsNewest
  <2>4. q \in AddrOf(log) /\ Ent(log, q).node = k /\ a \in Position /\ q \in Position
    BY <1>6, <2>2, <2>3 DEF Of
  <2>5. Before(head, q) /\ q # head
    BY <1>3, <2>2, <2>3, <2>4, BeforeOrder DEF UpTo
  <2>6. PICK n \in 0 .. N : at[n] = q
    BY <1>4, <2>4, <2>5 DEF Walks
  <2>7. n \in turns
    BY <1>5, <2>4, <2>5, <2>6 DEF q
  <2> QED  BY <2>4, <2>6, <2>7
<1> QED  BY <1>7, <1>9, <1>10, <1>11 DEF turns, at

-----------------------------------------------------------------------------
\* What the buffer says of itself is true after any sequence of operations: Size
\* and Len are the sums over what it holds, a buffer that is not dirty holds
\* nothing outside of its open stages, and InspectStage reports each changed key
\* once, with its newest value (Size, Len, Dirty and InspectStage).
THEOREM BufferBooksHold == BufferSpec => []BufferBooks
<1>1. BufferInv /\ BookKeeping => BufferBooks
  BY BooksSay, InspectionExact DEF BufferBooks
<1> QED  BY <1>1, BufferInvHolds, BookKeepingHolds, PTL

=============================================================================
