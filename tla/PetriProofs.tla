------------------------------- MODULE PetriProofs --------------------------
(***************************************************************************)
(* Proofs about the two concurrent parts of a Petri. The loop of slow      *)
(* queries forgets only what it may forget and nobody sends on its closed  *)
(* channel, for any number of sessions and queries, any durations and any  *)
(* size of the heaps. Closing a Petri leaves nothing behind, for every     *)
(* configuration, any number of borrowers of system sessions and any       *)
(* capacity of their pool.                                                 *)
(***************************************************************************)
EXTENDS SlowQuery, PetriWorkers, FiniteSetTheorems, SequenceTheorems, TLAPS

-----------------------------------------------------------------------------
(* The loop of slow queries: the inductive invariant. *)

SlowTyped ==
    /\ slowCh \in Seq(Query)
    /\ appended \subseteq Query /\ IsFiniteSet(appended)
    /\ chClosed \in BOOLEAN /\ closedFlag \in BOOLEAN
    /\ logger \in [Query -> {"new", "locked", "done"}]
    /\ slowClock \in Nat /\ lastExpiry \in Nat

\* The flag is set under the write lock, before the channel is closed.
FlagFirst ==
    /\ chClosed = TRUE => closedFlag = TRUE
    /\ \A q \in Query : logger[q] = "locked" => closedFlag = FALSE

\* A query comes to the loop once, so a newcomer is in no heap yet and takes
\* nobody's place twice.
ComesOnce ==
    /\ \A q \in appended : logger[q] = "done"
    /\ \A i \in 1 .. Len(slowCh) : logger[slowCh[i]] = "done" /\ slowCh[i] \notin appended
    /\ \A i, j \in 1 .. Len(slowCh) : slowCh[i] = slowCh[j] => i = j

\* A heap holds queries of its kind that came to the loop.
HeapsOwn ==
    /\ heap = [h \in Kinds |-> heap[h]]
    /\ \A h \in Kinds : heap[h] \subseteq {q \in appended : HeapOf(q) = h}

Longer(q, S) == {p \in S \ {q} : HeapOf(p) = HeapOf(q) /\ Duration[p] >= Duration[q]}

\* What the loop forgot it was right to forget.
ForgottenRightly ==
    \A q \in appended :
        \/ q \in heap[HeapOf(q)]
        \/ ~Unexpired(q, lastExpiry)
        \/ Cardinality(Longer(q, appended)) >= TopN

SlowInv ==
    /\ SlowTyped /\ FlagFirst /\ ComesOnce /\ HeapsOwn /\ ForgottenRightly
    /\ lastExpiry <= slowClock

-----------------------------------------------------------------------------
(* Longer queries. *)

\* Among more queries no fewer are longer.
LEMMA LongerGrows ==
    ASSUME NEW q, NEW S, NEW T, S \subseteq T, IsFiniteSet(T)
    PROVE  /\ Cardinality(Longer(q, S)) \in Nat /\ Cardinality(Longer(q, T)) \in Nat
           /\ Cardinality(Longer(q, S)) <= Cardinality(Longer(q, T))
<1>1. Longer(q, T) \subseteq T /\ Longer(q, S) \subseteq Longer(q, T)
  BY DEF Longer
<1>2. IsFiniteSet(Longer(q, T))
  BY <1>1, FS_Subset
<1>3. IsFiniteSet(Longer(q, S))
  BY <1>1, <1>2, FS_Subset
<1> QED  BY <1>1, <1>2, <1>3, FS_Subset, FS_CardinalityType

\* Enough queries that are as long beat a query.
LEMMA BeatenBy ==
    ASSUME NEW q, NEW S, NEW T, IsFiniteSet(T), S \subseteq T, q \notin S,
           \A p \in S : HeapOf(p) = HeapOf(q) /\ Duration[p] >= Duration[q],
           NEW n \in Nat, Cardinality(S) >= n
    PROVE  Cardinality(Longer(q, T)) >= n
<1>1. S = Longer(q, S)
  BY DEF Longer
<1> QED  BY <1>1, LongerGrows

\* SlowQueryHeap keeps the longest: what it does not take in, or puts out for the
\* newcomer, is beaten by what it holds then.
LEMMA HeapKeepsLongest ==
    ASSUME NEW h, NEW q \in Query, NEW g \in HeapsAfter(h, q), NEW T, IsFiniteSet(T),
           T \subseteq Query, h \cup {q} \subseteq T, q \notin h,
           \A p \in h : HeapOf(p) = HeapOf(q)
    PROVE  /\ g \subseteq h \cup {q}
           /\ \A x \in (h \cup {q}) \ g : Cardinality(Longer(x, T)) >= TopN
<1>0. IsFiniteSet(h) /\ Cardinality(h) \in Nat /\ TopN \in Nat
      /\ \A p \in T : Duration[p] \in Nat
  <2>1. IsFiniteSet(h)
    BY FS_Subset
  <2> QED  BY <2>1, FS_CardinalityType, SlowAssumption
<1>1. CASE Cardinality(h) < TopN
  BY <1>1 DEF HeapsAfter
<1>2. CASE ~(Cardinality(h) < TopN) /\ \A m \in Shortest(h) : Duration[q] > Duration[m]
  <2>1. PICK m \in Shortest(h) : g = (h \ {m}) \cup {q}
    BY <1>2 DEF HeapsAfter
  <2>2. m \in h /\ m # q /\ \A p \in h : Duration[m] <= Duration[p]
    BY <2>1 DEF Shortest
  <2>3. Cardinality(g) >= TopN
    <3>1. IsFiniteSet(h \ {m}) /\ Cardinality(h \ {m}) = Cardinality(h) - 1
      BY <1>0, <2>2, FS_RemoveElement
    <3>2. Cardinality(g) = Cardinality(h \ {m}) + 1
      BY <2>1, <3>1, FS_AddElement
    <3> QED  BY <1>0, <1>2, <3>1, <3>2
  <2>4. \A p \in g : HeapOf(p) = HeapOf(m) /\ Duration[p] >= Duration[m]
    BY <1>0, <1>2, <2>1, <2>2
  <2>5. g \subseteq T /\ m \notin g
    BY <2>1, <2>2
  <2>6. Cardinality(Longer(m, T)) >= TopN
    BY <1>0, <2>3, <2>4, <2>5, BeatenBy
  <2> QED  BY <2>1, <2>2, <2>6
<1>3. CASE ~(Cardinality(h) < TopN) /\ ~(\A m \in Shortest(h) : Duration[q] > Duration[m])
  <2>1. g = h
    BY <1>3 DEF HeapsAfter
  <2>2. PICK m \in Shortest(h) : ~(Duration[q] > Duration[m])
    BY <1>3
  <2>3. \A p \in h : HeapOf(p) = HeapOf(q) /\ Duration[p] >= Duration[q]
    BY <1>0, <2>2 DEF Shortest
  <2>4. Cardinality(Longer(q, T)) >= TopN
    BY <1>0, <1>3, <2>3, BeatenBy
  <2> QED  BY <2>1, <2>4
<1> QED  BY <1>1, <1>2, <1>3

-----------------------------------------------------------------------------
(* The steps. *)

\* A query is sent once: after the send it is done (LogSlowQuery).
LEMMA SendKeepsComing ==
    ASSUME SlowTyped, ComesOnce, NEW q \in Query, LogSend(q)
    PROVE  ComesOnce' /\ slowCh' \in Seq(Query)
<1>0. slowCh \in Seq(Query) /\ Len(slowCh) \in Nat /\ appended' = appended
      /\ logger' = [logger EXCEPT ![q] = "done"] /\ logger[q] = "locked"
      /\ logger \in [Query -> {"new", "locked", "done"}]
  BY DEF SlowTyped, LogSend
<1>1. /\ \A x \in Query : logger[x] = "done" => logger'[x] = "done"
      /\ logger'[q] = "done" /\ q \notin appended
      /\ \A i \in 1 .. Len(slowCh) : slowCh[i] # q /\ slowCh[i] \in Query
  BY <1>0 DEF ComesOnce
<1>2. CASE slowCh' = slowCh
  BY <1>0, <1>1, <1>2 DEF ComesOnce, SlowTyped
<1>3. CASE slowCh' = Append(slowCh, q)
  <2>1. slowCh' \in Seq(Query) /\ Len(slowCh') = Len(slowCh) + 1
    BY <1>0, <1>3
  <2>2. \A i \in 1 .. Len(slowCh') :
            \/ i \in 1 .. Len(slowCh) /\ slowCh'[i] = slowCh[i]
            \/ i = Len(slowCh) + 1 /\ slowCh'[i] = q
    BY <1>0, <1>3, <2>1
  <2> QED  BY <1>0, <1>1, <2>1, <2>2 DEF ComesOnce, SlowTyped
<1> QED  BY <1>2, <1>3 DEF LogSend

\* The loop takes in the head of the channel, which it has not seen before, and
\* the heap of its kind forgets only a query that is beaten (topNSlowQueries.Append).
LEMMA AppendKeeps ==
    ASSUME SlowInv, LoopAppend
    PROVE  SlowTyped' /\ ComesOnce' /\ HeapsOwn' /\ ForgottenRightly'
<1> DEFINE q == Head(slowCh)
           k == HeapOf(q)
<1>0. /\ slowCh \in Seq(Query) /\ slowCh # <<>> /\ slowCh' = Tail(slowCh)
      /\ appended' = appended \cup {q} /\ logger' = logger /\ lastExpiry' = lastExpiry
  BY DEF SlowInv, SlowTyped, LoopAppend, SlowAppend
<1>1. q = slowCh[1] /\ 1 \in 1 .. Len(slowCh) /\ q \in Query /\ k \in Kinds
      /\ slowCh' \in Seq(Query) /\ Len(slowCh') = Len(slowCh) - 1
      /\ \A i \in 1 .. Len(slowCh') : slowCh'[i] = slowCh[i + 1] /\ i + 1 \in 1 .. Len(slowCh)
  BY <1>0 DEF HeapOf, Kinds
<1>2. q \notin appended /\ logger[q] = "done"
  BY <1>1 DEF SlowInv, ComesOnce
<1>3. PICK g \in HeapsAfter(heap[k], q) : heap' = [heap EXCEPT ![k] = g]
  BY DEF LoopAppend, SlowAppend
<1> HIDE DEF q, k
<1>4. ComesOnce'
  <2>1. \A i \in 1 .. Len(slowCh') : slowCh'[i] # q
    <3> SUFFICES ASSUME NEW i \in 1 .. Len(slowCh'), slowCh[i + 1] = slowCh[1]
                 PROVE  FALSE
      BY <1>1
    <3>1. i + 1 = 1
      BY <1>1 DEF SlowInv, ComesOnce
    <3> QED  BY <1>0, <1>1, <3>1
  <2>2. \A i, j \in 1 .. Len(slowCh') : slowCh'[i] = slowCh'[j] => i = j
    <3> SUFFICES ASSUME NEW i \in 1 .. Len(slowCh'), NEW j \in 1 .. Len(slowCh'),
                        slowCh[i + 1] = slowCh[j + 1]
                 PROVE  i = j
      BY <1>1
    <3>1. i + 1 = j + 1
      BY <1>1 DEF SlowInv, ComesOnce
    <3> QED  BY <1>0, <1>1, <3>1
  <2> QED  BY <1>0, <1>1, <1>2, <2>1, <2>2 DEF SlowInv, ComesOnce
<1>5. IsFiniteSet(appended') /\ appended' \subseteq Query
  BY <1>0, <1>1, FS_AddElement DEF SlowInv, SlowTyped
<1>6. SlowTyped'
  BY <1>0, <1>1, <1>5 DEF SlowInv, SlowTyped, LoopAppend
<1>7. heap[k] \subseteq appended /\ \A p \in heap[k] : HeapOf(p) = HeapOf(q)
  BY <1>1 DEF SlowInv, HeapsOwn, k
<1>8. /\ g \subseteq heap[k] \cup {q}
      /\ \A x \in (heap[k] \cup {q}) \ g : Cardinality(Longer(x, appended')) >= TopN
  BY <1>0, <1>1, <1>2, <1>5, <1>7, HeapKeepsLongest
<1>9. /\ heap' = [h \in Kinds |-> heap'[h]]
      /\ \A h \in Kinds : heap'[h] = IF h = k THEN g ELSE heap[h]
  BY <1>1, <1>3 DEF SlowInv, HeapsOwn
<1>10. HeapsOwn'
  <2>1. ASSUME NEW h \in Kinds, NEW x \in heap'[h]
        PROVE  x \in appended' /\ HeapOf(x) = h
    <3>1. CASE h = k
      BY <1>0, <1>7, <1>8, <1>9, <2>1, <3>1 DEF k
    <3>2. CASE h # k
      BY <1>0, <1>9, <2>1, <3>2 DEF SlowInv, HeapsOwn
    <3> QED  BY <3>1, <3>2
  <2> QED  BY <1>9, <2>1 DEF HeapsOwn
<1>11. ForgottenRightly'
  <2> SUFFICES ASSUME NEW x \in appended', ~(x \in heap'[HeapOf(x)])
               PROVE  \/ ~Unexpired(x, lastExpiry')
                      \/ Cardinality(Longer(x, appended')) >= TopN
    BY DEF ForgottenRightly, Unexpired, Longer
  <2>1. HeapOf(x) \in Kinds
    BY DEF HeapOf, Kinds
  <2>2. CASE x = q \/ x \in heap[HeapOf(x)]
    <3>1. HeapOf(x) = k /\ x \in heap[k] \cup {q}
      BY <2>1, <2>2, <1>9 DEF k
    <3> QED  BY <1>8, <1>9, <2>1, <3>1
  <2>3. CASE x # q /\ x \notin heap[HeapOf(x)]
    <3>1. x \in appended
      BY <1>0, <2>3
    <3>2. \/ ~Unexpired(x, lastExpiry)
          \/ Cardinality(Longer(x, appended)) >= TopN
      BY <2>3, <3>1 DEF SlowInv, ForgottenRightly
    <3>3. /\ Cardinality(Longer(x, appended)) \in Nat /\ Cardinality(Longer(x, appended')) \in Nat
          /\ Cardinality(Longer(x, appended)) <= Cardinality(Longer(x, appended'))
      BY <1>0, <1>5, LongerGrows
    <3> QED  BY <1>0, <3>2, <3>3, SlowAssumption
  <2> QED  BY <2>2, <2>3
<1> QED  BY <1>4, <1>6, <1>10, <1>11

\* What is too old when the heaps are cleaned was too old before, or is now
\* (RemoveExpired): the clock does not go back.
LEMMA ExpireKeeps ==
    ASSUME SlowInv, LoopRemoveExpired
    PROVE  HeapsOwn' /\ ForgottenRightly' /\ lastExpiry' \in Nat /\ lastExpiry' <= slowClock'
<1>1. /\ heap' = [h \in Kinds |-> {q \in heap[h] : Unexpired(q, slowClock)}]
      /\ lastExpiry' = slowClock /\ slowClock' = slowClock /\ appended' = appended
      /\ slowClock \in Nat /\ lastExpiry \in Nat /\ lastExpiry <= slowClock
      /\ appended \subseteq Query
  BY DEF SlowInv, SlowTyped, LoopRemoveExpired
<1>2. HeapsOwn'
  BY <1>1 DEF SlowInv, HeapsOwn
<1>3. ForgottenRightly'
  <2> SUFFICES ASSUME NEW q \in appended, ~(q \in heap'[HeapOf(q)]), Unexpired(q, slowClock)
               PROVE  Cardinality(Longer(q, appended)) >= TopN
    BY <1>1 DEF ForgottenRightly, Unexpired, Longer
  <2>1. HeapOf(q) \in Kinds
    BY DEF HeapOf, Kinds
  <2>2. q \notin heap[HeapOf(q)]
    BY <1>1, <2>1
  <2>3. Unexpired(q, lastExpiry)
    <3>1. Start[q] \in Nat /\ Period \in Nat
      BY <1>1, SlowAssumption
    <3> QED  BY <1>1, <3>1 DEF Unexpired
  <2> QED  BY <2>2, <2>3 DEF SlowInv, ForgottenRightly
<1> QED  BY <1>1, <1>2, <1>3

\* Steps that touch neither the channel's queries nor the heaps.
LEMMA OthersKeep ==
    ASSUME SlowInv, UNCHANGED <<slowCh, heap, lastExpiry, appended>>
    PROVE  HeapsOwn' /\ ForgottenRightly' /\ (UNCHANGED logger => ComesOnce')
<1>1. HeapsOwn' /\ (UNCHANGED logger => ComesOnce')
  BY DEF SlowInv, HeapsOwn, ComesOnce
<1>2. ForgottenRightly'
  BY DEF SlowInv, ForgottenRightly, Unexpired, Longer
<1> QED  BY <1>1, <1>2

\* Every step keeps the invariant.
LEMMA SlowStep == SlowInv /\ [SlowNext]_slowVars => SlowInv'
<1> SUFFICES ASSUME SlowInv, [SlowNext]_slowVars PROVE SlowInv'
  OBVIOUS
<1>0. SlowTyped /\ FlagFirst /\ ComesOnce /\ HeapsOwn /\ ForgottenRightly
      /\ lastExpiry <= slowClock
  BY DEF SlowInv
<1>1. ASSUME NEW q \in Query, LogEnter(q)
      PROVE  SlowInv'
  <2>1. SlowTyped' /\ FlagFirst' /\ ComesOnce'
    <3>1. logger' = [logger EXCEPT ![q] = IF closedFlag THEN "done" ELSE "locked"]
          /\ logger[q] = "new" /\ UNCHANGED <<chClosed, closedFlag, slowCh, appended, slowClock,
                                              lastExpiry>>
      BY <1>1 DEF LogEnter
    <3>2. CASE closedFlag = TRUE
      BY <1>0, <3>1, <3>2 DEF SlowTyped, FlagFirst, ComesOnce
    <3>3. CASE closedFlag = FALSE
      BY <1>0, <3>1, <3>3 DEF SlowTyped, FlagFirst, ComesOnce
    <3> QED  BY <1>0, <3>2, <3>3 DEF SlowTyped
  <2>2. HeapsOwn' /\ ForgottenRightly' /\ (lastExpiry <= slowClock)'
    BY <1>0, <1>1, OthersKeep DEF LogEnter
  <2> QED  BY <2>1, <2>2 DEF SlowInv
<1>2. ASSUME NEW q \in Query, LogSend(q)
      PROVE  SlowInv'
  <2>1. ComesOnce' /\ slowCh' \in Seq(Query)
    BY <1>0, <1>2, SendKeepsComing
  <2>2. SlowTyped' /\ FlagFirst'
    BY <1>0, <1>2, <2>1 DEF SlowTyped, FlagFirst, LogSend
  <2>3. HeapsOwn' /\ ForgottenRightly' /\ (lastExpiry <= slowClock)'
    BY <1>0, <1>2 DEF LogSend, HeapsOwn, ForgottenRightly, Unexpired, Longer
  <2> QED  BY <2>1, <2>2, <2>3 DEF SlowInv
<1>3. CASE LoopAppend
  BY <1>0, <1>3, AppendKeeps DEF SlowInv, FlagFirst, LoopAppend
<1>4. CASE LoopRemoveExpired
  BY <1>0, <1>4, ExpireKeeps DEF SlowInv, FlagFirst, ComesOnce, SlowTyped, LoopRemoveExpired
<1>5. CASE \/ LoopAnswer \/ LoopEnd \/ UNCHANGED slowVars
           \/ \E c \in ShowClient, k \in {"user", "all", "recent", "everything"} : ShowSlowQuery(c, k)
  <2>1. UNCHANGED <<slowCh, heap, lastExpiry, appended, logger, chClosed, closedFlag, slowClock>>
    BY <1>5 DEF LoopAnswer, LoopEnd, ShowSlowQuery, slowVars
  <2> QED  BY <1>0, <2>1, OthersKeep DEF SlowInv, SlowTyped, FlagFirst
<1>6. CASE CloseFlag
  <2>1. UNCHANGED <<slowCh, heap, lastExpiry, appended, logger, chClosed, slowClock>>
        /\ closedFlag' = TRUE /\ \A q \in Query : logger[q] # "locked"
    BY <1>6 DEF CloseFlag
  <2> QED  BY <1>0, <2>1, OthersKeep DEF SlowInv, SlowTyped, FlagFirst
<1>7. CASE CloseChannel
  <2>1. UNCHANGED <<slowCh, heap, lastExpiry, appended, logger, closedFlag, slowClock>>
        /\ chClosed' = TRUE
    BY <1>7 DEF CloseChannel
  <2>2. closedFlag = TRUE
    BY <1>0, <1>7 DEF CloseChannel, SlowTyped
  <2> QED  BY <1>0, <2>1, <2>2, OthersKeep DEF SlowInv, SlowTyped, FlagFirst
<1>8. CASE SlowTick
  <2>1. UNCHANGED <<slowCh, heap, lastExpiry, appended, logger, chClosed, closedFlag>>
        /\ slowClock' = slowClock + 1
    BY <1>8 DEF SlowTick
  <2>2. slowClock' \in Nat /\ lastExpiry' \in Nat /\ lastExpiry' <= slowClock'
    BY <1>0, <2>1 DEF SlowTyped
  <2> QED  BY <1>0, <2>1, <2>2, OthersKeep DEF SlowInv, SlowTyped, FlagFirst
<1> QED  BY <1>1, <1>2, <1>3, <1>4, <1>5, <1>6, <1>7, <1>8 DEF SlowNext

\* Nobody sends on the closed channel of slow queries, and a query missing from
\* its heap has expired or is beaten by TopN others (LogSlowQuery, Petri.Close and
\* topNSlowQueries), for any number of sessions and queries.
THEOREM SlowQueriesKeptHolds == SlowSpec => []SlowQueriesKept
<1>1. SlowInit => SlowInv
  <2> SUFFICES ASSUME SlowInit PROVE SlowInv
    OBVIOUS
  <2>1. SlowTyped
    <3>1. IsFiniteSet(appended)
      BY FS_EmptySet DEF SlowInit
    <3>2. slowCh \in Seq(Query)
      BY DEF SlowInit
    <3>3. logger \in [Query -> {"new", "locked", "done"}]
      BY DEF SlowInit
    <3> QED  BY <3>1, <3>2, <3>3 DEF SlowInit, SlowTyped
  <2>2. FlagFirst /\ ComesOnce /\ HeapsOwn /\ ForgottenRightly
    BY DEF SlowInit, FlagFirst, ComesOnce, HeapsOwn, ForgottenRightly
  <2> QED  BY <2>1, <2>2 DEF SlowInit, SlowInv
<1>2. SlowInv => SlowQueriesKept
  <2> SUFFICES ASSUME SlowInv PROVE SlowQueriesKept
    OBVIOUS
  <2>1. \A q \in Query : logger[q] = "locked" => ~chClosed
    BY DEF SlowInv, FlagFirst, SlowTyped
  <2> QED  BY <2>1 DEF SlowInv, ForgottenRightly, Longer, SlowQueriesKept
<1> QED  BY <1>1, <1>2, SlowStep, PTL DEF SlowSpec

-----------------------------------------------------------------------------
(* The workers and the system sessions: the inductive invariant. *)

PoolSet == {pool[i] : i \in 1 .. Len(pool)}
Held == {holds[u] : u \in {x \in User : holds[x] # NoRes}}

\* Up to here the bootstrap may go on and no worker leaves.
StartPhase == {"new", "started", "privileges", "bindings", "telemetry", "up", "infoRemoved"}
BeforePoolClose == StartPhase \cup {"exiting", "etcdClosed", "poolLocking"}
Drained == {"poolClosed", "waiting", "closed"}

PoolTyped ==
    /\ pool \in Seq(Nat)
    /\ holds \in [User -> Nat]
    /\ made \in Nat
    /\ poolReader \subseteq User

\* Where a session is: idle in the pool, with a borrower, or closed.
SessionsKept == 1 .. made = destroyed \cup Held \cup PoolSet

\* The write lock of the pool's Close keeps the readers out for good: a Put finds
\* the pool closed after it, so no idle session comes back once it is drained.
PoolPhases ==
    /\ phase \in BeforePoolClose \cup {"poolClosing"} \cup Drained
    /\ poolClosed = (phase \notin BeforePoolClose)
    /\ poolChClosed = (phase \notin BeforePoolClose)
    /\ phase \notin BeforePoolClose => poolReader = {}
    /\ \A u \in poolReader : holds[u] # NoRes
    /\ phase \in Drained => pool = <<>>

\* A campaign has a worker that will cancel it, and no worker leaves while the
\* bootstrap may still replace the wait group.
WorkersOwn ==
    /\ phase = "new" => workers = {} /\ owners = {} /\ statsUpdating = FALSE
    /\ exitClosed \in BOOLEAN /\ statsUpdating \in BOOLEAN
    /\ exitClosed = TRUE => phase \notin StartPhase
    /\ owners \subseteq {"stats", "bindinfo", "telemetry"}
    /\ "stats" \in owners => "updateStats" \in workers
    /\ "bindinfo" \in owners => "evolve" \in workers
    /\ "telemetry" \in owners => "telemetry" \in workers
    /\ statsUpdating = TRUE => "updateStats" \in workers
    /\ phase = "closed" => workers = {}

PetriInv == PoolTyped /\ SessionsKept /\ PoolPhases /\ WorkersOwn

-----------------------------------------------------------------------------
(* The workers. *)

\* A worker that leaves the wait group takes its campaign with it.
LEMMA LeaveKeepsWorkers ==
    ASSUME WorkersOwn, PoolPhases, WorkerStep
    PROVE  WorkersOwn'
<1> USE DEF WorkersOwn, StartPhase
<1>1. CASE Campaign("evolve", "bindinfo") \/ Campaign("telemetry", "telemetry")
  BY <1>1 DEF Campaign
<1>2. CASE InfoSyncerExit \/ TopologyExit \/ SchemaLoopExit \/ PrivilegeExit \/ BindLoopExit
             \/ LoadStatsExit \/ AnalyzeExit
  BY <1>2 DEF InfoSyncerExit, TopologyExit, SchemaLoopExit, PrivilegeExit, BindLoopExit,
              LoadStatsExit, AnalyzeExit, LeaveOnly, Leave
<1>3. CASE EvolveExit \/ TelemetryExit \/ UpdateStatsExit
  BY <1>3 DEF EvolveExit, TelemetryExit, UpdateStatsExit, LeaveOwner, Leave
<1> QED  BY <1>1, <1>2, <1>3 DEF WorkerStep

\* No other step leaves a campaign without the worker that cancels it: the loops
\* are started before do.exit can be closed (Init, LoadPrivilegeLoop and the
\* others that Bootstrap calls), and Close waits for the group to be empty.
LEMMA StepKeepsWorkers ==
    ASSUME WorkersOwn, PoolPhases, [PetriNext]_petriVars
    PROVE  WorkersOwn'
<1>1. CASE UNCHANGED petriVars
  BY <1>1 DEF WorkersOwn, petriVars
<1>2. CASE WorkerStep
  BY <1>2, LeaveKeepsWorkers
<1> USE DEF WorkersOwn, StartPhase
<1>3. CASE Init_
  BY <1>3 DEF Init_
<1>4. CASE Bootstrap
  <2>1. CASE phase # "telemetry"
    BY <1>4, <2>1 DEF Bootstrap, LoadPrivilegeLoop, LoadBindInfoLoop, TelemetryLoop
  <2>2. CASE phase = "telemetry" /\ config.statsLease > 0
    <3>1. /\ phase' = "up" /\ exitClosed' = exitClosed
          /\ owners' = owners \cup {"stats"}
          /\ workers \cup {"updateStats"} \subseteq workers'
      BY <1>4, <2>2 DEF Bootstrap, UpdateBlockStatsLoop
    <3>2. statsUpdating' \in BOOLEAN
      BY <1>4, <2>2, Zenon DEF Bootstrap, UpdateBlockStatsLoop
    <3> QED  BY <2>2, <3>1, <3>2
  <2>3. CASE phase = "telemetry" /\ ~(config.statsLease > 0)
    <3>1. /\ phase' = "up" /\ exitClosed' = exitClosed
          /\ owners' = owners
          /\ workers \subseteq workers'
      BY <1>4, <2>3 DEF Bootstrap, UpdateBlockStatsLoop
    <3>2. statsUpdating' = FALSE
      <4>1. statsUpdating' <=> config.statsLease > 0
        BY <1>4, <2>3, Zenon DEF Bootstrap, UpdateBlockStatsLoop
      <4>2. statsUpdating' \in BOOLEAN
        BY <1>4, <2>3, SMT DEF Bootstrap, UpdateBlockStatsLoop
      <4> QED  BY <2>3, <4>1, <4>2, Zenon
    <3> QED  BY <2>3, <3>1, <3>2
  <2> QED  BY <2>1, <2>2, <2>3
<1>5. CASE SlowQueryLoopExit \/ PrivilegeRewatch \/ WatchBreaks \/ InfoSyncerRestart
  BY <1>5 DEF SlowQueryLoopExit, PrivilegeRewatch, WatchBreaks, InfoSyncerRestart
<1>6. CASE \E u \in User : PoolGet(u) \/ PoolPut(u) \/ PoolSend(u)
  BY <1>6 DEF PoolGet, PoolPut, PoolSend, workerVars
<1>7. CASE CloseInfo \/ CloseStep
  BY <1>7 DEF CloseInfo, CloseStep, CloseExit, CloseEtcd, PoolLock, PoolClose, PoolDrain,
              CloseSlowQuery, CloseDone, workerVars
<1> QED  BY <1>1, <1>2, <1>3, <1>4, <1>5, <1>6, <1>7 DEF PetriNext

-----------------------------------------------------------------------------
(* The pool. *)

\* Steps that leave the pool, its flags and the phase where they are relevant.
LEMMA PoolUnchangedKeeps ==
    ASSUME PoolTyped, SessionsKept, UNCHANGED poolVars
    PROVE  PoolTyped' /\ SessionsKept'
BY DEF PoolTyped, SessionsKept, poolVars, Held, PoolSet

\* The elements of a queue after a send and after a receive.
LEMMA QueueSend ==
    ASSUME NEW s \in Seq(Nat), NEW e \in Nat
    PROVE  /\ Append(s, e) \in Seq(Nat)
           /\ {Append(s, e)[i] : i \in 1 .. Len(Append(s, e))} = {s[i] : i \in 1 .. Len(s)} \cup {e}
<1>1. Append(s, e) \in Seq(Nat) /\ Len(Append(s, e)) = Len(s) + 1
  OBVIOUS
<1>2. \A i \in 1 .. Len(s) : i \in 1 .. Len(s) + 1 /\ Append(s, e)[i] = s[i]
  OBVIOUS
<1>3. Append(s, e)[Len(s) + 1] = e /\ Len(s) + 1 \in 1 .. Len(s) + 1
  OBVIOUS
<1>4. \A i \in 1 .. Len(s) + 1 : i \in 1 .. Len(s) \/ i = Len(s) + 1
  OBVIOUS
<1> QED  BY <1>1, <1>2, <1>3, <1>4

\* Receiving from the channel of the pool takes its first session and keeps the rest.
LEMMA QueueReceive ==
    ASSUME NEW s \in Seq(Nat), s # <<>>
    PROVE  /\ Head(s) \in Nat /\ Tail(s) \in Seq(Nat)
           /\ {s[i] : i \in 1 .. Len(s)} = {Tail(s)[i] : i \in 1 .. Len(Tail(s))} \cup {Head(s)}
<1>1. Head(s) = s[1] /\ Head(s) \in Nat /\ Tail(s) \in Seq(Nat) /\ Len(Tail(s)) = Len(s) - 1
      /\ Len(s) \in Nat \ {0}
  OBVIOUS
<1>2. \A i \in 1 .. Len(Tail(s)) : Tail(s)[i] = s[i + 1] /\ i + 1 \in 1 .. Len(s)
  BY <1>1
<1>3. \A i \in 1 .. Len(s) : i = 1 \/ (i - 1 \in 1 .. Len(Tail(s)) /\ s[i] = Tail(s)[i - 1])
  BY <1>1, <1>2
<1>4. {s[i] : i \in 1 .. Len(s)} \subseteq {Tail(s)[i] : i \in 1 .. Len(Tail(s))} \cup {Head(s)}
  <2> SUFFICES ASSUME NEW i \in 1 .. Len(s), i # 1
               PROVE  s[i] \in {Tail(s)[k] : k \in 1 .. Len(Tail(s))}
    BY <1>1
  <2> QED  BY <1>3
<1>5. {Tail(s)[i] : i \in 1 .. Len(Tail(s))} \subseteq {s[i] : i \in 1 .. Len(s)}
  BY <1>2
<1>6. Head(s) \in {s[i] : i \in 1 .. Len(s)}
  BY <1>1
<1> QED  BY <1>1, <1>4, <1>5, <1>6

\* The held sessions after a borrower takes one or gives its own away.
LEMMA HeldAfter ==
    ASSUME NEW f \in [User -> Nat], NEW u \in User, NEW s \in Nat, NEW g, g = [f EXCEPT ![u] = s]
    PROVE  /\ g \in [User -> Nat]
           /\ \A x : x # 0 => ((\E v \in User : g[v] = x)
                                <=> (x = s \/ \E v \in User \ {u} : f[v] = x))
OBVIOUS

\* Held, without the comprehension.
LEMMA HeldElements == \A x : x \in Held <=> (x # 0 /\ \E v \in User : holds[v] = x)
BY DEF Held, NoRes

\* The same after a step.
LEMMA HeldElementsNext == \A x : x \in Held' <=> (x # 0 /\ \E v \in User : holds'[v] = x)
BY DEF Held, NoRes

\* Get hands out an idle session or a new one (stochastikPool.Get).
LEMMA GetKeeps ==
    ASSUME PoolTyped, SessionsKept, NEW u \in User, PoolGet(u)
    PROVE  PoolTyped' /\ SessionsKept'
<1>0. pool \in Seq(Nat) /\ holds \in [User -> Nat] /\ made \in Nat /\ holds[u] = 0
      /\ poolReader' = poolReader /\ destroyed' = destroyed
  BY DEF PoolTyped, PoolGet, NoRes
<1>1. CASE pool # <<>> /\ holds' = [holds EXCEPT ![u] = Head(pool)] /\ pool' = Tail(pool)
           /\ made' = made
  <2>1. Head(pool) \in Nat /\ Tail(pool) \in Seq(Nat)
        /\ PoolSet = PoolSet' \cup {Head(pool)}
    BY <1>0, <1>1, QueueReceive DEF PoolSet
  <2>2. Head(pool) \in 1 .. made
    BY <2>1 DEF SessionsKept
  <2>3. holds' \in [User -> Nat]
        /\ \A x : x # 0 => ((\E v \in User : holds'[v] = x)
                             <=> (x = Head(pool) \/ \E v \in User \ {u} : holds[v] = x))
    BY <1>0, <1>1, <2>1, HeldAfter
  <2>4. Held' = Held \cup {Head(pool)}
    <3>1. Head(pool) # 0
      BY <2>2
    <3>2. \A x : x # 0 => ((\E v \in User : holds[v] = x) <=> \E v \in User \ {u} : holds[v] = x)
      BY <1>0
    <3> QED  BY <2>3, <3>1, <3>2, HeldElements, HeldElementsNext
  <2> QED  BY <1>0, <1>1, <2>1, <2>3, <2>4 DEF PoolTyped, SessionsKept
<1>2. CASE pool = <<>> /\ made' = made + 1 /\ holds' = [holds EXCEPT ![u] = made']
           /\ pool' = pool
  <2>1. made' \in Nat /\ made' # 0 /\ 1 .. made' = (1 .. made) \cup {made'}
    BY <1>0, <1>2
  <2>3. holds' \in [User -> Nat]
        /\ \A x : x # 0 => ((\E v \in User : holds'[v] = x)
                             <=> (x = made' \/ \E v \in User \ {u} : holds[v] = x))
    BY <1>0, <1>2, <2>1, HeldAfter
  <2>4. Held' = Held \cup {made'}
    <3>2. \A x : x # 0 => ((\E v \in User : holds[v] = x) <=> \E v \in User \ {u} : holds[v] = x)
      BY <1>0
    <3> QED  BY <2>1, <2>3, <3>2, HeldElements, HeldElementsNext
  <2>5. PoolSet' = PoolSet
    BY <1>2 DEF PoolSet
  <2> QED  BY <1>0, <1>2, <2>1, <2>3, <2>4, <2>5 DEF PoolTyped, SessionsKept
<1> QED  BY <1>1, <1>2 DEF PoolGet

\* A session that its borrower gives up and that becomes idle or is closed.
LEMMA GivenUp ==
    ASSUME PoolTyped, NEW u \in User, holds' = [holds EXCEPT ![u] = NoRes], holds[u] # NoRes
    PROVE  /\ holds' \in [User -> Nat] /\ holds[u] \in Nat
           /\ Held = Held' \cup {holds[u]}
<1>0. holds \in [User -> Nat] /\ holds[u] # 0 /\ holds[u] \in Nat
  BY DEF PoolTyped, NoRes
<1>1. holds' \in [User -> Nat]
      /\ \A x : x # 0 => ((\E v \in User : holds'[v] = x)
                           <=> (x = 0 \/ \E v \in User \ {u} : holds[v] = x))
  BY <1>0, HeldAfter DEF NoRes
<1>2. \A x : x # 0 => ((\E v \in User : holds[v] = x)
                        <=> (x = holds[u] \/ \E v \in User \ {u} : holds[v] = x))
  BY <1>0
<1> QED  BY <1>0, <1>1, <1>2, HeldElements, HeldElementsNext

\* Put closes the session if the pool is closed, else it waits to send it
\* (stochastikPool.Put).
LEMMA PutKeeps ==
    ASSUME PoolTyped, SessionsKept, NEW u \in User, PoolPut(u)
    PROVE  PoolTyped' /\ SessionsKept'
<1>1. CASE poolClosed
  <2>1. holds' = [holds EXCEPT ![u] = NoRes] /\ holds[u] # NoRes
        /\ destroyed' = destroyed \cup {holds[u]}
        /\ pool' = pool /\ made' = made /\ poolReader' = poolReader
    BY <1>1 DEF PoolPut
  <2>2. /\ holds' \in [User -> Nat] /\ Held = Held' \cup {holds[u]}
    BY <2>1, GivenUp
  <2>3. PoolSet' = PoolSet
    BY <2>1 DEF PoolSet
  <2> QED  BY <2>1, <2>2, <2>3 DEF PoolTyped, SessionsKept
<1>2. CASE ~poolClosed
  BY <1>2 DEF PoolPut, PoolTyped, SessionsKept, PoolSet, Held
<1> QED  BY <1>1, <1>2

\* The send: a full pool closes the session instead.
LEMMA SendKeeps ==
    ASSUME PoolTyped, SessionsKept, NEW u \in User, PoolSend(u), holds[u] # NoRes
    PROVE  PoolTyped' /\ SessionsKept'
<1>0. holds' = [holds EXCEPT ![u] = NoRes] /\ made' = made /\ poolReader' = poolReader \ {u}
  BY DEF PoolSend
<1>1. /\ holds' \in [User -> Nat] /\ holds[u] \in Nat /\ Held = Held' \cup {holds[u]}
  BY <1>0, GivenUp
<1>2. CASE pool' = Append(pool, holds[u]) /\ destroyed' = destroyed
  <2>1. pool \in Seq(Nat)
    BY DEF PoolTyped
  <2>2. pool' \in Seq(Nat) /\ PoolSet' = PoolSet \cup {holds[u]}
    BY <1>1, <1>2, <2>1, QueueSend, SMTT(30) DEF PoolSet
  <2> QED  BY <1>0, <1>1, <1>2, <2>2 DEF PoolTyped, SessionsKept
<1>3. CASE destroyed' = destroyed \cup {holds[u]} /\ pool' = pool
  <2>3. PoolSet' = PoolSet
    BY <1>3 DEF PoolSet
  <2> QED  BY <1>0, <1>1, <1>3, <2>3 DEF PoolTyped, SessionsKept
<1> QED  BY <1>2, <1>3 DEF PoolSend

\* Close closes the idle sessions one by one.
LEMMA DrainKeeps ==
    ASSUME PoolTyped, SessionsKept, PoolDrain
    PROVE  PoolTyped' /\ SessionsKept'
<1>0. holds' = holds /\ made' = made /\ poolReader' = poolReader /\ Held' = Held
      /\ pool \in Seq(Nat)
  BY DEF PoolDrain, Held, PoolTyped
<1>1. CASE pool = <<>>
  BY <1>0, <1>1 DEF PoolDrain, PoolTyped, SessionsKept, PoolSet
<1>2. CASE pool # <<>>
  <2>1. destroyed' = destroyed \cup {Head(pool)} /\ pool' = Tail(pool)
    BY <1>2 DEF PoolDrain
  <2>2. Tail(pool) \in Seq(Nat) /\ PoolSet = PoolSet' \cup {Head(pool)}
    BY <1>0, <1>2, <2>1, QueueReceive DEF PoolSet
  <2> QED  BY <1>0, <2>1, <2>2 DEF PoolTyped, SessionsKept
<1> QED  BY <1>1, <1>2

\* The pool's flags follow the phase of Close, and no session is sent after the
\* write lock was taken (stochastikPool.Put and Close).
LEMMA StepKeepsPhases ==
    ASSUME PoolTyped, PoolPhases, [PetriNext]_petriVars
    PROVE  PoolPhases'
<1> USE DEF PoolPhases, BeforePoolClose, Drained, StartPhase
<1>1. CASE UNCHANGED petriVars
  BY <1>1 DEF petriVars
<1>2. CASE WorkerStep
  BY <1>2 DEF WorkerStep, Campaign, InfoSyncerExit, TopologyExit, SchemaLoopExit, PrivilegeExit,
              BindLoopExit, LoadStatsExit, AnalyzeExit, EvolveExit, TelemetryExit,
              UpdateStatsExit, LeaveOwner, LeaveOnly, Leave, poolVars
<1>3. CASE Init_ \/ Bootstrap
  BY <1>3 DEF Init_, Bootstrap, poolVars
<1>4. CASE SlowQueryLoopExit \/ PrivilegeRewatch \/ WatchBreaks \/ InfoSyncerRestart
  BY <1>4 DEF SlowQueryLoopExit, PrivilegeRewatch, WatchBreaks, InfoSyncerRestart, poolVars
<1>5. ASSUME NEW u \in User, PoolGet(u)
      PROVE  PoolPhases'
  BY <1>5 DEF PoolGet, PoolTyped
<1>6. ASSUME NEW u \in User, PoolPut(u)
      PROVE  PoolPhases'
  BY <1>6 DEF PoolPut, PoolTyped
<1>7. ASSUME NEW u \in User, PoolSend(u)
      PROVE  PoolPhases'
  BY <1>7 DEF PoolSend, PoolTyped
<1>8. CASE CloseInfo \/ CloseExit \/ CloseEtcd \/ PoolLock \/ CloseSlowQuery \/ CloseDone
  BY <1>8 DEF CloseInfo, CloseExit, CloseEtcd, PoolLock, CloseSlowQuery, CloseDone, poolVars
<1>9. CASE PoolClose \/ PoolDrain
  BY <1>9 DEF PoolClose, PoolDrain
<1> QED  BY <1>1, <1>2, <1>3, <1>4, <1>5, <1>6, <1>7, <1>8, <1>9 DEF PetriNext, CloseStep

\* No session is lost: every step leaves each one idle, borrowed or closed.
LEMMA StepKeepsSessions ==
    ASSUME PoolTyped, SessionsKept, PoolPhases, [PetriNext]_petriVars
    PROVE  PoolTyped' /\ SessionsKept'
<1>1. CASE UNCHANGED poolVars
  BY <1>1, PoolUnchangedKeeps
<1>2. CASE UNCHANGED petriVars
  BY <1>1, <1>2 DEF petriVars, poolVars
<1>3. CASE WorkerStep
  BY <1>1, <1>3 DEF WorkerStep, Campaign, InfoSyncerExit, TopologyExit, SchemaLoopExit,
              PrivilegeExit, BindLoopExit, LoadStatsExit, AnalyzeExit, EvolveExit, TelemetryExit,
              UpdateStatsExit, LeaveOwner, LeaveOnly, Leave
<1>4. CASE Init_ \/ Bootstrap \/ SlowQueryLoopExit \/ PrivilegeRewatch \/ WatchBreaks
             \/ InfoSyncerRestart
  BY <1>1, <1>4 DEF Init_, Bootstrap, SlowQueryLoopExit, PrivilegeRewatch, WatchBreaks,
              InfoSyncerRestart
<1>5. ASSUME NEW u \in User, PoolGet(u) \/ PoolPut(u) \/ PoolSend(u)
      PROVE  PoolTyped' /\ SessionsKept'
  BY <1>5, GetKeeps, PutKeeps, SendKeeps DEF PoolSend, PoolPhases
<1>6. CASE CloseInfo \/ CloseExit \/ CloseEtcd \/ PoolLock \/ CloseSlowQuery \/ CloseDone
  BY <1>1, <1>6 DEF CloseInfo, CloseExit, CloseEtcd, PoolLock, CloseSlowQuery, CloseDone
<1>7. CASE PoolClose
  BY <1>7 DEF PoolClose, PoolTyped, SessionsKept, Held, PoolSet
<1>8. CASE PoolDrain
  BY <1>8, DrainKeeps
<1> QED  BY <1>2, <1>3, <1>4, <1>5, <1>6, <1>7, <1>8 DEF PetriNext, CloseStep

\* A server that has not been started owns nothing.
LEMMA PetriInitInv == PetriInit => PetriInv
<1> SUFFICES ASSUME PetriInit PROVE PetriInv
  OBVIOUS
<1>1. PoolTyped /\ PoolSet = {} /\ Held = {}
  BY DEF PetriInit, PoolTyped, PoolSet, Held, NoRes
<1>2. SessionsKept
  BY <1>1 DEF PetriInit, SessionsKept
<1> QED  BY <1>1, <1>2
         DEF PetriInit, PetriInv, PoolPhases, WorkersOwn, BeforePoolClose, Drained, StartPhase

\* The invariant says that Close leaves nothing behind.
LEMMA PetriInvCloses == PetriInv => CloseLeavesNothing
<1> SUFFICES ASSUME PetriInv PROVE CloseLeavesNothing
  OBVIOUS
<1>1. poolReader # {} => ~poolChClosed
  BY DEF PetriInv, PoolPhases
<1>2. ASSUME phase = "closed"
      PROVE  owners = {} /\ ~statsUpdating
  <2>1. owners = {} /\ statsUpdating = FALSE
    BY <1>2 DEF PetriInv, WorkersOwn
  <2> QED  BY <2>1, Zenon
<1>3. ASSUME phase = "closed"
      PROVE  1 .. made = destroyed \cup Held
  <2>1. PoolSet = {}
    BY <1>3 DEF PetriInv, PoolPhases, Drained, PoolSet
  <2> QED  BY <2>1 DEF PetriInv, SessionsKept
<1> QED  BY <1>1, <1>2, <1>3 DEF CloseLeavesNothing, Held

\* Closing a server leaves nothing behind (Petri.Close, stochastikPool.Close):
\* for every configuration, wherever the bootstrap was, and whatever the
\* borrowers do meanwhile, no session goes into the closed pool, and when Close
\* has returned no campaign runs and every session is closed or still borrowed.
THEOREM CloseLeavesNothingHolds == PetriSpec => []CloseLeavesNothing
<1>1. PetriInv /\ [PetriNext]_petriVars => PetriInv'
  BY StepKeepsWorkers, StepKeepsPhases, StepKeepsSessions DEF PetriInv
<1> QED  BY <1>1, PetriInitInv, PetriInvCloses, PTL DEF PetriSpec

=============================================================================
