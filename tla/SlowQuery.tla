------------------------------ MODULE SlowQuery ------------------------------
(***************************************************************************)
(* The slow queries a server remembers: sessions log them through a        *)
(* bounded channel, one loop keeps the longest and the latest, clients ask *)
(* the loop through another channel, and closing the server closes the     *)
(* first channel.  A heap is the set of its queries: only its minimum is   *)
(* ever taken out, and a query's place in the array is never observed.     *)
(***************************************************************************)
EXTENDS Integers, FiniteSets, Sequences, SequencesExt

CONSTANTS
    Query,          \* the queries logged, each once
    Duration,       \* how long each took
    Start,          \* when each began
    Internal,       \* the queries of the server itself
    ShowClient,     \* the clients of ShowSlowQuery
    TopN, Period, QueueSize,
    ChCap, MsgCap,  \* the capacities of the two channels
    MaxClock        \* bound: the clock

ASSUME SlowAssumption ==
    /\ {TopN, Period} \subseteq Nat
    /\ Duration \in [Query -> Nat]
    /\ Start \in [Query -> Nat]

VARIABLES
    slowCh, chClosed,   \* the channel of queries
    closedFlag,         \* mu.closed
    logger,             \* where LogSlowQuery is with each query
    recent, heap,       \* what the loop keeps
    msgCh, client,      \* the requests and where each client is
    loopAlive, slowClock, lastExpiry,
    appended            \* what the loop has taken in so far

slowVars == <<slowCh, chClosed, closedFlag, logger, recent, heap, msgCh, client,
              loopAlive, slowClock, lastExpiry, appended>>

HeapOf(q) == IF q \in Internal THEN "internal" ELSE "user"
Kinds == {"user", "internal"}

SlowInit ==
    /\ slowCh = <<>> /\ chClosed = FALSE /\ closedFlag = FALSE
    /\ logger = [q \in Query |-> "new"]
    /\ recent = <<>> /\ heap = [h \in Kinds |-> {}]
    /\ msgCh = <<>>
    /\ client = [c \in ShowClient |-> [at |-> "idle", kind |-> "none", result |-> <<>>]]
    /\ loopAlive = TRUE /\ slowClock = 0 /\ lastExpiry = 0
    /\ appended = {}

-----------------------------------------------------------------------------
(* LogSlowQuery: the read lock is held from the test to the send. *)

LogEnter(q) ==
    /\ logger[q] = "new"
    /\ logger' = [logger EXCEPT ![q] = IF closedFlag THEN "done" ELSE "locked"]
    /\ UNCHANGED <<slowCh, chClosed, closedFlag, recent, heap, msgCh, client, loopAlive,
                   slowClock, lastExpiry, appended>>

\* A full channel drops the query.
LogSend(q) ==
    /\ logger[q] = "locked"
    /\ logger' = [logger EXCEPT ![q] = "done"]
    /\ slowCh' = IF Len(slowCh) < ChCap THEN Append(slowCh, q) ELSE slowCh
    /\ UNCHANGED <<chClosed, closedFlag, recent, heap, msgCh, client, loopAlive,
                   slowClock, lastExpiry, appended>>

-----------------------------------------------------------------------------
(* topNSlowQueryLoop. *)

EnqueueRecent(q) == LET s == Append(recent, q) IN IF Len(recent) < QueueSize THEN s ELSE Tail(s)

\* A query enters a heap that is not full, or in the place of a shortest one.
Shortest(S) == {x \in S : \A y \in S : Duration[x] <= Duration[y]}
\* Mutant: the shortest leaves for every newcomer.
HeapsAfterLatest(h, q) ==
    IF Cardinality(h) < TopN THEN {h \cup {q}} ELSE {(h \ {m}) \cup {q} : m \in Shortest(h)}

HeapsAfter(h, q) ==
    IF Cardinality(h) < TopN THEN {h \cup {q}}
    ELSE IF \A m \in Shortest(h) : Duration[q] > Duration[m]
         THEN {(h \ {m}) \cup {q} : m \in Shortest(h)}
         ELSE {h}

SlowAppend(q) ==
    /\ recent' = EnqueueRecent(q)
    /\ \E h \in HeapsAfter(heap[HeapOf(q)], q) : heap' = [heap EXCEPT ![HeapOf(q)] = h]
    /\ appended' = appended \cup {q}

LoopAppend ==
    /\ loopAlive /\ slowCh # <<>>
    /\ SlowAppend(Head(slowCh))
    /\ slowCh' = Tail(slowCh)
    /\ UNCHANGED <<chClosed, closedFlag, logger, msgCh, client, loopAlive, slowClock, lastExpiry>>

Unexpired(q, now) == Start[q] + Period > now

LoopRemoveExpired ==
    /\ loopAlive
    /\ heap' = [h \in Kinds |-> {q \in heap[h] : Unexpired(q, slowClock)}]
    /\ lastExpiry' = slowClock
    /\ UNCHANGED <<slowCh, chClosed, closedFlag, logger, recent, msgCh, client, loopAlive,
                   slowClock, appended>>

\* The longest first; queries of equal length in any order.
Ranked(S) == {s \in SetToSeqs(S) :
                 \A i, j \in DOMAIN s : i < j => Duration[s[i]] >= Duration[s[j]]}
TakeFirst(s, count) == SubSeq(s, 1, IF count < Len(s) THEN count ELSE Len(s))

QueryTop(count, kind) ==
    {TakeFirst(s, count) : s \in Ranked(IF kind = "all" THEN heap["user"] \cup heap["internal"]
                                        ELSE heap[kind])}
QueryRecent(count) == TakeFirst(Reverse(recent), count)

LoopAnswer ==
    /\ loopAlive /\ msgCh # <<>>
    /\ LET c == Head(msgCh)
           k == client[c].kind
           answers == IF k = "recent" THEN {QueryRecent(TopN)}
                      ELSE IF k = "everything" THEN {recent}
                      ELSE QueryTop(TopN, k)
       IN \E r \in answers : client' = [client EXCEPT ![c].at = "answered", ![c].result = r]
    /\ msgCh' = Tail(msgCh)
    /\ UNCHANGED <<slowCh, chClosed, closedFlag, logger, recent, heap, loopAlive, slowClock,
                   lastExpiry, appended>>

\* Mutant: an empty channel is taken for a closed one.
LoopEndOnEmpty ==
    /\ loopAlive /\ slowCh = <<>>
    /\ loopAlive' = FALSE
    /\ UNCHANGED <<slowCh, chClosed, closedFlag, logger, recent, heap, msgCh, client,
                   slowClock, lastExpiry, appended>>

\* A closed channel is drained before it reports that it is closed.
LoopEnd ==
    /\ loopAlive /\ chClosed /\ slowCh = <<>>
    /\ loopAlive' = FALSE
    /\ UNCHANGED <<slowCh, chClosed, closedFlag, logger, recent, heap, msgCh, client,
                   slowClock, lastExpiry, appended>>

-----------------------------------------------------------------------------
(* Clients, closing, time. *)

ShowSlowQuery(c, kind) ==
    /\ client[c].at = "idle" /\ Len(msgCh) < MsgCap
    /\ msgCh' = Append(msgCh, c)
    /\ client' = [client EXCEPT ![c].at = "waiting", ![c].kind = kind]
    /\ UNCHANGED <<slowCh, chClosed, closedFlag, logger, recent, heap, loopAlive, slowClock,
                   lastExpiry, appended>>

\* Close takes the write lock, so no sender is between its test and its send.
CloseFlag ==
    /\ ~closedFlag
    /\ \A q \in Query : logger[q] # "locked"
    /\ closedFlag' = TRUE
    /\ UNCHANGED <<slowCh, chClosed, logger, recent, heap, msgCh, client, loopAlive, slowClock,
                   lastExpiry, appended>>

CloseChannel ==
    /\ closedFlag /\ ~chClosed
    /\ chClosed' = TRUE
    /\ UNCHANGED <<slowCh, closedFlag, logger, recent, heap, msgCh, client, loopAlive, slowClock,
                   lastExpiry, appended>>

SlowTick ==
    /\ slowClock < MaxClock
    /\ slowClock' = slowClock + 1
    /\ UNCHANGED <<slowCh, chClosed, closedFlag, logger, recent, heap, msgCh, client, loopAlive,
                   lastExpiry, appended>>

SlowNext ==
    \/ \E q \in Query : LogEnter(q) \/ LogSend(q)
    \/ LoopAppend \/ LoopRemoveExpired \/ LoopAnswer \/ LoopEnd
    \/ \E c \in ShowClient, k \in {"user", "all", "recent", "everything"} : ShowSlowQuery(c, k)
    \/ CloseFlag \/ CloseChannel \/ SlowTick

SlowSpec == SlowInit /\ [][SlowNext]_slowVars

\* The loop runs as long as one of its cases is ready, and Go's select picks
\* every ready case again and again.
SlowFairness ==
    /\ WF_slowVars(LoopAnswer) /\ WF_slowVars(LoopAppend) /\ WF_slowVars(LoopEnd)
    /\ WF_slowVars(\E q \in Query : LogSend(q))

-----------------------------------------------------------------------------
(* Properties. *)

\* Nobody sends on the closed channel (the server would panic): a session that
\* found the flag clear sends before Close can close the channel.  And what the
\* loop forgot it was right to forget: a query missing from its heap has
\* expired or was beaten by TopN queries that took at least as long.
SlowQueriesKept ==
    /\ \A q \in Query : logger[q] = "locked" => ~chClosed
    /\ \A q \in appended :
         \/ q \in heap[HeapOf(q)]
         \/ ~Unexpired(q, lastExpiry)
         \/ Cardinality({p \in appended \ {q} :
                           HeapOf(p) = HeapOf(q) /\ Duration[p] >= Duration[q]}) >= TopN

\* While the server is not closed, every client of ShowSlowQuery gets its
\* answer, whatever else the loop is busy with.
ShowAnswered ==
    \A c \in ShowClient :
        (client[c].at = "waiting") ~> (client[c].at = "answered" \/ closedFlag)

=============================================================================
