---------------------------- MODULE Coprocessor ----------------------------
(***************************************************************************)
(* The executors that both mock stores push queries down to.               *)
(*                                                                         *)
(* mockeinsteindb builds a chain of executors that pull rows from a scan   *)
(* (interlocking_directorate.go, aggregate.go, topn.go) and answers either *)
(* with one response (handleCoFIDelAGRequest) or with a stream of chunks   *)
(* (mockINTERLOCKStreamClient).  entangledstore pushes every key of the    *)
(* ranges through one processor (closure_exec.go, analyze.go).             *)
(*                                                                         *)
(* A key is a natural number and stands for its row; PrefixNext(k) is      *)
(* k + 1 and a range is a pair <<start, end>>.  What a row holds is given  *)
(* by Grp (the GROUP BY column), ColVal (the column that is counted and    *)
(* ordered by, 0 is NULL) and Passing (the rows the selection keeps).      *)
(* coData are the keys with a version visible at the request's start       *)
(* timestamp, coLocked those with a lock that blocks it.  Resolving a lock *)
(* commits its key below that timestamp or not at all.                     *)
(***************************************************************************)
EXTENDS Naturals, FiniteSets, Sequences, SequencesExt

CONSTANTS CoKey,        \* the keys, positive naturals
          Grp, ColVal,  \* [CoKey -> Nat]: columns of the row of a key
          Passing,      \* SUBSET CoKey: rows the selection keeps
          CoRequest,    \* the requests a client sends
          CoStores,     \* initial contents, pairs <<data, locked>>
          RowsPerChunk, \* rowsPerChunk, 64 in the code
          AnalyzeCap    \* rows of an analyze chunk, 1024 in the code

VARIABLES coData, coLocked, coReq, coExec, coStatus, coResps, coEver

coVars == <<coData, coLocked, coReq, coExec, coStatus, coResps, coEver>>

NoKey == 0      \* a nil seekKey
NoGroup == 0    \* the group key when there is no GROUP BY

CoMin(a, b) == IF a < b THEN a ELSE b
CoMax(a, b) == IF a < b THEN b ELSE a

-----------------------------------------------------------------------------
(* Ranges of a request *)

BeyondRegion(q, i) ==
  /\ q.ranges[i][1] < q.ranges[i][2]
  /\ q.ranges[i][2] > q.lo
  /\ q.hi # 0 /\ q.ranges[i][1] >= q.hi

\* The ranges the loop of extractKVRanges looks at: it breaks at the first
\* one that starts behind the region.
LookedAt(q) ==
  {i \in DOMAIN q.ranges : \A j \in 1..(i - 1) : ~BeyondRegion(q, j)}

InvalidRange(q) ==
  \E i \in LookedAt(q) : q.ranges[i][1] >= q.ranges[i][2]

Clip(q, ran) ==
  <<CoMax(ran[1], q.lo), IF q.hi = 0 THEN ran[2] ELSE CoMin(ran[2], q.hi)>>

\* extractKVRanges: clipped to the region, in scan order.
KvRanges(q) ==
  LET kept == {i \in LookedAt(q) : q.ranges[i][2] > q.lo /\ ~BeyondRegion(q, i)}
      asc == [n \in 1..Cardinality(kept) |->
                Clip(q, q.ranges[CHOOSE i \in kept :
                        Cardinality({j \in kept : j <= i}) = n])]
  IN  IF q.desc THEN Reverse(asc) ELSE asc

IsPoint(q, ran) == q.unique /\ ran[2] = ran[1] + 1

-----------------------------------------------------------------------------
(* Rows through the executors above the scan *)

\* A fresh chain of executors over the ranges kv.
NewExec(kv) ==
  [kv |-> kv, cursor |-> 1, seek |-> NoKey, start |-> 1,
   counts |-> [i \in DOMAIN kv |-> 0],
   lim |-> 0, heap |-> {}, groups |-> <<>>,
   aggN |-> 0, currG |-> NoGroup, nextG |-> NoGroup, hasData |-> FALSE,
   rows |-> <<>>, before |-> NoKey, reading |-> FALSE, eof |-> FALSE,
   finished |-> FALSE]

Selected(q, k) == q.sel => k \in Passing
GroupKey(q, k) == IF q.grouped THEN Grp[k] ELSE NoGroup
Counted(k) == IF ColVal[k] = 0 THEN 0 ELSE 1

\* Mutant of TryToAddRow: a full heap refuses every row.
KeepFirstRows(h, n, k) == IF Cardinality(h) < n THEN {h \cup {k}} ELSE {h}

\* tryToAddRow: a full heap gives up its root, one of the largest rows, for a
\* row that is less.  Which of several largest rows is the root depends on the
\* history of the heap.
TryToAddRow(h, n, k) ==
  IF Cardinality(h) < n THEN {h \cup {k}}
  ELSE LET largest == {r \in h : \A o \in h : ColVal[o] <= ColVal[r]}
           roots == {r \in largest : ColVal[k] < ColVal[r]}
       IN  IF roots = {} THEN {h} ELSE {(h \ {r}) \cup {k} : r \in roots}

\* sort.Sort by topNSorter.Less, which leaves equal rows in any order.
SortedRows(h) ==
  {s \in SetToSeqs(h) :
     \A i, j \in DOMAIN s : i < j => ColVal[s[i]] <= ColVal[s[j]]}

\* hashAggExec.aggregate: groups in the order in which they are first seen.
Aggregate(groups, g, n) ==
  IF \E i \in DOMAIN groups : groups[i][1] = g
  THEN [i \in DOMAIN groups |->
          IF groups[i][1] = g THEN <<g, groups[i][2] + n>> ELSE groups[i]]
  ELSE Append(groups, <<g, n>>)

\* streamAggExec.getPartialResult: emit the group and start the next one.
PartialResult(x) ==
  [x EXCEPT !.rows = Append(@, <<x.currG, x.aggN>>), !.aggN = 0,
            !.currG = x.nextG]

\* One round of streamAggExec.Next with meetNewGroup.
StreamAgg(q, x, k) ==
  LET g == GroupKey(q, k)
      first == q.grouped /\ x.nextG = NoGroup
      new == q.grouped /\ ~first /\ x.nextG # g
      y == [x EXCEPT !.hasData = TRUE, !.nextG = g,
                     !.currG = IF first THEN g ELSE @]
      z == IF new THEN PartialResult(y) ELSE y
  IN  [z EXCEPT !.aggN = @ + Counted(k)]

LimitNext(x, k) == [x EXCEPT !.rows = Append(@, k), !.lim = @ + 1]

\* topNExec reads everything before it returns its first row.
TopNInnerNext(q, x, k) == {[x EXCEPT !.heap = h] : h \in TryToAddRow(x.heap, q.n, k)}

HashAggNext(q, x, k) == [x EXCEPT !.groups = Aggregate(@, GroupKey(q, k), Counted(k))]

\* A row that leaves the scan goes through selectionExec and the executor above.
Deliver(q, x, k) ==
  IF ~Selected(q, k) THEN {x}
  ELSE CASE q.top \in {"scan", "analyze"} -> {[x EXCEPT !.rows = Append(@, k)]}
         [] q.top = "limit" -> {LimitNext(x, k)}
         [] q.top = "topN" -> TopNInnerNext(q, x, k)
         [] q.top = "hashAgg" -> {HashAggNext(q, x, k)}
         [] q.top = "streamAgg" -> {StreamAgg(q, x, k)}

\* The root's Next returns nil: what is left in the executors is the answer.
Drain(q, x) ==
  CASE q.top = "topN" -> {[x EXCEPT !.rows = s] : s \in SortedRows(x.heap)}
    [] q.top = "hashAgg" -> {[x EXCEPT !.rows = x.groups]}
    [] q.top = "streamAgg" ->
         {IF q.grouped /\ ~x.hasData THEN x ELSE PartialResult(x)}
    [] OTHER -> {x}

-----------------------------------------------------------------------------
(* The scan at the bottom: blockScanExec and indexScanExec *)

\* getRowFromRange sets a nil seekKey to the end the scan starts from.
SeekFrom(q, x) ==
  LET ran == x.kv[x.cursor]
  IN  IF x.seek # NoKey THEN x.seek ELSE IF q.desc THEN ran[2] ELSE ran[1]

\* The first key Scan or ReverseScan meets between the seek key and the end.
FirstOf(q, x, keys) ==
  LET ran == x.kv[x.cursor]
      from == SeekFrom(q, x)
      in == {k \in keys : IF q.desc THEN ran[1] <= k /\ k < from
                                    ELSE from <= k /\ k < ran[2]}
  IN  IF in = {} THEN NoKey
      ELSE CHOOSE k \in in : \A o \in in : IF q.desc THEN o <= k ELSE k <= o

SeekAfter(q, k) == IF q.desc THEN k ELSE k + 1

NextRange(x) == [x EXCEPT !.cursor = @ + 1, !.seek = NoKey]

\* Cursor: the boundary between what was read and what was not.
Cursor(q, x) ==
  LET len == Len(x.kv)
      ran == x.kv[IF x.cursor <= len THEN x.cursor ELSE len]
  IN  CASE x.seek # NoKey -> x.seek
        [] x.seek = NoKey /\ x.cursor <= len ->
             IF q.desc /\ ~IsPoint(q, ran) THEN ran[2] ELSE ran[1]
        [] OTHER -> IF q.desc THEN ran[1] ELSE ran[2]

\* Counts: the counters since ResetCounts.
CountsOf(x) ==
  SubSeq(x.counts, x.start, IF x.seek = NoKey THEN x.cursor - 1 ELSE x.cursor)

CoSum(s) == FoldLeft(LAMBDA a, b : a + b, 0, s)

-----------------------------------------------------------------------------
(* A request is built *)

CoInit ==
  /\ \E st \in CoStores : coData = st[1] /\ coLocked = st[2] /\ coEver = st[2]
  /\ coReq \in CoRequest
  /\ coExec = NewExec(<<>>)
  /\ coStatus = "idle"
  /\ coResps = <<>>

\* A request of one of the engines is built; answer is the status when the
\* request has no ranges, broken the one when a range is invalid.
Build(kv, answer, broken, started) ==
  /\ coStatus = "idle"
  /\ coExec' = NewExec(IF InvalidRange(coReq) THEN <<>> ELSE kv)
  /\ coStatus' = CASE coReq.ranges = <<>> -> answer
                   [] coReq.ranges # <<>> /\ InvalidRange(coReq) -> broken
                   [] OTHER -> started
  /\ UNCHANGED <<coData, coLocked, coReq, coResps, coEver>>

\* handleCoFIDelAGRequest: buildPosetDagExecutor, then rows until nil.
BuildPull ==
  /\ coReq.engine = "unary" /\ coReq.top # "analyze"
  /\ Build(KvRanges(coReq), "error", "error", "pull")

\* handleINTERLOCKStream.  Only executors with a Cursor can be streamed.
BuildStream ==
  /\ coReq.engine = "stream" /\ coReq.top \in {"scan", "limit"}
  /\ Build(KvRanges(coReq), "error", "error", "recv")

\* The analyze handlers of mockeinsteindb.  They return a nil response with
\* their errors, and the caller dereferences it.
BuildAnalyzeIndex ==
  /\ coReq.engine = "unary" /\ coReq.top = "analyze" /\ ~coReq.unique
  /\ Build(KvRanges(coReq), "done", "panic", "pull")

BuildAnalyzeColumns ==
  /\ coReq.engine = "unary" /\ coReq.top = "analyze" /\ coReq.unique
  /\ Build(KvRanges(coReq), "done", "panic", "pull")

\* The entangled store's own extractKVRanges is the same loop.
ClosureRanges(q) == KvRanges(q)

\* handleCoFIDelAGRequest of the entangled store.
BuildClosure ==
  /\ coReq.engine = "closure" /\ coReq.top # "analyze"
  /\ Build(ClosureRanges(coReq), "error", "error", "checking")

\* handleINTERLOCKAnalyzeRequest of the entangled store asserts that some
\* range is left.
BuildClosureAnalyze ==
  /\ coReq.engine = "closure" /\ coReq.top = "analyze"
  /\ Build(ClosureRanges(coReq), "done", "error",
           IF ClosureRanges(coReq) = <<>> THEN "panic" ELSE "analyze")

-----------------------------------------------------------------------------
(* The pull engine: one read of the store per step *)

\* Next of the root returns nil without reading: limitExec is at its limit or
\* the scan is behind its last range.
PullEnds(q, x) ==
  \/ q.top = "limit" /\ x.lim >= q.n
  \/ x.cursor > Len(x.kv)

\* A chunk of the stream still takes rows.
Wanted ==
  \/ coStatus = "pull"
  \/ coStatus = "recv" /\ coExec.reading /\ ~coExec.eof
                       /\ Len(coExec.rows) < RowsPerChunk

\* A lock met by a read ends the request; an analysis does not survive it, and
\* a stream still answers.
Blocked == CASE coReq.top = "analyze" -> "panic"
             [] coReq.engine = "stream" -> "recvLocked"
             [] OTHER -> "locked"

\* getRowFromPoint and the branch of Next that calls it.
PullPoint ==
  /\ Wanted /\ ~PullEnds(coReq, coExec)
  /\ IsPoint(coReq, coExec.kv[coExec.cursor])
  /\ LET k == coExec.kv[coExec.cursor][1]
         past == [coExec EXCEPT !.cursor = @ + 1]
         counted == [past EXCEPT !.counts[coExec.cursor] = @ + 1]
     IN  IF k \in coLocked
         THEN coStatus' = Blocked /\ UNCHANGED coExec
         ELSE /\ coExec' \in IF k \in coData THEN Deliver(coReq, counted, k)
                                             ELSE {past}
              /\ UNCHANGED coStatus
  /\ UNCHANGED <<coData, coLocked, coReq, coResps, coEver>>

\* getRowFromRange and the branch of Next that calls it.
PullRange ==
  /\ Wanted /\ ~PullEnds(coReq, coExec)
  /\ ~IsPoint(coReq, coExec.kv[coExec.cursor])
  /\ LET k == FirstOf(coReq, coExec, coData \cup coLocked)
         at == [coExec EXCEPT !.seek = SeekFrom(coReq, coExec)]
         read == [coExec EXCEPT !.seek = SeekAfter(coReq, k),
                                !.counts[coExec.cursor] = @ + 1]
     IN  IF k # NoKey /\ k \in coLocked
         THEN coStatus' = Blocked /\ coExec' = at
         ELSE /\ coExec' \in IF k = NoKey THEN {NextRange(coExec)}
                                          ELSE Deliver(coReq, read, k)
              /\ UNCHANGED coStatus
  /\ UNCHANGED <<coData, coLocked, coReq, coResps, coEver>>

\* The root is exhausted.
PullEnd ==
  /\ Wanted /\ PullEnds(coReq, coExec)
  /\ IF coStatus = "pull"
     THEN /\ coExec' \in Drain(coReq, coExec)
          /\ coStatus' = "done"
     ELSE /\ coExec' = [coExec EXCEPT !.eof = TRUE]
          /\ UNCHANGED coStatus
  /\ UNCHANGED <<coData, coLocked, coReq, coResps, coEver>>

-----------------------------------------------------------------------------
(* The stream: Recv and readBlockFromExecutor *)

\* Recv begins: EOF after the last chunk, otherwise ResetCounts and Cursor.
\* Both index a slice that may be too short.
RecvBegin ==
  /\ coStatus = "recv" /\ ~coExec.reading
  /\ LET x == coExec IN
     IF x.finished
     THEN coStatus' = "done" /\ UNCHANGED coExec
     ELSE IF x.kv = <<>> \/ (coReq.counts /\ x.cursor > Len(x.kv))
     THEN coStatus' = "panic" /\ UNCHANGED coExec
     ELSE /\ coExec' = [x EXCEPT !.reading = TRUE, !.rows = <<>>,
                          !.before = Cursor(coReq, x), !.start = x.cursor,
                          !.counts = IF x.cursor <= Len(x.kv)
                                     THEN [@ EXCEPT ![x.cursor] = 0] ELSE @]
          /\ UNCHANGED coStatus
  /\ UNCHANGED <<coData, coLocked, coReq, coResps, coEver>>

\* What Recv returns.  (points is for the properties.)
Response(ran, rows, counts, locked) ==
  [range |-> ran, rows |-> rows, counts |-> counts, locked |-> locked,
   points |-> \E i \in DOMAIN coExec.kv : IsPoint(coReq, coExec.kv[i])]

\* Recv returns a chunk with the range it covers.
RecvEnd ==
  /\ coStatus = "recv" /\ coExec.reading
  /\ coExec.eof \/ Len(coExec.rows) >= RowsPerChunk
  /\ LET x == coExec
         after == Cursor(coReq, x)
         ran == IF coReq.desc THEN <<after, x.before>> ELSE <<x.before, after>>
     IN  /\ coResps' = Append(coResps, Response(ran, x.rows, CountsOf(x), FALSE))
         /\ coExec' = [x EXCEPT !.reading = FALSE, !.finished = x.eof]
  /\ UNCHANGED <<coData, coLocked, coReq, coStatus, coEver>>

\* Recv returns the lock a read has met.  The rows of the chunk it had begun are
\* dropped, but the range goes from its start to the cursor, in the order of the
\* scan even when that descends.
RecvLocked ==
  /\ coStatus = "recvLocked"
  /\ coResps' = Append(coResps,
       Response(<<coExec.before, Cursor(coReq, coExec)>>, <<>>, <<>>, TRUE))
  /\ coStatus' = "locked"
  /\ UNCHANGED <<coData, coLocked, coReq, coExec, coEver>>

-----------------------------------------------------------------------------
(* The closure engine *)

\* checkRangeLock looks at every range before any row is read.
CheckRangeLock ==
  /\ coStatus = "checking"
  /\ coStatus' =
       IF \E i \in DOMAIN coExec.kv :
            \E k \in coLocked : coExec.kv[i][1] <= k /\ k < coExec.kv[i][2]
       THEN "locked" ELSE "closure"
  /\ UNCHANGED <<coData, coLocked, coReq, coExec, coResps, coEver>>

\* tryBuildCountProcessor: a lone COUNT without GROUP BY over a bare scan.
CountProcessor(q) == q.top = "streamAgg" /\ ~q.sel /\ ~q.grouped

\* ce.limit; without a LIMIT it is the largest integer.
LimitOf(q) == IF q.top = "limit" THEN q.n ELSE Cardinality(CoKey) + 1

\* The processor returns ScanBreak.  x.lim is closureExecutor.rowCount.
ScanBreak(q, x) == q.top \in {"scan", "limit"} /\ x.lim = LimitOf(q)

\* processSelection drops the row from the chunk again when a condition fails.
ClosureSelected(q, k) == q.sel => k \in Passing

\* blockScanProcessor, indexScanProcessor and selectionProcessor.
ScanProcess(q, x, k) ==
  IF ClosureSelected(q, k)
  THEN {[x EXCEPT !.rows = Append(@, k), !.lim = @ + 1]} ELSE {x}

\* countStarProcessor and countDeferredCausetProcessor.
CountProcess(x, k) == {[x EXCEPT !.lim = @ + Counted(k)]}

\* The entangled store's copy of the heap.
ClosureTryToAddRow(h, n, k) == TryToAddRow(h, n, k)

TopNProcess(q, x, k) ==
  IF ClosureSelected(q, k)
  THEN {[x EXCEPT !.heap = h] : h \in ClosureTryToAddRow(x.heap, q.n, k)}
  ELSE {x}

HashAggProcess(q, x, k) ==
  IF ClosureSelected(q, k)
  THEN {[x EXCEPT !.groups = Aggregate(@, GroupKey(q, k), Counted(k))]}
  ELSE {x}

\* buildClosureExecutor chooses the processor.
Process(q, x, k) ==
  CASE CountProcessor(q) -> CountProcess(x, k)
    [] q.top \in {"scan", "limit"} -> ScanProcess(q, x, k)
    [] q.top = "topN" -> TopNProcess(q, x, k)
    [] OTHER -> HashAggProcess(q, x, k)

\* The processors' Finish.
Finish(q, x) ==
  CASE CountProcessor(q) -> {[x EXCEPT !.rows = <<<<NoGroup, x.lim>>>>]}
    [] q.top = "topN" -> {[x EXCEPT !.rows = s] : s \in SortedRows(x.heap)}
    [] ~CountProcessor(q) /\ q.top \in {"hashAgg", "streamAgg"} ->
         {[x EXCEPT !.rows = x.groups]}
    [] OTHER -> {x}

\* The point branch of execute.  A missing key skips the test of the limit;
\* ScanBreak out of a point ends the request with an error.
ClosurePoint ==
  /\ coStatus = "closure" /\ coExec.cursor <= Len(coExec.kv)
  /\ IsPoint(coReq, coExec.kv[coExec.cursor])
  /\ LET x == coExec
         k == x.kv[x.cursor][1]
         hit == [x EXCEPT !.counts[x.cursor] = @ + 1]
     IN  IF k \notin coData
         THEN coExec' = NextRange(x) /\ UNCHANGED coStatus
         ELSE IF ScanBreak(coReq, x)
         THEN coStatus' = "error" /\ UNCHANGED coExec
         ELSE \E y \in Process(coReq, hit, k) :
                IF y.lim = LimitOf(coReq)
                THEN /\ coExec' \in Finish(coReq, NextRange(y))
                     /\ coStatus' = "done"
                ELSE coExec' = NextRange(y) /\ UNCHANGED coStatus
  /\ UNCHANGED <<coData, coLocked, coReq, coResps, coEver>>

\* One call of Process by dbReader.Scan or ReverseScan, or the end of its
\* range.
ClosureRange ==
  /\ coStatus = "closure" /\ coExec.cursor <= Len(coExec.kv)
  /\ ~IsPoint(coReq, coExec.kv[coExec.cursor])
  /\ LET x == coExec
         k == FirstOf(coReq, x, coData)
         seen == [x EXCEPT !.seek = SeekAfter(coReq, k)]
     IN  IF k = NoKey \/ ScanBreak(coReq, x)
         THEN IF x.lim = LimitOf(coReq)
              THEN coExec' \in Finish(coReq, x) /\ coStatus' = "done"
              ELSE coExec' = NextRange(x) /\ UNCHANGED coStatus
         ELSE \E y \in Process(coReq, seen, k) :
                /\ coExec' = [y EXCEPT !.counts[x.cursor] = @ + (y.lim - x.lim)]
                /\ UNCHANGED coStatus
  /\ UNCHANGED <<coData, coLocked, coReq, coResps, coEver>>

\* execute has been through all ranges.
ClosureEnd ==
  /\ coStatus = "closure" /\ coExec.cursor > Len(coExec.kv)
  /\ coExec' \in Finish(coReq, coExec)
  /\ coStatus' = "done"
  /\ UNCHANGED <<coData, coLocked, coReq, coResps, coEver>>

\* analyze.go of the closure engine: the index and common handle analyses
\* scan every range with a processor and look at no lock.
ClosureAnalyzeIndex ==
  /\ coStatus = "analyze" /\ ~coReq.unique
  /\ LET x == coExec IN
     IF x.cursor > Len(x.kv)
     THEN coStatus' = "done" /\ UNCHANGED coExec
     ELSE LET k == FirstOf(coReq, x, coData)
          IN  /\ coExec' = IF k = NoKey THEN NextRange(x)
                           ELSE [x EXCEPT !.seek = SeekAfter(coReq, k),
                                          !.rows = Append(@, k)]
              /\ UNCHANGED coStatus
  /\ UNCHANGED <<coData, coLocked, coReq, coResps, coEver>>

\* analyzeDeferredCausetsExec.Next: a chunk from the current range; the sample
\* builder stops at the first empty chunk.
ClosureAnalyzeColumns ==
  /\ coStatus = "analyze" /\ coReq.unique
  /\ LET x == coExec
         ran == x.kv[x.cursor]
         from == SeekFrom(coReq, x)
         keys == SetToSortSeq({k \in coData : from <= k /\ k < ran[2]}, <)
         chunk == SubSeq(keys, 1, CoMin(Len(keys), AnalyzeCap))
         last == x.cursor = Len(x.kv)
     IN  /\ coExec' =
              IF Len(chunk) < AnalyzeCap
              THEN [x EXCEPT !.rows = @ \o chunk,
                             !.cursor = IF last THEN @ ELSE @ + 1,
                             !.seek = IF last THEN ran[2] ELSE NoKey]
              ELSE [x EXCEPT !.rows = @ \o chunk,
                             !.seek = chunk[Len(chunk)] + 1]
         /\ coStatus' = IF chunk = <<>> THEN "done" ELSE coStatus
  /\ UNCHANGED <<coData, coLocked, coReq, coResps, coEver>>

-----------------------------------------------------------------------------
(* The client and the writers it meets *)

\* A writer's lock is resolved; its key commits below the request's start
\* timestamp or keeps what it had.
ResolveCoLock ==
  \E k \in coLocked :
    /\ coLocked' = coLocked \ {k}
    /\ coData' \in {coData, coData \cup {k}, coData \ {k}}
    /\ UNCHANGED <<coReq, coExec, coStatus, coResps, coEver>>

\* The responses of a stream that carry a chunk.
Chunks(resps) == SelectSeq(resps, LAMBDA r : ~r.locked)

\* What a stream has not covered yet, from the range of its last chunk.  The
\* range of a response with a lock must not be used: rows in it were dropped.
Remaining(q, resps) ==
  IF Chunks(resps) = <<>> THEN q.ranges
  ELSE LET last == Chunks(resps)[Len(Chunks(resps))].range
           cut == [i \in DOMAIN q.ranges |->
                     IF q.desc
                     THEN <<q.ranges[i][1], CoMin(q.ranges[i][2], last[1])>>
                     ELSE <<CoMax(q.ranges[i][1], last[2]), q.ranges[i][2]>>]
       IN  SelectSeq(cut, LAMBDA ran : ran[1] < ran[2])

\* The client sends the request again once the locks it met are gone: a stream
\* with the ranges that remain, anything else as a whole.
CoRetry ==
  /\ coStatus = "locked" /\ coLocked = {}
  /\ LET left == Remaining(coReq, coResps)
         q == [coReq EXCEPT !.ranges = left]
     IN  IF coReq.engine # "stream"
         THEN coStatus' = "idle" /\ UNCHANGED coExec
         ELSE IF left = <<>>
         THEN coStatus' = "done" /\ UNCHANGED coExec
         ELSE /\ coExec' = NewExec(KvRanges(q))
              /\ coStatus' = "recv"
  /\ UNCHANGED <<coData, coLocked, coReq, coResps, coEver>>

CoNext ==
  \/ BuildPull \/ BuildStream \/ BuildAnalyzeIndex \/ BuildAnalyzeColumns
  \/ BuildClosure \/ BuildClosureAnalyze
  \/ PullPoint \/ PullRange \/ PullEnd
  \/ RecvBegin \/ RecvEnd \/ RecvLocked
  \/ CheckRangeLock \/ ClosurePoint \/ ClosureRange \/ ClosureEnd
  \/ ClosureAnalyzeIndex \/ ClosureAnalyzeColumns
  \/ ResolveCoLock \/ CoRetry

CoSpec == CoInit /\ [][CoNext]_coVars

-----------------------------------------------------------------------------
(* What the answers have to be *)

\* The rows the request is about, straight from its ranges.
WantedKeys(q, data) ==
  {k \in data : /\ \E i \in DOMAIN q.ranges :
                     q.ranges[i][1] <= k /\ k < q.ranges[i][2]
                /\ q.lo <= k /\ (q.hi = 0 \/ k < q.hi)}

InScanOrder(q, keys) ==
  SetToSortSeq(keys, LAMBDA a, b : IF q.desc THEN a > b ELSE a < b)

WantedRows(q) ==
  InScanOrder(q, {k \in WantedKeys(q, coData) : Selected(q, k)})

\* Partial results of an aggregation add up to the counts per group.
PartialsAdd(q, rows, all) ==
  \A g \in {rows[i][1] : i \in DOMAIN rows} \cup {GroupKey(q, k) : k \in all} :
    CoSum([i \in DOMAIN rows |-> IF rows[i][1] = g THEN rows[i][2] ELSE 0]) =
    Cardinality({k \in all : GroupKey(q, k) = g /\ ColVal[k] # 0})

TopNCorrect(q, rows, all) ==
  /\ Len(rows) = CoMin(q.n, Cardinality(all))
  /\ ToSet(rows) \subseteq all /\ Cardinality(ToSet(rows)) = Len(rows)
  /\ \A i, j \in DOMAIN rows : i < j => ColVal[rows[i]] <= ColVal[rows[j]]
  /\ \A i \in DOMAIN rows, k \in all \ ToSet(rows) : ColVal[rows[i]] <= ColVal[k]

\* Ranges whose number of rows fills analyze chunks exactly, the empty ones
\* included, end the closure engine's column analysis before the last range.
EarlyAnalyzeEnd(q) ==
  /\ q.engine = "closure" /\ q.unique
  /\ \E i \in 1..(Len(KvRanges(q)) - 1), late \in SUBSET coEver :
       Cardinality({k \in (coData \ coEver) \cup late :
          KvRanges(q)[i][1] <= k /\ k < KvRanges(q)[i][2]}) % AnalyzeCap = 0

\* Analyses of the closure engine may read a locked key before or after its
\* lock is resolved.
Settled(rows) == SelectSeq(rows, LAMBDA k : k \notin coEver)

\* A descending stream over points hands out the position in front of an
\* unread point as if the point had been read.
DescPoints == coReq.desc /\ \E i \in DOMAIN coResps : coResps[i].points

Streamed == FoldLeft(LAMBDA a, r : a \o r.rows, <<>>, coResps)

\* What a finished request answered.
AnswerExact ==
  coStatus = "done" =>
    LET q == coReq
        all == WantedRows(q)
        rows == coExec.rows
    IN  CASE q.engine = "stream" ->
               DescPoints \/
               /\ IsPrefix(Streamed, all)
               /\ Len(Streamed) >=
                    CoMin(Len(all), IF q.top = "limit" THEN q.n ELSE Len(all))
          [] q.engine # "stream" /\ q.top = "scan" -> rows = all
          [] q.engine # "stream" /\ q.top = "analyze" ->
               EarlyAnalyzeEnd(q) \/ Settled(rows) = Settled(all)
          [] q.engine # "stream" /\ q.top = "limit" ->
               rows = SubSeq(all, 1, CoMin(q.n, Len(all)))
          [] q.engine # "stream" /\ q.top = "topN" ->
               TopNCorrect(q, rows, ToSet(all))
          [] OTHER -> PartialsAdd(q, rows, ToSet(all))

\* A chunk of a stream carries exactly the selected rows of the key range it
\* reports, and its counts add up to the rows scanned there: a client may
\* resume from the reported range (Recv, Cursor and Counts).  A response with a
\* lock is no chunk; the last chunk before it is what a client resumes from.
ChunkRangeExact ==
  DescPoints \/
  \A i \in DOMAIN Chunks(coResps) :
    LET r == Chunks(coResps)[i]
        scanned == {k \in WantedKeys(coReq, coData) :
                      r.range[1] <= k /\ k < r.range[2]}
    IN  /\ r.rows = InScanOrder(coReq, {k \in scanned : Selected(coReq, k)})
        /\ coReq.counts => CoSum(r.counts) = Cardinality(scanned)

\* Every engine answers a request with exactly the rows its ranges select in
\* the snapshot: each once, in scan order, cut by LIMIT, ranked by TopN or
\* counted per group, whatever locks were met and resolved on the way and, for
\* a stream, however it was interrupted and resumed from its last chunk
\* (interlocking_handler_dag.go, closure_exec.go, analyze.go); and every chunk of
\* a stream is exact for the range it reports.
CoAnswerExact == AnswerExact /\ ChunkRangeExact

=============================================================================
