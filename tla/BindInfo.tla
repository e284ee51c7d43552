------------------------------ MODULE BindInfo ------------------------------
(***************************************************************************)
(* The plan bindings of one statement: the table bind_info that all        *)
(* servers share, the cache each server's BindHandle keeps of it, and the  *)
(* operations that change both.  A binding is a SQL text; the hint string  *)
(* that serves as its ID is a function of the text.  A transaction reads   *)
(* the table as of its start and fails when a row it writes has changed    *)
(* since.  Rows that a load orders by time and that have the same time     *)
(* come in the order in which they were inserted.                          *)
(***************************************************************************)
EXTENDS Integers, FiniteSets, Sequences, SequencesExt

CONSTANTS
    BindServer,     \* the servers
    BindSQL,        \* the bindings one can create
    HintOf,         \* the ID of each
    Fragile,        \* those whose hints a change of the schema can spoil
    Loader,         \* the goroutines of a server that load the cache
    MaxBindTxns, MaxLoads   \* bounds

VARIABLES
    bindRows,       \* the table: [row, sql, status, upd]
    nextRow, bindClock,
    bcache,         \* per server: the record's bindings, a sequence
    lastUpdate,     \* per server: lastUFIDelateTime
    bindTxn,        \* per server: the transaction that holds sctx
    todo,           \* per server: committed changes not yet in the cache
    load,           \* per server and loader: where UFIDelate is
    invalidMap, pendingMap, \* per server: [b, flushed]
    evolve,         \* per server: the job HandleEvolvePlanTask works on
    adding,         \* per server: an AddBindRecord that waits for sctx
    sessionCache,   \* the record of a session's own handle, if any
    seen, late,     \* history: rows loaded; changes cached after newer loads
    skipped,        \* history: rows a load passed over and could not use
    bindTxns, loads

bindVars == <<bindRows, nextRow, bindClock, bcache, lastUpdate, bindTxn, todo, load,
              invalidMap, pendingMap, evolve, adding, sessionCache, seen, late,
              skipped, bindTxns, loads>>
bindTable == <<bindRows, nextRow>>
bindTxnVars == <<bindClock, bindTxn, bindTxns>>
bindTasks == <<invalidMap, pendingMap, evolve, adding>>
bindHistory == <<seen, late, skipped, loads>>

NoBindTxn == [op |-> "none"]
NoLoad == [at |-> "idle", last |-> 0, rows |-> <<>>]
NoJob == [sql |-> "none"]

BindInit ==
    /\ bindRows = {} /\ nextRow = 1 /\ bindClock = 1
    /\ bcache = [s \in BindServer |-> <<>>]
    /\ lastUpdate = [s \in BindServer |-> 0]
    /\ bindTxn = [s \in BindServer |-> NoBindTxn]
    /\ todo = [s \in BindServer |-> {}]
    /\ load = [s \in BindServer |-> [l \in Loader |-> NoLoad]]
    /\ invalidMap = [s \in BindServer |-> {}] /\ pendingMap = [s \in BindServer |-> {}]
    /\ evolve = [s \in BindServer |-> NoJob] /\ adding = [s \in BindServer |-> NoJob]
    /\ sessionCache = {}
    /\ seen = [s \in BindServer |-> {}] /\ late = [s \in BindServer |-> FALSE]
    /\ skipped = [s \in BindServer |-> {}]
    /\ bindTxns = 0 /\ loads = 0

-----------------------------------------------------------------------------
(* Records.  prepareHints gives every binding that is not deleted its ID. *)

Prepared(sql, status, upd) ==
    [sql |-> sql, id |-> IF status = "deleted" THEN "" ELSE HintOf[sql],
     status |-> status, upd |-> upd]
OfRow(r) == Prepared(r.sql, r.status, r.upd)

SameBinding(a, b) == IF a.id # "" /\ b.id # "" THEN a.id = b.id ELSE a.sql = b.sql

\* merge of one binding: the newer of the two, the newcomer when equal.
Merge(rec, b) ==
    LET j == SelectInSeq(rec, LAMBDA x : SameBinding(x, b))
    IN IF j = 0 THEN Append(rec, b)
       ELSE IF b.upd >= rec[j].upd THEN [rec EXCEPT ![j] = b] ELSE rec

\* remove of one binding
Without(rec, b) ==
    LET j == SelectInSeq(rec, LAMBDA x : SameBinding(x, b))
    IN IF j = 0 THEN rec ELSE RemoveAt(rec, j)

DropDeleted(rec) == SelectSeq(rec, LAMBDA b : b.status # "deleted")

HasUsing(rec) == \E i \in DOMAIN rec : rec[i].status = "using"
FindBinding(rec, id) == SelectInSeq(rec, LAMBDA b : b.id = id)

-----------------------------------------------------------------------------
(* UFIDelate. *)

\* The rows later than what was loaded last, the older first.
LoadOrder(a, b) == a.upd < b.upd \/ (a.upd = b.upd /\ a.row < b.row)
RowsSince(last) == SetToSortSeq({r \in bindRows : r.upd > last}, LoadOrder)

\* The first critical section; a reload has emptied the cache before.
UpdateStart(s, l, reload) ==
    /\ load[s][l].at = "idle" /\ loads < MaxLoads
    /\ loads' = loads + 1
    /\ bcache' = IF reload THEN [bcache EXCEPT ![s] = <<>>] ELSE bcache
    /\ lastUpdate' = IF reload THEN [lastUpdate EXCEPT ![s] = 0] ELSE lastUpdate
    /\ seen' = IF reload THEN [seen EXCEPT ![s] = {}] ELSE seen
    /\ late' = IF reload THEN [late EXCEPT ![s] = FALSE] ELSE late
    /\ skipped' = IF reload THEN [skipped EXCEPT ![s] = {}] ELSE skipped
    /\ load' = [load EXCEPT ![s][l] = [NoLoad EXCEPT !.at = "started", !.last = lastUpdate'[s]]]
    /\ UNCHANGED <<todo, sessionCache, bindTable, bindTxnVars, bindTasks>>

\* The query, which may fail.
UpdateQuery(s, l) ==
    /\ load[s][l].at = "started"
    /\ \/ load' = [load EXCEPT ![s][l].at = "queried",
                              ![s][l].rows = RowsSince(load[s][l].last)]
       \/ load' = [load EXCEPT ![s][l] = NoLoad]
    /\ UNCHANGED <<bcache, lastUpdate, todo, sessionCache, bindTable, bindTxnVars, bindTasks,
                   bindHistory>>

\* Mutant: deleted rows are merged and never taken out.
ApplyRowsKeeping(rec, rows) == FoldLeft(LAMBDA acc, r : Merge(acc, OfRow(r)), rec, rows)

ApplyRows(rec, rows) == FoldLeft(LAMBDA acc, r : DropDeleted(Merge(acc, OfRow(r))), rec, rows)

LatestOf(last, rows) == IF rows = <<>> THEN last ELSE rows[Len(rows)].upd

\* newBindRecord fails for a row whose hints cannot be built, as after a change
\* of the schema; those of a deleted row are not built.
Unbuildable(rows) == SUBSET {r \in ToSet(rows) : r.sql \in Fragile /\ r.status # "deleted"}

\* The second critical section; newBindRecord needs sctx for every row.  A row
\* that cannot be built is passed over, and its time counts all the same.
UpdateApply(s, l) ==
    /\ load[s][l].at = "queried"
    /\ load[s][l].rows # <<>> => bindTxn[s] = NoBindTxn
    /\ \E failed \in Unbuildable(load[s][l].rows) :
         LET d == load[s][l]
             built == SelectSeq(d.rows, LAMBDA r : r \notin failed)
         IN /\ bcache' = [bcache EXCEPT ![s] = ApplyRows(@, built)]
            /\ lastUpdate' = [lastUpdate EXCEPT ![s] = LatestOf(d.last, d.rows)]
            /\ seen' = [seen EXCEPT ![s] = {r \in @ : r.upd <= d.last} \cup ToSet(d.rows)]
            /\ skipped' = [skipped EXCEPT ![s] = (@ \ ToSet(built)) \cup failed]
    /\ load' = [load EXCEPT ![s][l] = NoLoad]
    /\ UNCHANGED <<todo, sessionCache, late, loads, bindTable, bindTxnVars, bindTasks>>

-----------------------------------------------------------------------------
(* CreateBindRecord, AddBindRecord, DropBindRecord: one transaction each,   *)
(* under sctx; the cache follows after sctx is released.                    *)

\* BEGIN: the transaction's time and snapshot, and the record to replace.
BeginBind(s, op, b, old) ==
    /\ bindTxn[s] = NoBindTxn
    /\ bindTxns < MaxBindTxns
    /\ \E now \in {bindClock, bindClock + 1} :
          /\ bindClock' = now
          /\ bindTxn' = [bindTxn EXCEPT ![s] =
                [op |-> op, b |-> [b EXCEPT !.upd = now], snap |-> bindRows, old |-> old]]
    /\ bindTxns' = bindTxns + 1

CreateBegin(s, sql) ==
    /\ BeginBind(s, "create", Prepared(sql, "using", 0), bcache[s])
    /\ UNCHANGED <<bcache, lastUpdate, todo, load, sessionCache, bindTable, bindTasks,
                   bindHistory>>

DropBegin(s, b) ==
    /\ BeginBind(s, "drop", b, <<>>)
    /\ UNCHANGED <<bcache, lastUpdate, todo, load, sessionCache, bindTable, bindTasks,
                   bindHistory>>

\* AddBindRecord looks at the cache before it has sctx.  A binding that is to
\* be verified and that the cache has is left alone.
AddBind(s, b) ==
    /\ adding[s] = NoJob
    /\ adding' = IF b.status = "pending verify" /\ FindBinding(bcache[s], b.id) # 0 THEN adding
                 ELSE [adding EXCEPT ![s] = [sql |-> b.sql, b |-> b, old |-> bcache[s]]]

AddBegin(s) ==
    /\ adding[s] # NoJob
    /\ BeginBind(s, "add", adding[s].b, adding[s].old)
    /\ adding' = [adding EXCEPT ![s] = NoJob]
    /\ UNCHANGED <<bcache, lastUpdate, todo, load, invalidMap, pendingMap, evolve, sessionCache,
                   bindTable, bindHistory>>

\* What each statement writes: rows it deletes, rows it marks deleted, and
\* whether it inserts.  A drop of "all" names no binding.
Affected(t) ==
    LET of(sqls) == {r \in t.snap : r.sql \in sqls}
        dup == FindBinding(t.old, t.b.id)
    IN CASE t.op = "create" -> [gone |-> {}, marked |-> of({t.old[i].sql : i \in DOMAIN t.old})]
         [] t.op = "add" -> [gone |-> IF dup = 0 THEN {} ELSE of({t.old[dup].sql}), marked |-> {}]
         [] t.op = "drop" -> [gone |-> {}, marked |-> IF t.b.sql = "all" THEN t.snap
                                                      ELSE of({t.b.sql})]

CommitBind(s) ==
    /\ bindTxn[s] # NoBindTxn
    /\ LET t == bindTxn[s]
           w == Affected(t)
       IN /\ (w.gone \cup w.marked) \subseteq bindRows
          /\ bindRows' = (bindRows \ (w.gone \cup w.marked))
                \cup {[r EXCEPT !.status = "deleted", !.upd = t.b.upd] : r \in w.marked}
                \cup (IF t.op = "drop" THEN {}
                      ELSE {[row |-> nextRow, sql |-> t.b.sql, status |-> t.b.status,
                             upd |-> t.b.upd]})
          /\ todo' = [todo EXCEPT ![s] = @ \cup {[op |-> t.op, b |-> t.b, old |-> t.old]}]
    /\ nextRow' = nextRow + 1
    /\ bindTxn' = [bindTxn EXCEPT ![s] = NoBindTxn]
    /\ UNCHANGED <<bindClock, bcache, lastUpdate, load, sessionCache, bindTxns, bindTasks,
                   bindHistory>>

\* A conflict, or any other error: ROLLBACK, and the cache stays.
RollbackBind(s) ==
    /\ bindTxn[s] # NoBindTxn
    /\ LET w == Affected(bindTxn[s]) IN ~((w.gone \cup w.marked) \subseteq bindRows)
    /\ bindTxn' = [bindTxn EXCEPT ![s] = NoBindTxn]
    /\ UNCHANGED <<bindClock, bcache, lastUpdate, todo, load, sessionCache, bindTxns, bindTable,
                   bindTasks, bindHistory>>

\* removeBindRecord and appendBindRecord, under the lock of bindInfo.
CacheAfter(rec, c) ==
    CASE c.op = "create" -> Merge(FoldLeft(Without, rec, c.old), c.b)
      [] c.op = "add" -> Merge(rec, c.b)
      [] c.op = "drop" -> IF c.b.sql = "all" THEN <<>> ELSE Without(rec, c.b)

ApplyToCache(s) ==
    /\ \E c \in todo[s] :
          /\ bcache' = [bcache EXCEPT ![s] = CacheAfter(@, c)]
          /\ late' = [late EXCEPT ![s] = @ \/ c.b.upd <= lastUpdate[s]]
          /\ todo' = [todo EXCEPT ![s] = @ \ {c}]
    /\ UNCHANGED <<lastUpdate, load, sessionCache, seen, skipped, loads, bindTable,
                   bindTxnVars, bindTasks>>

-----------------------------------------------------------------------------
(* The maps of changes found while planning, flushed by the bind loop, and  *)
(* the evolution of plans.                                                  *)

\* tmpBindRecordMap.Add: the first record of an ID stays.
AddTask(map, s, b) ==
    [map EXCEPT ![s] = IF \E e \in @ : e.b.id = b.id THEN @
                       ELSE @ \cup {[b |-> b, flushed |-> FALSE]}]

AddDropInvalidBindTask(s) ==
    /\ \E i \in DOMAIN bcache[s] : invalidMap' = AddTask(invalidMap, s, bcache[s][i])
    /\ UNCHANGED <<bcache, lastUpdate, todo, load, pendingMap, evolve, adding, sessionCache,
                   bindTable, bindTxnVars, bindHistory>>

AddEvolvePlanTask(s, sql) ==
    /\ HasUsing(bcache[s])
    /\ pendingMap' = AddTask(pendingMap, s, Prepared(sql, "pending verify", 0))
    /\ UNCHANGED <<bcache, lastUpdate, todo, load, invalidMap, evolve, adding, sessionCache,
                   bindTable, bindTxnVars, bindHistory>>

\* flushToStore of one record: its operation, and the mark, whatever came of it.
Flushed(map, s, e) == [map EXCEPT ![s] = (@ \ {e}) \cup {[e EXCEPT !.flushed = TRUE]}]

DropInvalidBindRecord(s) ==
    /\ \E e \in {x \in invalidMap[s] : ~x.flushed} :
          BeginBind(s, "drop", e.b, <<>>) /\ invalidMap' = Flushed(invalidMap, s, e)
    /\ UNCHANGED <<bcache, lastUpdate, todo, load, pendingMap, evolve, adding, sessionCache,
                   bindTable, bindHistory>>

SaveEvolveTasksToStore(s) ==
    /\ \E e \in {x \in pendingMap[s] : ~x.flushed} :
          AddBind(s, e.b) /\ pendingMap' = Flushed(pendingMap, s, e)
    /\ UNCHANGED <<bcache, lastUpdate, todo, load, invalidMap, evolve, sessionCache, bindTable,
                   bindTxnVars, bindHistory>>

\* Six seconds later the record leaves its map.
ForgetTask(s) ==
    /\ \/ /\ \E e \in invalidMap[s] : e.flushed /\ invalidMap' = [invalidMap EXCEPT ![s] = @ \ {e}]
          /\ UNCHANGED pendingMap
       \/ /\ \E e \in pendingMap[s] : e.flushed /\ pendingMap' = [pendingMap EXCEPT ![s] = @ \ {e}]
          /\ UNCHANGED invalidMap
    /\ UNCHANGED <<bcache, lastUpdate, todo, load, evolve, adding, sessionCache, bindTable,
                   bindTxnVars, bindHistory>>

\* getOnePendingVerifyJob: a binding to verify, or one rejected long ago.
EvolveStart(s) ==
    /\ evolve[s] = NoJob
    /\ \E i \in DOMAIN bcache[s] :
          /\ bcache[s][i].status \in {"pending verify", "rejected"}
          /\ evolve' = [evolve EXCEPT ![s] = bcache[s][i]]
    /\ UNCHANGED <<bcache, lastUpdate, todo, load, invalidMap, pendingMap, adding, sessionCache,
                   bindTable, bindTxnVars, bindHistory>>

\* The plans have run: an error drops the binding, a plan that is not faster
\* is rejected, the other one is used.
EvolveEnd(s) ==
    /\ evolve[s] # NoJob
    /\ \/ BeginBind(s, "drop", evolve[s], <<>>) /\ UNCHANGED adding
       \/ /\ \E v \in {"rejected", "using"} : AddBind(s, [evolve[s] EXCEPT !.status = v])
          /\ UNCHANGED <<bindClock, bindTxn, bindTxns>>
    /\ evolve' = [evolve EXCEPT ![s] = NoJob]
    /\ UNCHANGED <<bcache, lastUpdate, todo, load, invalidMap, pendingMap, sessionCache,
                   bindTable, bindHistory>>

\* CaptureBaselines: a statement without a binding in use gets its own plan.
CaptureBaselines(s, sql) ==
    /\ ~HasUsing(bcache[s])
    /\ AddBind(s, Prepared(sql, "using", 0))
    /\ UNCHANGED <<bcache, lastUpdate, todo, load, invalidMap, pendingMap, evolve, sessionCache,
                   bindTable, bindTxnVars, bindHistory>>

-----------------------------------------------------------------------------
(* The handle of a session keeps one binding per statement, and nothing of  *)
(* it is stored; a dropped one leaves an empty record that hides the global.*)

SessionCreate(sql) ==
    /\ sessionCache' = {<<Prepared(sql, "using", 0)>>}
    /\ UNCHANGED <<bcache, lastUpdate, todo, load, bindTable, bindTxnVars, bindTasks,
                   bindHistory>>

\* Without a record the binding to drop becomes the record.
SessionDrop(sql) ==
    /\ LET b == Prepared(sql, "using", 0)
       IN sessionCache' = IF sessionCache = {} THEN {<<b>>}
                          ELSE {Without(rec, b) : rec \in sessionCache}
    /\ UNCHANGED <<bcache, lastUpdate, todo, load, bindTable, bindTxnVars, bindTasks,
                   bindHistory>>

\* One step of one of these servers, of these operations and bindings.
BindStep(servers, loaders, ops, sqls) ==
    \E s \in servers :
        \/ \E l \in loaders :
              \/ UpdateStart(s, l, l = "admin")
              \/ UpdateQuery(s, l) \/ UpdateApply(s, l)
        \/ AddBegin(s) \/ CommitBind(s) \/ RollbackBind(s) \/ ApplyToCache(s)
        \/ \E sql \in sqls :
              \/ "create" \in ops /\ CreateBegin(s, sql)
              \/ "drop" \in ops /\ DropBegin(s, Prepared(sql, "using", 0))
              \/ "capture" \in ops /\ CaptureBaselines(s, sql)
              \/ "evolve" \in ops /\ AddEvolvePlanTask(s, sql)
        \/ "dropall" \in ops /\ DropBegin(s, Prepared("all", "deleted", 0))
        \/ "invalid" \in ops /\ AddDropInvalidBindTask(s)
        \/ DropInvalidBindRecord(s) \/ SaveEvolveTasksToStore(s) \/ ForgetTask(s)
        \/ EvolveStart(s) \/ EvolveEnd(s)

SessionStep == \E sql \in BindSQL : SessionCreate(sql) \/ SessionDrop(sql)

BindNext ==
    \/ BindStep(BindServer, Loader,
                {"create", "drop", "dropall", "capture", "evolve", "invalid"}, BindSQL)
    \/ SessionStep

-----------------------------------------------------------------------------
(* Properties. *)

Missed(s) == {r \in bindRows : r.upd <= lastUpdate[s] /\ r \notin seen[s]}
BindSettled(s) ==
    /\ bindTxn[s] = NoBindTxn /\ todo[s] = {}
    /\ \A l \in Loader : load[s][l] = NoLoad
    /\ \A r \in bindRows : r.upd <= lastUpdate[s]

InUse(b) == \E r \in bindRows : r.status # "deleted" /\ <<b.id, b.status>> = <<HintOf[r.sql], r.status>>

\* A server that has loaded all rows there are uses no binding that was
\* dropped or replaced, in whatever order its own changes, other servers'
\* changes and its loads came (UFIDelate, appendBindRecord, removeBindRecord).
\* The three ways to miss a change are named: a row committed with a time that
\* a load had already passed; a change of its own that reaches the cache after
\* a load that had passed it; and a row that could not be built, which leaves
\* the binding it was to replace, and no other, in use.
DroppedNotUsed ==
    \A s \in BindServer :
        BindSettled(s) /\ Missed(s) = {} /\ ~late[s] =>
            \A b \in ToSet(bcache[s]) :
                InUse(b) \/ \E r \in skipped[s] : SameBinding(b, OfRow(r))

=============================================================================
