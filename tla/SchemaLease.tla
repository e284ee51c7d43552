----------------------------- MODULE SchemaLease -----------------------------
(***************************************************************************)
(* Schema lease of one MilevaDB server: Petri.Reload, loadSchemaInLoop and *)
(* the commit-time SchemaChecker (petri/petri.go, schema_checker.go) over  *)
(* the SchemaValidator, against the DDL owner that publishes schema        *)
(* versions.  The owner and etcd are external; they are modelled from the  *)
(* comments of loadSchemaInLoop: the owner publishes the next version when *)
(* the server has reported the current one, is not registered, or after    *)
(* waiting for two leases.                                                 *)
(***************************************************************************)
EXTENDS SchemaValidator, SequencesExt

CONSTANTS
    Txn,            \* transactions
    Diffs,          \* the changes a schema version may consist of
    MaxVer,         \* bound on schema versions
    MaxNow,         \* bound on the clock
    RetryTimes,     \* SchemaOutOfDateRetryTimes
    MaxDiffsToLoad, \* maxNumberOfDiffsToLoad
    Events          \* which of "missingDiff", "syncFail", "sessionLost" and
                    \* "historyRead" may happen

ASSUME LeaseAssumption ==
    /\ {MaxVer, MaxNow, RetryTimes, MaxDiffsToLoad} \subseteq Nat
    /\ Diffs \subseteq Change

VARIABLES
    now,
    diff,           \* diff[v]: what version v changed; the last is current
    missing,        \* versions whose SchemaDiff cannot be read or applied
    published,      \* when the current version was published
    registered,     \* the server has its key in etcd
    selfVer,        \* the version the server reported under that key
    infoVer,        \* version of the loaded schema (infoHandle)
    reload,         \* the Reload that holds do.m
    loop,           \* where loadSchemaInLoop is
    sessionLost,    \* syncer.Done() is ready
    historyRead,    \* the version a history read is about to report, or 0
    txn,
    known,          \* history: the version of the last Reload that completed
    exposed         \* history: transactions running at a failed report, or when
                    \* the validator was reset, stopped or restarted

envVars == <<now, diff, missing, published>>
syncVars == <<registered, selfVer, historyRead>>
loopVars == <<loop, sessionLost>>
txnVars == <<txn, exposed>>
vars == <<validatorVars, envVars, syncVars, infoVer, reload, loopVars, txnVars, known>>

Version == Len(diff)

NoReload == [pc |-> "idle", by |-> "none", ts |-> 0, old |-> 0, needed |-> 0,
             full |-> FALSE, change |-> <<>>]

NoTxn == [st |-> "idle", ver |-> 0, tables |-> {}, ts |-> 0, seen |-> 0, tries |-> 0]

\* The first version is published; the server has started and loaded nothing.
Init ==
    /\ ValidatorInit
    /\ now = 0
    /\ diff = << <<>> >> /\ missing = {} /\ published = 0
    /\ registered = TRUE /\ selfVer = 0 /\ historyRead = 0
    /\ infoVer = 0
    /\ reload = NoReload
    /\ loop = "run" /\ sessionLost = FALSE
    /\ txn = [t \in Txn |-> NoTxn]
    /\ known = 0 /\ exposed = {}

Running == {t \in Txn : txn[t].st \in {"running", "checking"}}

-----------------------------------------------------------------------------
(* The DDL owner and the clock. *)

Tick ==
    /\ now < MaxNow
    /\ now' = now + 1
    /\ UNCHANGED <<validatorVars, diff, missing, published, syncVars, infoVer, reload,
                   loopVars, txnVars, known>>

PublishVersion(d, lost) ==
    /\ Version < MaxVer
    /\ \/ ~registered
       \/ selfVer = Version
       \/ now >= published + 2 * Lease
    /\ lost => "missingDiff" \in Events
    /\ diff' = Append(diff, d)
    /\ missing' = IF lost THEN missing \cup {Version + 1} ELSE missing
    /\ published' = now
    /\ UNCHANGED <<validatorVars, now, syncVars, infoVer, reload, loopVars, txnVars, known>>

-----------------------------------------------------------------------------
(* Petri.Reload, one step per lock or remote call.  do.m admits one at a   *)
(* time; the loop and the DDL callback (dbsCallback.OnChanged) call it.    *)

LoopMayReload == loop \in {"run", "restarted"}

\* CurrentVersion and the snapshot's schema version.
ReloadBegin(by) ==
    /\ reload.pc = "idle"
    /\ by = "loop" => LoopMayReload
    /\ reload' = [reload EXCEPT
                    !.pc = IF infoVer # 0 /\ infoVer = Version THEN "update" ELSE "load",
                    !.by = by, !.ts = now, !.old = infoVer, !.needed = Version]
    /\ UNCHANGED <<validatorVars, envVars, syncVars, infoVer, loopVars, txnVars, known>>

\* Reading the store fails before anything is changed.
ReloadFail ==
    /\ reload.pc = "load"
    /\ reload' = NoReload
    /\ UNCHANGED <<validatorVars, envVars, syncVars, infoVer, loopVars, txnVars, known>>

IsTooOldSchema == infoVer = 0 \/ reload.needed - infoVer > MaxDiffsToLoad

\* tryLoadSchemaDiffs, or the full load it falls back to; Build publishes the
\* new schema to the sessions.
ReloadLoad ==
    LET full == IsTooOldSchema \/ (infoVer + 1 .. reload.needed) \cap missing # {}
    IN  /\ reload.pc = "load"
        /\ infoVer' = reload.needed
        /\ reload' = [reload EXCEPT !.pc = "sync", !.full = full,
                        !.change = IF full THEN <<>>
                                   ELSE FlattenSeq(SubSeq(diff, infoVer + 1, reload.needed))]
        /\ UNCHANGED <<validatorVars, envVars, syncVars, loopVars, txnVars, known>>

\* Mutant of ReloadSync: the newest version is reported instead of the loaded one.
ReloadSyncNewest ==
    /\ reload.pc = "sync"
    /\ registered
    /\ selfVer' = Version
    /\ reload' = [reload EXCEPT !.pc = IF reload.full THEN "reset" ELSE "update"]
    /\ UNCHANGED <<validatorVars, envVars, registered, historyRead, infoVer, loopVars,
                   txnVars, known>>

\* The deferred UFIDelateSelfVersion; its error becomes loadSchemaReplicant's error
\* and ends Reload, although the schema is already in use.
ReloadSync ==
    /\ reload.pc = "sync"
    /\ registered
    /\ selfVer' = reload.needed
    /\ reload' = [reload EXCEPT !.pc = IF reload.full THEN "reset" ELSE "update"]
    /\ UNCHANGED <<validatorVars, envVars, registered, historyRead, infoVer, loopVars,
                   txnVars, known>>

ReloadSyncFail ==
    /\ reload.pc = "sync"
    /\ "syncFail" \in Events \/ ~registered
    /\ reload' = NoReload
    /\ exposed' = exposed \cup Running
    /\ UNCHANGED <<validatorVars, envVars, syncVars, infoVer, loopVars, txn, known>>

\* After a full load the validator is reset ...
ReloadReset ==
    /\ reload.pc = "reset"
    /\ Reset
    /\ reload' = [reload EXCEPT !.pc = "update"]
    /\ exposed' = exposed \cup Running
    /\ UNCHANGED <<envVars, syncVars, infoVer, loopVars, txn, known>>

\* Mutant of ReloadUpdate: the lease is granted from the end of the load.
ReloadUpdateLateGrant ==
    /\ reload.pc = "update"
    /\ Update(now, reload.old, reload.needed, reload.change)
    /\ reload' = NoReload
    /\ loop' = IF reload.by = "loop" /\ loop = "restarted" THEN "reloaded" ELSE loop
    /\ known' = reload.needed
    /\ UNCHANGED <<envVars, syncVars, infoVer, sessionLost, txnVars>>

\* ... and in another critical section updated.
ReloadUpdate ==
    /\ reload.pc = "update"
    /\ Update(reload.ts, reload.old, reload.needed, reload.change)
    /\ reload' = NoReload
    /\ loop' = IF reload.by = "loop" /\ loop = "restarted" THEN "reloaded" ELSE loop
    /\ known' = reload.needed
    /\ UNCHANGED <<envVars, syncVars, infoVer, sessionLost, txnVars>>

\* GetSnapshotSchemaReplicant builds the schema of a past or the present version
\* in a handle of its own, without do.m; the deferred function then compares the
\* version with the loaded one ...
HistoryRead(v) ==
    /\ "historyRead" \in Events
    /\ historyRead = 0
    /\ infoVer # 0 /\ v >= infoVer
    /\ historyRead' = v
    /\ UNCHANGED <<validatorVars, envVars, registered, selfVer, infoVer, reload, loopVars,
                   txnVars, known>>

\* ... and reports it; an error is the reader's.
HistoryReport ==
    /\ historyRead # 0
    /\ selfVer' = IF registered THEN historyRead ELSE selfVer
    /\ historyRead' = 0
    /\ UNCHANGED <<validatorVars, envVars, registered, infoVer, reload, loopVars, txnVars, known>>

-----------------------------------------------------------------------------
(* loadSchemaInLoop when the etcd session is lost. *)

SessionLost ==
    /\ "sessionLost" \in Events
    /\ ~sessionLost
    /\ loop = "run"
    /\ sessionLost' = TRUE
    /\ UNCHANGED <<validatorVars, envVars, syncVars, infoVer, reload, loop, txnVars, known>>

LoopStop ==
    /\ loop = "run" /\ sessionLost /\ reload.by # "loop"
    /\ Stop
    /\ loop' = "stopped"
    /\ exposed' = exposed \cup Running
    /\ UNCHANGED <<envVars, syncVars, infoVer, reload, sessionLost, txn, known>>

\* etcd drops the server's key; assumed not to precede the server's own notice.
KeyRemoved ==
    /\ loop = "stopped" /\ registered
    /\ registered' = FALSE
    /\ UNCHANGED <<validatorVars, envVars, selfVer, historyRead, infoVer, reload, loopVars,
                   txnVars, known>>

\* mustRestartSyncer registers the server again, with the initial version.
RestartSyncer ==
    /\ loop = "stopped"
    /\ registered' = TRUE /\ selfVer' = 0 /\ sessionLost' = FALSE
    /\ loop' = "restarted"
    /\ UNCHANGED <<validatorVars, envVars, historyRead, infoVer, reload, txnVars, known>>

\* Mutant of LoopRestart: the validator is not restarted with the syncer.
LoopRestartSyncerOnly ==
    /\ loop = "reloaded"
    /\ loop' = "run"
    /\ UNCHANGED <<validatorVars, envVars, syncVars, infoVer, reload, sessionLost, txnVars, known>>

\* mustReload has succeeded.
LoopRestart ==
    /\ loop = "reloaded"
    /\ Restart
    /\ loop' = "run"
    /\ exposed' = exposed \cup Running
    /\ UNCHANGED <<envVars, syncVars, infoVer, reload, sessionLost, txn, known>>

-----------------------------------------------------------------------------
(* A transaction is planned with the loaded schema and checked at commit.  *)

TxnBegin(t, R) ==
    /\ txn[t].st = "idle" /\ infoVer # 0
    /\ txn' = [txn EXCEPT ![t].st = "running", ![t].ver = infoVer, ![t].tables = R]
    /\ UNCHANGED <<validatorVars, envVars, syncVars, infoVer, reload, loopVars, known, exposed>>

\* The timestamp CheckBySchemaVer is called with.
TxnTakeTS(t) ==
    /\ txn[t].st = "running"
    /\ txn' = [txn EXCEPT ![t].st = "checking", ![t].ts = now, ![t].seen = Version]
    /\ UNCHANGED <<validatorVars, envVars, syncVars, infoVer, reload, loopVars, known, exposed>>

\* One round of CheckBySchemaVer; it sleeps and retries while unknown.
TxnCheck(t) ==
    LET result == Check(txn[t].ts, txn[t].ver, txn[t].tables) IN
    /\ txn[t].st = "checking"
    /\ txn' = [txn EXCEPT
                 ![t].st = CASE result = "Succ" -> "ok"
                             [] result = "Fail" -> "changed"
                             [] txn[t].tries + 1 = RetryTimes -> "expired"
                             [] OTHER -> "checking",
                 ![t].tries = IF result = "Unknown" THEN @ + 1 ELSE @]
    /\ UNCHANGED <<validatorVars, envVars, syncVars, infoVer, reload, loopVars, known, exposed>>

Next ==
    \/ Tick
    \/ \E d \in Diffs, lost \in BOOLEAN : PublishVersion(d, lost)
    \/ \E by \in {"loop", "callback"} : ReloadBegin(by)
    \/ ReloadFail \/ ReloadLoad \/ ReloadSync \/ ReloadSyncFail \/ ReloadReset \/ ReloadUpdate
    \/ \E v \in 1 .. Version : HistoryRead(v)
    \/ HistoryReport
    \/ SessionLost \/ LoopStop \/ KeyRemoved \/ RestartSyncer \/ LoopRestart
    \/ \E t \in Txn : \/ \E R \in SUBSET Table : TxnBegin(t, R)
                      \/ TxnTakeTS(t) \/ TxnCheck(t)

Spec == Init /\ [][Next]_vars

-----------------------------------------------------------------------------
(* Properties. *)

TypeOK ==
    /\ isStarted \in BOOLEAN /\ latestSchemaVer \in 0 .. Version /\ latestSchemaExpire \in Int
    /\ Len(deltaSchemaInfos) <= MaxDeltaSchemaCount
    /\ infoVer \in 0 .. Version /\ selfVer \in 0 .. Version /\ known \in 0 .. Version
    /\ exposed \subseteq Txn
    /\ \A t \in Txn : txn[t].ver <= Version /\ txn[t].tries <= RetryTimes

\* A table t uses was changed by one of the versions.
Affected(t, versions) ==
    \E v \in versions : TouchedTables(diff[v]) \cap txn[t].tables # {}

Passes(t) == txn[t].st = "checking" /\ txn'[t].st = "ok"

\* t uses a table that was changed by a version older than the newest one at its
\* timestamp, and newer than its own.
TwoVersionsApart(t) == Affected(t, txn[t].ver + 1 .. txn[t].seen - 1)

\* A transaction that passes the check works with a schema that is, on its
\* tables, at most one version behind the cluster (the comment in
\* loadSchemaInLoop), if no Reload is under way and the lease covers the
\* transaction's timestamp: then the lease of a slow server does bound how far it
\* falls behind.  Check does not enforce either condition for older versions.
LeaseBoundsLag ==
    [][ \A t \in Txn : Passes(t) /\ reload.pc = "idle" /\ txn[t].ts <= latestSchemaExpire
                            => ~TwoVersionsApart(t) ]_vars

\* A change that a completed Reload has brought to the server fails every older
\* transaction on its tables: however many versions a Reload skips, and whatever
\* the queue of changes merged or dropped.
KnownChangesCaught ==
    [][ \A t \in Txn : Passes(t) => ~Affected(t, txn[t].ver + 1 .. known) ]_vars

\* With all events enabled the same holds for the transactions that no failed
\* report, reset, stop or restart overlaps: such an event harms no transaction
\* that begins after it.
FaultsHarmOnlyOverlapping ==
    [][ \A t \in Txn \ exposed : Passes(t) => ~Affected(t, txn[t].ver + 1 .. known) ]_vars

\* A version is reported to the owner only after the sessions use it: the owner
\* never counts this server as synchronized while it plans with an older schema.
ReportedInUse == registered => selfVer <= infoVer

-----------------------------------------------------------------------------
(* Liveness: the loop goroutine runs, etcd comes back and the store answers. *)

LeaseFairness ==
    /\ WF_vars(LoopStop) /\ WF_vars(RestartSyncer) /\ WF_vars(LoopRestart)
    /\ SF_vars(ReloadBegin("loop")) /\ SF_vars(ReloadLoad) /\ SF_vars(ReloadSync)
    /\ WF_vars(ReloadReset) /\ WF_vars(ReloadUpdate)

FairSpec == Spec /\ LeaseFairness

\* A stopped validator is started again, although reloads may fail in between.
EventuallyRestarted == ~isStarted ~> isStarted

\* A validator behind the published version catches up with it, unless the
\* session is lost again: no failed report, stop or callback leaves it behind
\* for good.
VersionsReachValidator ==
    latestSchemaVer < Version ~> (latestSchemaVer = Version \/ sessionLost)

=============================================================================
