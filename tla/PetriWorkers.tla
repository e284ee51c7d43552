----------------------------- MODULE PetriWorkers -----------------------------
(***************************************************************************)
(* The life of a Petri beside its schema: the background workers that its  *)
(* start-up spawns, the pool of system sessions they and the statements    *)
(* borrow from, and Close.  The wait group is the set of running workers;  *)
(* the work of a tick is left out except for what outlives it.  The slow   *)
(* query loop's own data is module SlowQuery.                              *)
(***************************************************************************)
EXTENDS Integers, FiniteSets, Sequences

CONSTANTS
    User,           \* borrowers of system sessions
    MaxSessions,    \* bound: the sessions the factory creates
    PoolCap,        \* capacity of the pool
    Config          \* the configurations a server may run with

\* A configuration: dbsLease, etcd, dashboard, bindLease, statsLease, autoAnalyze.

VARIABLES
    config, phase,      \* the server: its settings, how far start and Close are
    workers,            \* the wait group
    exitClosed,         \* do.exit
    slowChClosed,       \* the slow query channel
    watch,              \* the privilege watch: "open", "closed" or "none"
    owners,             \* prompts this server campaigns for
    statsUpdating, statsFlushed,
    serverInfo,         \* the server is registered in etcd
    pool, poolClosed, poolChClosed, poolReader,
    holds,              \* the session each borrower has
    made, destroyed     \* how many sessions were created, and those closed

petriVars == <<config, phase, workers, exitClosed, slowChClosed, watch, owners, statsUpdating,
               statsFlushed, serverInfo, pool, poolClosed, poolChClosed, poolReader, holds,
               made, destroyed>>
poolVars == <<pool, poolClosed, poolChClosed, poolReader, holds, made, destroyed>>
workerVars == <<workers, watch, owners, statsUpdating, statsFlushed, serverInfo>>

NoRes == 0

PetriInit ==
    /\ config \in Config
    /\ phase = "new" /\ workers = {} /\ exitClosed = FALSE /\ slowChClosed = FALSE
    /\ watch = "none" /\ owners = {} /\ statsUpdating = FALSE /\ statsFlushed = FALSE
    /\ serverInfo = FALSE
    /\ pool = <<>> /\ poolClosed = FALSE /\ poolChClosed = FALSE /\ poolReader = {}
    /\ holds = [u \in User |-> NoRes]
    /\ made = 0 /\ destroyed = {}

-----------------------------------------------------------------------------
(* Start-up. *)

\* Init: the loops every server has.
Init_ ==
    /\ phase = "new"
    /\ phase' = "started"
    /\ serverInfo' = TRUE
    /\ workers' = {"slowQuery", "infoSyncer"}
                    \cup (IF config.dbsLease > 0 THEN {"schema"} ELSE {})
                    \cup (IF config.dashboard THEN {"topology"} ELSE {})
    /\ UNCHANGED <<config, exitClosed, slowChClosed, watch, owners, statsUpdating, statsFlushed,
                   poolVars>>

LoadPrivilegeLoop ==
    /\ watch' = IF config.etcd THEN "open" ELSE "none"
    /\ workers' = workers \cup {"privilege"}
    /\ UNCHANGED <<owners, statsUpdating>>

LoadBindInfoLoop ==
    /\ workers' = workers \cup (IF config.bindLease = 0 THEN {} ELSE {"bind", "evolve"})
    /\ UNCHANGED <<watch, owners, statsUpdating>>

TelemetryLoop ==
    /\ workers' = workers \cup {"telemetry"}
    /\ UNCHANGED <<watch, owners, statsUpdating>>

\* A negative lease starts nothing, zero only the loading.  The campaign for
\* the statistics begins before its worker does.
UpdateBlockStatsLoop ==
    /\ workers' = workers \cup (IF config.statsLease >= 0 THEN {"loadStats"} ELSE {})
                    \cup (IF config.statsLease > 0 THEN {"updateStats"} ELSE {})
                    \cup (IF config.statsLease > 0 /\ config.autoAnalyze THEN {"analyze"} ELSE {})
    /\ owners' = owners \cup (IF config.statsLease > 0 THEN {"stats"} ELSE {})
    /\ statsUpdating' = (config.statsLease > 0)
    /\ UNCHANGED watch

\* The bootstrap calls them in this order, each once.
Bootstrap ==
    /\ \/ phase = "started" /\ LoadPrivilegeLoop /\ phase' = "privileges"
       \/ phase = "privileges" /\ LoadBindInfoLoop /\ phase' = "bindings"
       \/ phase = "bindings" /\ TelemetryLoop /\ phase' = "telemetry"
       \/ phase = "telemetry" /\ UpdateBlockStatsLoop /\ phase' = "up"
    /\ UNCHANGED <<config, exitClosed, slowChClosed, statsFlushed, serverInfo, poolVars>>

-----------------------------------------------------------------------------
(* The workers. *)

\* newOwnerManager: the loops of plan evolution and of telemetry campaign
\* themselves, before they look at do.exit.
Campaign(w, prompt) ==
    /\ w \in workers /\ prompt \notin owners
    /\ owners' = owners \cup {prompt}
    /\ UNCHANGED <<config, phase, workers, exitClosed, slowChClosed, watch, statsUpdating,
                   statsFlushed, serverInfo, poolVars>>

\* A worker finds do.exit closed and leaves the wait group.
Leave(w) ==
    /\ w \in workers
    /\ exitClosed
    /\ workers' = workers \ {w}
    /\ UNCHANGED <<config, phase, exitClosed, slowChClosed, watch, serverInfo, poolVars>>
LeaveOnly(w) == Leave(w) /\ UNCHANGED <<owners, statsUpdating, statsFlushed>>

InfoSyncerExit == LeaveOnly("infoSyncer")
TopologyExit == LeaveOnly("topology")
SchemaLoopExit == LeaveOnly("schema")
PrivilegeExit == LeaveOnly("privilege")
BindLoopExit == LeaveOnly("bind")
LoadStatsExit == LeaveOnly("loadStats")
AnalyzeExit == LeaveOnly("analyze")

\* Those that campaigned cancel first.
LeaveOwner(w, prompt) ==
    /\ Leave(w)
    /\ prompt \in owners
    /\ owners' = owners \ {prompt}
EvolveExit == LeaveOwner("evolve", "bindinfo") /\ UNCHANGED <<statsUpdating, statsFlushed>>
TelemetryExit == LeaveOwner("telemetry", "telemetry") /\ UNCHANGED <<statsUpdating, statsFlushed>>

\* The statistics worker flushes what it has.
UpdateStatsExit ==
    /\ LeaveOwner("updateStats", "stats")
    /\ statsUpdating' = FALSE /\ statsFlushed' = TRUE

SlowQueryLoopExit ==
    /\ "slowQuery" \in workers
    /\ slowChClosed
    /\ workers' = workers \ {"slowQuery"}
    /\ UNCHANGED <<config, phase, exitClosed, slowChClosed, watch, owners, statsUpdating,
                   statsFlushed, serverInfo, poolVars>>

\* A closed watch is opened again, which the closed client closes at once.
PrivilegeRewatch ==
    /\ "privilege" \in workers
    /\ watch = "closed"
    /\ watch' = IF phase \in {"etcdClosed", "poolLocking", "poolClosing", "poolClosed", "waiting"}
                THEN "closed" ELSE "open"
    /\ UNCHANGED <<config, phase, workers, exitClosed, slowChClosed, owners, statsUpdating,
                   statsFlushed, serverInfo, poolVars>>

WatchBreaks ==
    /\ watch = "open"
    /\ watch' = "closed"
    /\ UNCHANGED <<config, phase, workers, exitClosed, slowChClosed, owners, statsUpdating,
                   statsFlushed, serverInfo, poolVars>>

\* infoSyncerKeeper: a lost session is restarted, which registers again.
InfoSyncerRestart ==
    /\ "infoSyncer" \in workers
    /\ serverInfo' = TRUE
    /\ UNCHANGED <<config, phase, workers, exitClosed, slowChClosed, watch, owners, statsUpdating,
                   statsFlushed, poolVars>>

-----------------------------------------------------------------------------
(* stochastikPool. *)

\* Get: an idle session, else a new one; a closed and empty pool is an error.
PoolGet(u) ==
    /\ holds[u] = NoRes /\ u \notin poolReader
    /\ \/ /\ pool # <<>>
          /\ holds' = [holds EXCEPT ![u] = Head(pool)]
          /\ pool' = Tail(pool)
          /\ UNCHANGED made
       \/ /\ pool = <<>> /\ ~poolChClosed
          /\ made < MaxSessions
          /\ made' = made + 1
          /\ holds' = [holds EXCEPT ![u] = made']
          /\ UNCHANGED pool
    /\ UNCHANGED <<config, phase, exitClosed, slowChClosed, workerVars, poolClosed, poolChClosed,
                   poolReader, destroyed>>

\* Put holds the read lock from its test to its send; no reader enters while
\* Close waits for the write lock.
PoolPut(u) ==
    /\ holds[u] # NoRes /\ u \notin poolReader
    /\ phase # "poolLocking"
    /\ IF poolClosed
       THEN /\ destroyed' = destroyed \cup {holds[u]}
            /\ holds' = [holds EXCEPT ![u] = NoRes]
            /\ UNCHANGED poolReader
       ELSE /\ poolReader' = poolReader \cup {u}
            /\ UNCHANGED <<destroyed, holds>>
    /\ UNCHANGED <<config, phase, exitClosed, slowChClosed, workerVars, pool, poolClosed,
                   poolChClosed, made>>

PoolSend(u) ==
    /\ u \in poolReader
    /\ poolReader' = poolReader \ {u}
    /\ holds' = [holds EXCEPT ![u] = NoRes]
    /\ IF Len(pool) < PoolCap
       THEN pool' = Append(pool, holds[u]) /\ UNCHANGED destroyed
       ELSE destroyed' = destroyed \cup {holds[u]} /\ UNCHANGED pool
    /\ UNCHANGED <<config, phase, exitClosed, slowChClosed, workerVars, poolClosed, poolChClosed,
                   made>>

\* Close asks for the write lock, has it when the readers are gone, and closes
\* the idle sessions one by one.
PoolLock ==
    /\ phase = "etcdClosed"
    /\ phase' = "poolLocking"
    /\ UNCHANGED <<config, exitClosed, slowChClosed, workerVars, poolVars>>

\* Mutant: it closes the pool without waiting for the readers.
PoolCloseUnlocked ==
    /\ phase = "poolLocking"
    /\ poolClosed' = TRUE /\ poolChClosed' = TRUE
    /\ phase' = "poolClosing"
    /\ UNCHANGED <<config, exitClosed, slowChClosed, workerVars, pool, poolReader, holds, made,
                   destroyed>>

PoolClose ==
    /\ phase = "poolLocking"
    /\ poolReader = {}
    /\ poolClosed' = TRUE /\ poolChClosed' = TRUE
    /\ phase' = "poolClosing"
    /\ UNCHANGED <<config, exitClosed, slowChClosed, workerVars, pool, poolReader, holds, made,
                   destroyed>>

PoolDrain ==
    /\ phase = "poolClosing"
    /\ IF pool = <<>>
       THEN phase' = "poolClosed" /\ UNCHANGED <<pool, destroyed>>
       ELSE /\ destroyed' = destroyed \cup {Head(pool)}
            /\ pool' = Tail(pool)
            /\ UNCHANGED phase
    /\ UNCHANGED <<config, exitClosed, slowChClosed, workerVars, poolClosed, poolChClosed,
                   poolReader, holds, made>>

-----------------------------------------------------------------------------
(* Close. *)

CloseInfo ==
    /\ phase \in {"started", "privileges", "bindings", "telemetry", "up"}
    /\ phase' = "infoRemoved"
    /\ serverInfo' = FALSE
    /\ UNCHANGED <<config, workers, exitClosed, slowChClosed, watch, owners, statsUpdating,
                   statsFlushed, poolVars>>

CloseExit ==
    /\ phase = "infoRemoved"
    /\ phase' = "exiting"
    /\ exitClosed' = TRUE
    /\ UNCHANGED <<config, slowChClosed, workerVars, poolVars>>

CloseEtcd ==
    /\ phase = "exiting"
    /\ phase' = "etcdClosed"
    /\ watch' = IF watch = "none" THEN "none" ELSE "closed"
    /\ UNCHANGED <<config, workers, exitClosed, slowChClosed, owners, statsUpdating, statsFlushed,
                   serverInfo, poolVars>>

\* Mutant: the slow query channel stays open.
CloseSlowQueryNot ==
    /\ phase = "poolClosed"
    /\ phase' = "waiting"
    /\ UNCHANGED <<config, exitClosed, slowChClosed, workerVars, poolVars>>

CloseSlowQuery ==
    /\ phase = "poolClosed"
    /\ phase' = "waiting"
    /\ slowChClosed' = TRUE
    /\ UNCHANGED <<config, exitClosed, workerVars, poolVars>>

\* wg.Wait
CloseDone ==
    /\ phase = "waiting" /\ workers = {}
    /\ phase' = "closed"
    /\ UNCHANGED <<config, exitClosed, slowChClosed, workerVars, poolVars>>

CloseStep == CloseExit \/ CloseEtcd \/ PoolLock \/ PoolClose \/ PoolDrain \/ CloseSlowQuery \/ CloseDone

WorkerStep ==
    \/ Campaign("evolve", "bindinfo") \/ Campaign("telemetry", "telemetry")
    \/ InfoSyncerExit \/ TopologyExit \/ SchemaLoopExit \/ PrivilegeExit \/ BindLoopExit
    \/ LoadStatsExit \/ AnalyzeExit \/ EvolveExit \/ TelemetryExit \/ UpdateStatsExit

PetriNext ==
    \/ Init_ \/ Bootstrap
    \/ WorkerStep
    \/ SlowQueryLoopExit \/ PrivilegeRewatch \/ WatchBreaks \/ InfoSyncerRestart
    \/ \E u \in User : PoolGet(u) \/ PoolPut(u) \/ PoolSend(u)
    \/ CloseInfo \/ CloseStep

PetriSpec == PetriInit /\ [][PetriNext]_petriVars

\* Close runs in a goroutine of its own.  As long as workers whose select has a
\* ready exit case remain, one of them takes it, even when other cases are
\* ready as well.  A send does not block.
PetriFairness ==
    /\ WF_petriVars(CloseStep)
    /\ WF_petriVars(WorkerStep)
    /\ WF_petriVars(SlowQueryLoopExit)
    /\ \A u \in User : WF_petriVars(PoolSend(u))

-----------------------------------------------------------------------------
(* Properties. *)

\* Closing leaves nothing behind: no session is sent into the closed pool, and
\* when Close has returned and the borrowers have given back what they had,
\* every session is closed, no owner campaign runs and the statistics of this
\* server are flushed.
CloseLeavesNothing ==
    /\ poolReader # {} => ~poolChClosed
    /\ phase = "closed" =>
         /\ owners = {} /\ ~statsUpdating
         /\ 1..made = destroyed \cup {holds[u] : u \in {x \in User : holds[x] # NoRes}}

\* Close returns once it was called: every worker hears of it, whichever
\* workers the configuration started and however far the bootstrap had come.
CloseReturns == (phase = "infoRemoved") ~> (phase = "closed")

=============================================================================
