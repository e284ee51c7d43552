------------------------------- MODULE MCPetri -------------------------------
(* The goroutines of one Petri: loadSchemaInLoop with the schema lease, the  *)
(* loop of slow queries, and the workers, the session pool and Close.  They  *)
(* share no state but the signal to stop, so a behaviour follows one of      *)
(* them, chosen at the start, and the others stand still.                    *)
EXTENDS SchemaLease, SlowQuery, PetriWorkers, TLC

CONSTANTS tb1, tb2, add, drop, q1, q2, q3

MCDiffs == {<<<<tb1, add>>>>}

MCDuration == (q1 :> 3) @@ (q2 :> 2) @@ (q3 :> 5)
MCStart == (q1 :> 0) @@ (q2 :> 1) @@ (q3 :> 0)

\* An etcd server with the schema loop, one with bindings and statistics that
\* are only loaded, one that also updates and analyzes them.
Bare == [dbsLease |-> 0, etcd |-> FALSE, dashboard |-> FALSE, bindLease |-> 0,
         statsLease |-> -1, autoAnalyze |-> FALSE]
MCEtcd == [Bare EXCEPT !.dbsLease = 1, !.etcd = TRUE, !.dashboard = TRUE]
MCConfig == {MCEtcd,
             [Bare EXCEPT !.bindLease = 1, !.statsLease = 0],
             [Bare EXCEPT !.statsLease = 1, !.autoAnalyze = TRUE]}

VARIABLE part

MCVars == <<part, vars, slowVars, petriVars>>

MCInit ==
    /\ part \in {"lease", "slowQuery", "workers"}
    /\ Init /\ SlowInit /\ PetriInit
    /\ part # "workers" => config = MCEtcd

MCNext ==
    /\ \/ part = "lease" /\ Next /\ UNCHANGED <<slowVars, petriVars>>
       \/ part = "slowQuery" /\ SlowNext /\ UNCHANGED <<vars, petriVars>>
       \/ part = "workers" /\ PetriNext /\ UNCHANGED <<vars, slowVars>>
    /\ UNCHANGED part

\* Each part runs under the fairness its own module justifies.  Of a part that
\* stands still in its initial state no fair action is enabled, but for the
\* lease, whose LeaseFairness is therefore restated for the case that it runs.
Lease_(A) == part = "lease" /\ A
MCLeaseFairness ==
    /\ WF_vars(Lease_(LoopStop)) /\ WF_vars(Lease_(RestartSyncer)) /\ WF_vars(Lease_(LoopRestart))
    /\ SF_vars(Lease_(ReloadBegin("loop"))) /\ SF_vars(Lease_(ReloadLoad))
    /\ SF_vars(Lease_(ReloadSync))
    /\ WF_vars(Lease_(ReloadReset)) /\ WF_vars(Lease_(ReloadUpdate))

MCFairness == MCLeaseFairness /\ SlowFairness /\ PetriFairness

\* VersionsReachValidator of SchemaLease, where that part runs: every version
\* the owner publishes, the first included, reaches the validator unless the
\* session is lost again (loadSchemaInLoop, Reload).
LeaseCatchesUp == part = "lease" => VersionsReachValidator

MCSpec == MCInit /\ [][MCNext]_MCVars /\ MCFairness

=============================================================================
