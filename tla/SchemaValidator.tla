--------------------------- MODULE SchemaValidator ---------------------------
(***************************************************************************)
(* The schema validator (petri/schema_validator.go): whether a transaction *)
(* that was planned with an older schema version may still commit.  Every  *)
(* operation runs under schemaValidator.mux.  A schema change is the list  *)
(* of pairs <<table, action>> of a RelatedSchemaChange; time is counted in *)
(* the milliseconds of the lease.  SchemaLease composes the operations     *)
(* with their callers.                                                     *)
(***************************************************************************)
EXTENDS Integers, Sequences, FiniteSets

CONSTANTS
    Table,              \* physical table IDs
    Action,             \* kinds of schema changes
    Lease,              \* the schema lease
    MaxDeltaSchemaCount \* capacity of the queue of changes

ASSUME ValidatorAssumption == Lease \in Nat /\ MaxDeltaSchemaCount \in Int

VARIABLES
    isStarted,
    latestSchemaVer,
    latestSchemaExpire,
    deltaSchemaInfos    \* queue of [ver, ids], the oldest first

validatorVars == <<isStarted, latestSchemaVer, latestSchemaExpire, deltaSchemaInfos>>

Change == Seq(Table \X Action)

Elements(change) == {change[i] : i \in DOMAIN change}

TouchedTables(change) == {c[1] : c \in Elements(change)}

ValidatorTypeOK ==
    /\ isStarted \in BOOLEAN
    /\ latestSchemaVer \in Nat
    /\ latestSchemaExpire \in Int
    /\ deltaSchemaInfos \in Seq([ver : Nat, ids : Change])

\* NewSchemaValidator; the zero time is before every timestamp.
ValidatorInit ==
    /\ isStarted = TRUE
    /\ latestSchemaVer = 0
    /\ latestSchemaExpire = -1
    /\ deltaSchemaInfos = <<>>

Stop ==
    /\ isStarted' = FALSE
    /\ latestSchemaVer' = 0
    /\ deltaSchemaInfos' = <<>>
    /\ UNCHANGED latestSchemaExpire

\* Restart brings back neither the version nor the history, and keeps the expiry.
Restart ==
    /\ isStarted' = TRUE
    /\ UNCHANGED <<latestSchemaVer, latestSchemaExpire, deltaSchemaInfos>>

Reset ==
    /\ isStarted' = TRUE
    /\ latestSchemaVer' = 0
    /\ deltaSchemaInfos' = <<>>
    /\ UNCHANGED latestSchemaExpire

\* Mutant of ContainIn: the containment is tested the wrong way round.
ContainInSwapped(last, cur) == Elements(cur) \subseteq Elements(last)

\* containIn: the list of the last delta is not the longer one, and each of its
\* pairs is in the current one.
ContainIn(last, cur) == Len(last) <= Len(cur) /\ Elements(last) \subseteq Elements(cur)

\* The newest delta is replaced by one that contains it, but never the first
\* one; the queue loses its head when it grows over its capacity.
Enqueue(q, delta) ==
    LET n == Len(q)
        merged == IF n > 1 /\ ContainIn(q[n].ids, delta.ids)
                  THEN [q EXCEPT ![n] = delta] ELSE Append(q, delta)
    IN  IF MaxDeltaSchemaCount <= 0 THEN q
        ELSE IF n = 0 THEN <<delta>>
        ELSE IF Len(merged) > MaxDeltaSchemaCount THEN Tail(merged) ELSE merged

\* Mutant of Update: an unchanged version only renews the lease.
UpdateOnChangeOnly(leaseGrantTS, oldVer, currVer, change) ==
    IF ~isStarted THEN UNCHANGED validatorVars
    ELSE /\ latestSchemaExpire' = leaseGrantTS + Lease - 1
         /\ IF currVer # oldVer
            THEN /\ latestSchemaVer' = currVer
                 /\ deltaSchemaInfos' =
                      Enqueue(deltaSchemaInfos, [ver |-> currVer, ids |-> change])
            ELSE UNCHANGED <<latestSchemaVer, deltaSchemaInfos>>
         /\ UNCHANGED isStarted

\* UFIDelate renews the lease, and records the change if the version moved.
Update(leaseGrantTS, oldVer, currVer, change) ==
    IF ~isStarted THEN UNCHANGED validatorVars
    ELSE /\ latestSchemaVer' = currVer
         /\ latestSchemaExpire' = leaseGrantTS + Lease - 1
         /\ deltaSchemaInfos' =
              IF currVer # oldVer
              THEN Enqueue(deltaSchemaInfos, [ver |-> currVer, ids |-> change])
              ELSE deltaSchemaInfos
         /\ UNCHANGED isStarted

\* Mutant of NewerDeltas: the scan starts one position too early.
NewerDeltasButLast(ver) ==
    {i \in DOMAIN deltaSchemaInfos :
        /\ i < Len(deltaSchemaInfos)
        /\ \A j \in i .. Len(deltaSchemaInfos) - 1 : deltaSchemaInfos[j].ver > ver}

\* findNewerDeltas: the longest suffix of the queue that is newer than ver.
NewerDeltas(ver) ==
    {i \in DOMAIN deltaSchemaInfos :
        \A j \in i .. Len(deltaSchemaInfos) : deltaSchemaInfos[j].ver > ver}

\* A version older than the whole history counts as changed.
IsRelatedTablesChanged(ver, tables) ==
    \/ NewerDeltas(ver) = DOMAIN deltaSchemaInfos
    \/ \E i \in NewerDeltas(ver) : TouchedTables(deltaSchemaInfos[i].ids) \cap tables # {}

Check(txnTS, schemaVer, tables) ==
    IF ~isStarted THEN "Unknown"
    ELSE IF Lease = 0 THEN "Succ"
    ELSE IF schemaVer < latestSchemaVer
         THEN IF tables = {} \/ IsRelatedTablesChanged(schemaVer, tables)
              THEN "Fail" ELSE "Succ"
    ELSE IF txnTS > latestSchemaExpire THEN "Unknown" ELSE "Succ"

=============================================================================
