------------------------------ MODULE GlobalVars ------------------------------
(***************************************************************************)
(* GlobalVariableCache: the rows of the global variables, kept for a short *)
(* time, loaded by one caller at a time on behalf of all that ask          *)
(* meanwhile.  The contents of the table is a version number.              *)
(***************************************************************************)
EXTENDS Integers, FiniteSets

CONSTANTS
    Caller,             \* sessions that ask for the variables
    CacheExpiry,        \* globalVariableCacheExpiry
    MaxVarVersion, MaxVarClock  \* bounds

VARIABLES
    varTable,           \* the version in storage
    varCache,           \* [version, lastModify, disable]
    serverVars,         \* the version checkEnableServerGlobalVar applied last
    flight,             \* the loads in progress, by the caller who leads
    caller,             \* where each caller is, and its result
    varClock

varVars == <<varTable, varCache, serverVars, flight, caller, varClock>>

NoFlight == [stage |-> "none", version |-> 0, joined |-> {}]

VarInit ==
    /\ varTable = 1
    /\ varCache = [version |-> 0, lastModify |-> -CacheExpiry, disable |-> FALSE]
    /\ serverVars = 0
    /\ flight = [c \in Caller |-> NoFlight]
    /\ caller = [c \in Caller |-> [at |-> "idle", got |-> 0]]
    /\ varClock = 0

CacheValid == varClock - varCache.lastModify < CacheExpiry /\ ~varCache.disable

\* LoadGlobalVariables: a valid cache answers at once.
GetVars(c) ==
    /\ caller[c].at = "idle"
    /\ caller' = [caller EXCEPT ![c] =
          IF CacheValid THEN [at |-> "done", got |-> varCache.version]
          ELSE [at |-> "missed", got |-> 0]]
    /\ UNCHANGED <<varTable, varCache, serverVars, flight, varClock>>

Begun(c) == flight' = [flight EXCEPT ![c] = [NoFlight EXCEPT !.stage = "begun", !.joined = {c}]]

\* Mutant: everyone loads for himself.
JoinFlightAlone(c) ==
    /\ caller[c].at = "missed"
    /\ Begun(c)
    /\ caller' = [caller EXCEPT ![c].at = "waiting"]
    /\ UNCHANGED <<varTable, varCache, serverVars, varClock>>

\* SingleFight.Do: join the load in progress or begin one.
JoinFlight(c) ==
    /\ caller[c].at = "missed"
    /\ \/ /\ \A l \in Caller : flight[l] = NoFlight
          /\ Begun(c)
       \/ \E l \in Caller :
            /\ flight[l] # NoFlight
            /\ flight' = [flight EXCEPT ![l].joined = @ \cup {c}]
    /\ caller' = [caller EXCEPT ![c].at = "waiting"]
    /\ UNCHANGED <<varTable, varCache, serverVars, varClock>>

\* The load that l leads: loadFn reads the table,
LoadRead(l) ==
    /\ flight[l].stage = "begun"
    /\ flight' = [flight EXCEPT ![l].stage = "loaded", ![l].version = varTable]
    /\ UNCHANGED <<varTable, varCache, serverVars, caller, varClock>>

\* or fails, and all who joined get the error.
LoadFail(l) ==
    /\ flight[l].stage = "begun"
    /\ caller' = [c \in Caller |-> IF c \in flight[l].joined
                                   THEN [caller[c] EXCEPT !.at = "idle"] ELSE caller[c]]
    /\ flight' = [flight EXCEPT ![l] = NoFlight]
    /\ UNCHANGED <<varTable, varCache, serverVars, varClock>>

\* UFIDelate, the critical section
UpdateVarCache(l) ==
    /\ flight[l].stage = "loaded"
    /\ varCache' = [varCache EXCEPT !.version = flight[l].version, !.lastModify = varClock]
    /\ flight' = [flight EXCEPT ![l].stage = "cached"]
    /\ UNCHANGED <<varTable, serverVars, caller, varClock>>

\* and the variables that act in the server, after which the load ends.
ApplyServerVars(l) ==
    /\ flight[l].stage = "cached"
    /\ serverVars' = flight[l].version
    /\ caller' = [c \in Caller |-> IF c \in flight[l].joined
                    THEN [at |-> "done", got |-> flight[l].version] ELSE caller[c]]
    /\ flight' = [flight EXCEPT ![l] = NoFlight]
    /\ UNCHANGED <<varTable, varCache, varClock>>

AskAgain(c) ==
    /\ caller[c].at = "done"
    /\ caller' = [caller EXCEPT ![c] = [at |-> "idle", got |-> 0]]
    /\ UNCHANGED <<varTable, varCache, serverVars, flight, varClock>>

Disable ==
    /\ ~varCache.disable
    /\ varCache' = [varCache EXCEPT !.disable = TRUE]
    /\ UNCHANGED <<varTable, serverVars, flight, caller, varClock>>

\* Some session of some server changes a variable; time passes.
SetGlobal ==
    /\ varTable < MaxVarVersion
    /\ varTable' = varTable + 1
    /\ UNCHANGED <<varCache, serverVars, flight, caller, varClock>>
VarTick ==
    /\ varClock < MaxVarClock
    /\ varClock' = varClock + 1
    /\ UNCHANGED <<varTable, varCache, serverVars, flight, caller>>

VarNext ==
    \/ \E c \in Caller : GetVars(c) \/ JoinFlight(c) \/ AskAgain(c)
    \/ \E l \in Caller : LoadRead(l) \/ LoadFail(l) \/ UpdateVarCache(l) \/ ApplyServerVars(l)
    \/ Disable \/ SetGlobal \/ VarTick

VarSpec == VarInit /\ [][VarNext]_varVars

-----------------------------------------------------------------------------
(* Properties. *)

\* Neither the cache nor the variables that act in the server ever go back to
\* an older version, although loads read the table and fill the cache in
\* separate steps: there is one load at a time, and the variables are applied
\* before the next one begins (LoadGlobalVariables, UFIDelate).
VarsNeverGoBack ==
    [][/\ varCache'.version >= varCache.version
       /\ serverVars' >= serverVars
       /\ serverVars' <= varCache'.version]_varVars

=============================================================================
