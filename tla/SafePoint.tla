------------------------------ MODULE SafePoint ------------------------------
(***************************************************************************)
(* The garbage collection safe points of the placement driver mock.        *)
(* Services keep versions by registering a safe point.  The collector      *)
(* (outside this repository) registers itself like a service, is told the  *)
(* least safe point, and later raises the safe point of the store to it;   *)
(* it never removes its own registration, and trusts the answer only when  *)
(* its registration was not refused.                                       *)
(***************************************************************************)
EXTENDS Integers, FiniteSets, FiniteSetsExt

CONSTANTS
    Service,        \* the services, the collector not included
    GCWorker,       \* the collector
    Point           \* safe points, natural numbers

ASSUME SafePointAssumption == GCWorker \notin Service /\ Point \subseteq Nat

VARIABLES
    gcSafePoint,
    serviceSafePoints,  \* a function on the registered services
    gcMin               \* what the collector was told, and whether it was

safePointVars == <<gcSafePoint, serviceSafePoints, gcMin>>

SafePointInit ==
    /\ gcSafePoint = 0
    /\ serviceSafePoints = <<>>
    /\ gcMin = [known |-> FALSE, point |-> 0]

Registered == DOMAIN serviceSafePoints
Least(f) == Min({f[s] : s \in DOMAIN f})

\* Mutant: everyone is registered.
RegistrationUnchecked(s, p) ==
    [x \in Registered \cup {s} |-> IF x = s THEN p ELSE serviceSafePoints[x]]

\* UFIDelateServiceGCSafePoint with a positive TTL: below the least point of
\* the others a service is not registered.
Registration(s, p) ==
    IF Registered = {} \/ Least(serviceSafePoints) <= p
    THEN [x \in Registered \cup {s} |-> IF x = s THEN p ELSE serviceSafePoints[x]]
    ELSE serviceSafePoints

UpdateServiceGCSafePoint(s, p) ==
    /\ serviceSafePoints' = Registration(s, p)
    /\ UNCHANGED <<gcSafePoint, gcMin>>

\* With TTL 0.
RemoveService(s) ==
    /\ s \in Registered
    /\ serviceSafePoints' = [x \in Registered \ {s} |-> serviceSafePoints[x]]
    /\ UNCHANGED <<gcSafePoint, gcMin>>

\* The collector registers and keeps the answer,
CollectorAsks(p) ==
    /\ serviceSafePoints' = Registration(GCWorker, p)
    /\ gcMin' = [known |-> GCWorker \in DOMAIN serviceSafePoints',
                 point |-> Least(serviceSafePoints')]
    /\ UNCHANGED gcSafePoint

\* and raises the safe point to it.
UpdateGCSafePoint ==
    /\ gcMin.known
    /\ gcSafePoint' = IF gcMin.point > gcSafePoint THEN gcMin.point ELSE gcSafePoint
    /\ gcMin' = [known |-> FALSE, point |-> 0]
    /\ UNCHANGED serviceSafePoints

SafePointNext ==
    \/ \E s \in Service, p \in Point : UpdateServiceGCSafePoint(s, p)
    \/ \E s \in Service : RemoveService(s)
    \/ \E p \in Point : CollectorAsks(p)
    \/ UpdateGCSafePoint

SafePointSpec == SafePointInit /\ [][SafePointNext]_safePointVars

\* The safe point of the store never passes that of a registered service: a
\* service that registers, moves or leaves between the collector's question
\* and its update cannot lose versions (UFIDelateServiceGCSafePoint refuses
\* what lies below the least registered point).
SafePointRespected ==
    \A s \in Registered : gcSafePoint <= serviceSafePoints[s]

=============================================================================
