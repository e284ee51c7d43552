----------------------------- MODULE PartsProofs -----------------------------
(***************************************************************************)
(* Proofs about two small components, for any set of services, servers and *)
(* variables and without their bounds: the safe points of the placement    *)
(* driver, and the cache of global variables a server answers from.        *)
(***************************************************************************)
EXTENDS SafePoint, GlobalVars, WellFoundedInduction, TLAPS

-----------------------------------------------------------------------------
(* The safe points. *)

\* The collector's own registration is what protects a service that registers
\* after the collector asked: from the first answer it trusts on it is there, and
\* its point is one of those a newcomer is compared with.
SafePointInv ==
    /\ gcSafePoint \in Nat
    /\ serviceSafePoints = [s \in Registered |-> serviceSafePoints[s]]
    /\ \A s \in Registered : serviceSafePoints[s] \in Nat
    /\ gcMin = [known |-> gcMin.known, point |-> gcMin.point]
    /\ gcMin.known => /\ GCWorker \in Registered /\ gcMin.point \in Nat
                      /\ \A s \in Registered : gcMin.point <= serviceSafePoints[s]
    /\ gcSafePoint > 0 => GCWorker \in Registered
    /\ SafePointRespected

\* Min finds the least of some natural numbers.
LEMMA MinNat ==
    ASSUME NEW S, S \subseteq Nat, S # {}
    PROVE  Min(S) \in S /\ \A y \in S : Min(S) <= y
<1> DEFINE R == OpToRel(<, Nat)
<1>1. IsWellFoundedOn(R, Nat)
  BY NatLessThanWellFounded
<1>2. \A x, y \in Nat : y < x => <<y, x>> \in R
  BY DEF OpToRel
<1> HIDE DEF R
<1>3. PICK x \in S : \A y \in S : ~(<<y, x>> \in R)
  BY <1>1, WFMin
<1>4. ASSUME NEW y \in S
      PROVE  x <= y
  <2>1. x \in Nat /\ y \in Nat
    OBVIOUS
  <2>2. ~(y < x)
    BY <1>2, <1>3, <2>1
  <2> QED  BY <2>1, <2>2
<1> QED  BY <1>4 DEF Min

\* Least is a registered point and below all of them.
LEMMA LeastRegistered ==
    ASSUME NEW f, DOMAIN f # {}, \A s \in DOMAIN f : f[s] \in Nat
    PROVE  /\ Least(f) \in Nat
           /\ \E s \in DOMAIN f : Least(f) = f[s]
           /\ \A s \in DOMAIN f : Least(f) <= f[s]
<1> DEFINE S == {f[s] : s \in DOMAIN f}
<1>1. S \subseteq Nat /\ S # {}
  OBVIOUS
<1> HIDE DEF S
<1>2. Min(S) \in S /\ \A y \in S : Min(S) <= y
  BY <1>1, MinNat
<1> QED  BY <1>1, <1>2 DEF S, Least

\* A registration keeps the points above a bound that all the registered points
\* keep, if there is one.
LEMMA RegistrationKeeps ==
    ASSUME SafePointInv, NEW s, NEW p \in Nat
    PROVE  LET f == Registration(s, p)
           IN  /\ f = [x \in DOMAIN f |-> f[x]] /\ DOMAIN f # {}
               /\ Registered \subseteq DOMAIN f
               /\ \A x \in DOMAIN f : f[x] \in Nat
               /\ \A b \in Nat : (Registered # {} /\ \A x \in Registered : b <= serviceSafePoints[x])
                                   => \A x \in DOMAIN f : b <= f[x]
<1> DEFINE f == Registration(s, p)
<1>1. CASE Registered = {} \/ Least(serviceSafePoints) <= p
  <2>1. f = [x \in Registered \cup {s} |-> IF x = s THEN p ELSE serviceSafePoints[x]]
    BY <1>1 DEF Registration
  <2>2. ASSUME NEW b \in Nat, Registered # {}, \A x \in Registered : b <= serviceSafePoints[x]
        PROVE  b <= p
    <3>1. /\ Least(serviceSafePoints) \in Nat
          /\ \E x \in Registered : Least(serviceSafePoints) = serviceSafePoints[x]
      BY <2>2, LeastRegistered DEF SafePointInv, Registered
    <3>2. b <= Least(serviceSafePoints)
      BY <2>2, <3>1
    <3> QED  BY <1>1, <2>2, <3>1, <3>2
  <2> HIDE DEF f
  <2> QED  BY <2>1, <2>2 DEF SafePointInv, f
<1>2. CASE ~(Registered = {} \/ Least(serviceSafePoints) <= p)
  <2>1. f = serviceSafePoints /\ Registered # {}
    BY <1>2 DEF Registration
  <2> HIDE DEF f
  <2> QED  BY <2>1 DEF SafePointInv, f, Registered
<1> QED  BY <1>1, <1>2

\* Every step keeps the invariant.
LEMMA SafePointStep == SafePointInv /\ [SafePointNext]_safePointVars => SafePointInv'
<1> SUFFICES ASSUME SafePointInv, [SafePointNext]_safePointVars
             PROVE  SafePointInv'
  OBVIOUS
<1> USE DEF Registered
<1>0. \A p \in Point : p \in Nat
  BY SafePointAssumption
<1>1. ASSUME NEW s \in Service, NEW p \in Point, UpdateServiceGCSafePoint(s, p)
      PROVE  SafePointInv'
  <2> DEFINE f == Registration(s, p)
  <2>1. /\ f = [x \in DOMAIN f |-> f[x]] /\ DOMAIN f # {}
        /\ Registered \subseteq DOMAIN f
        /\ \A x \in DOMAIN f : f[x] \in Nat
        /\ \A b \in Nat : (Registered # {} /\ \A x \in Registered : b <= serviceSafePoints[x])
                            => \A x \in DOMAIN f : b <= f[x]
    BY <1>0, RegistrationKeeps
  <2>2. serviceSafePoints' = f /\ gcSafePoint' = gcSafePoint /\ gcMin' = gcMin
    BY <1>1 DEF UpdateServiceGCSafePoint
  <2> HIDE DEF f
  <2>3. \A x \in DOMAIN f : gcSafePoint <= f[x]
    <3>1. CASE gcSafePoint = 0
      BY <2>1, <3>1
    <3>2. CASE gcSafePoint > 0
      BY <2>1, <3>2 DEF SafePointInv, SafePointRespected
    <3> QED  BY <3>1, <3>2 DEF SafePointInv
  <2>4. gcMin.known => \A x \in DOMAIN f : gcMin.point <= f[x]
    BY <2>1 DEF SafePointInv
  <2> QED  BY <2>1, <2>2, <2>3, <2>4 DEF SafePointInv, SafePointRespected
<1>2. ASSUME NEW s \in Service, RemoveService(s)
      PROVE  SafePointInv'
  <2>1. s # GCWorker
    BY SafePointAssumption
  <2>2. /\ serviceSafePoints' = [x \in Registered \ {s} |-> serviceSafePoints[x]]
        /\ gcSafePoint' = gcSafePoint /\ gcMin' = gcMin
    BY <1>2 DEF RemoveService
  <2> QED  BY <2>1, <2>2 DEF SafePointInv, SafePointRespected
<1>3. ASSUME NEW p \in Point, CollectorAsks(p)
      PROVE  SafePointInv'
  <2> DEFINE f == Registration(GCWorker, p)
  <2>1. /\ f = [x \in DOMAIN f |-> f[x]] /\ DOMAIN f # {}
        /\ Registered \subseteq DOMAIN f
        /\ \A x \in DOMAIN f : f[x] \in Nat
        /\ \A b \in Nat : (Registered # {} /\ \A x \in Registered : b <= serviceSafePoints[x])
                            => \A x \in DOMAIN f : b <= f[x]
    BY <1>0, RegistrationKeeps
  <2>2. /\ serviceSafePoints' = f /\ gcSafePoint' = gcSafePoint
        /\ gcMin' = [known |-> GCWorker \in DOMAIN f, point |-> Least(f)]
    BY <1>3 DEF CollectorAsks
  <2> HIDE DEF f
  <2>3. \A x \in DOMAIN f : gcSafePoint <= f[x]
    <3>1. CASE gcSafePoint = 0
      BY <2>1, <3>1
    <3>2. CASE gcSafePoint > 0
      BY <2>1, <3>2 DEF SafePointInv, SafePointRespected
    <3> QED  BY <3>1, <3>2 DEF SafePointInv
  <2>4. Least(f) \in Nat /\ \A x \in DOMAIN f : Least(f) <= f[x]
    BY <2>1, LeastRegistered
  <2> QED  BY <2>1, <2>2, <2>3, <2>4 DEF SafePointInv, SafePointRespected
<1>4. ASSUME UpdateGCSafePoint
      PROVE  SafePointInv'
  BY <1>4 DEF UpdateGCSafePoint, SafePointInv, SafePointRespected
<1>5. CASE UNCHANGED safePointVars
  BY <1>5 DEF safePointVars, SafePointInv, SafePointRespected
<1> QED  BY <1>1, <1>2, <1>3, <1>4, <1>5 DEF SafePointNext

\* The safe point of the store never passes that of a registered service, for
\* any services and points (UFIDelateServiceGCSafePoint and the collector's use of
\* its answer).
THEOREM SafePointRespectedHolds == SafePointSpec => []SafePointRespected
<1>1. SafePointInit => SafePointInv
  BY DEF SafePointInit, SafePointInv, SafePointRespected, Registered
<1>2. SafePointInv => SafePointRespected
  BY DEF SafePointInv
<1> QED  BY <1>1, <1>2, SafePointStep, PTL DEF SafePointSpec

-----------------------------------------------------------------------------
(* The global variables. *)

\* There is one load at a time; what it has read lies between the cache and the
\* table, and once it has filled the cache nobody else does before it ends.
VarInv ==
    /\ varTable \in Nat /\ serverVars \in Nat /\ varCache.version \in Nat
    /\ varCache = [version |-> varCache.version, lastModify |-> varCache.lastModify,
                   disable |-> varCache.disable]
    /\ flight \in [Caller -> [stage : {"none", "begun", "loaded", "cached"}, version : Nat,
                              joined : SUBSET Caller]]
    /\ serverVars <= varCache.version /\ varCache.version <= varTable
    /\ \A l, m \in Caller : flight[l].stage # "none" /\ flight[m].stage # "none" => l = m
    /\ \A l \in Caller :
         /\ flight[l].stage = "none" => flight[l] = NoFlight
         /\ flight[l].stage = "loaded" => /\ varCache.version <= flight[l].version
                                          /\ flight[l].version <= varTable
         /\ flight[l].stage = "cached" => flight[l].version = varCache.version

\* What a step may do to the versions.
VersionsGrow ==
    /\ varCache'.version >= varCache.version
    /\ serverVars' >= serverVars
    /\ serverVars' <= varCache'.version

\* The invariant holds in the beginning.
LEMMA VarInitInv == VarInit => VarInv
<1> SUFFICES ASSUME VarInit
             PROVE  VarInv
  OBVIOUS
<1>1. flight = [c \in Caller |-> NoFlight]
  BY DEF VarInit
<1>2. NoFlight \in [stage : {"none", "begun", "loaded", "cached"}, version : Nat,
                    joined : SUBSET Caller] /\ NoFlight.stage = "none"
  BY DEF NoFlight
<1>3. /\ varTable = 1 /\ serverVars = 0
      /\ varCache = [version |-> 0, lastModify |-> -CacheExpiry, disable |-> FALSE]
  BY DEF VarInit
<1> QED  BY <1>1, <1>2, <1>3 DEF VarInv

\* Every step keeps the invariant and moves no version back.
LEMMA VarStep == VarInv /\ [VarNext]_varVars => VarInv' /\ VersionsGrow
<1> SUFFICES ASSUME VarInv, [VarNext]_varVars
             PROVE  VarInv' /\ VersionsGrow
  OBVIOUS
<1> DEFINE Flight == [stage : {"none", "begun", "loaded", "cached"}, version : Nat,
                      joined : SUBSET Caller]
<1>0. /\ NoFlight \in Flight /\ NoFlight.stage = "none"
  BY DEF NoFlight
<1>1. ASSUME UNCHANGED <<varTable, serverVars, flight>>,
             varCache' = varCache \/ \E d : varCache' = [varCache EXCEPT !.disable = d]
      PROVE  VarInv' /\ VersionsGrow
  BY <1>1 DEF VarInv, VersionsGrow
<1>2. ASSUME NEW c \in Caller, JoinFlight(c)
      PROVE  VarInv' /\ VersionsGrow
  <2>0. UNCHANGED <<varTable, varCache, serverVars>>
    BY <1>2 DEF JoinFlight
  <2>1. CASE (\A l \in Caller : flight[l] = NoFlight) /\ Begun(c)
    <3> DEFINE b == [NoFlight EXCEPT !.stage = "begun", !.joined = {c}]
    <3>1. b \in Flight /\ b.stage = "begun"
      BY DEF NoFlight
    <3>2. flight' = [flight EXCEPT ![c] = b]
      BY <2>1 DEF Begun
    <3> HIDE DEF b
    <3> QED  BY <1>0, <2>0, <2>1, <3>1, <3>2 DEF VarInv, VersionsGrow
  <2>2. CASE \E l \in Caller : /\ flight[l] # NoFlight
                               /\ flight' = [flight EXCEPT ![l].joined = @ \cup {c}]
    <3>1. PICK l \in Caller : /\ flight[l] # NoFlight
                              /\ flight' = [flight EXCEPT ![l].joined = @ \cup {c}]
      BY <2>2
    <3>2. flight[l].stage # "none" /\ flight[l] \in Flight
      BY <3>1 DEF VarInv
    <3> DEFINE b == [flight[l] EXCEPT !.joined = flight[l].joined \cup {c}]
    <3>3. b \in Flight /\ b.stage = flight[l].stage /\ b.version = flight[l].version
      BY <3>2
    <3>4. flight' = [flight EXCEPT ![l] = b]
      BY <3>1
    <3> HIDE DEF b
    <3> QED  BY <2>0, <3>2, <3>3, <3>4 DEF VarInv, VersionsGrow
  <2> QED  BY <1>2, <2>1, <2>2 DEF JoinFlight
<1>3. ASSUME NEW l \in Caller, LoadRead(l)
      PROVE  VarInv' /\ VersionsGrow
  <2> DEFINE b == [flight[l] EXCEPT !.stage = "loaded", !.version = varTable]
  <2>1. flight[l] \in Flight /\ varTable \in Nat
    BY DEF VarInv
  <2>2. b \in Flight /\ b.stage = "loaded" /\ b.version = varTable
    BY <2>1
  <2>3. /\ flight[l].stage = "begun" /\ flight' = [flight EXCEPT ![l] = b]
        /\ UNCHANGED <<varTable, varCache, serverVars>>
    BY <1>3 DEF LoadRead
  <2> HIDE DEF b
  <2> QED  BY <2>2, <2>3 DEF VarInv, VersionsGrow
<1>4. ASSUME NEW l \in Caller, LoadFail(l)
      PROVE  VarInv' /\ VersionsGrow
  <2>1. flight' = [flight EXCEPT ![l] = NoFlight] /\ UNCHANGED <<varTable, varCache, serverVars>>
    BY <1>4 DEF LoadFail
  <2> QED  BY <1>0, <2>1 DEF VarInv, VersionsGrow
<1>5. ASSUME NEW l \in Caller, UpdateVarCache(l)
      PROVE  VarInv' /\ VersionsGrow
  <2> DEFINE b == [flight[l] EXCEPT !.stage = "cached"]
  <2>1. flight[l] \in Flight
    BY DEF VarInv
  <2>2. b \in Flight /\ b.stage = "cached" /\ b.version = flight[l].version
    BY <2>1
  <2>3. /\ flight[l].stage = "loaded" /\ flight' = [flight EXCEPT ![l] = b]
        /\ varCache' = [varCache EXCEPT !.version = flight[l].version, !.lastModify = varClock]
        /\ UNCHANGED <<varTable, serverVars>>
    BY <1>5 DEF UpdateVarCache
  <2>4. varCache'.version = flight[l].version
        /\ varCache' = [version |-> varCache'.version, lastModify |-> varCache'.lastModify,
                        disable |-> varCache'.disable]
    BY <2>3 DEF VarInv
  <2> HIDE DEF b
  <2> QED  BY <2>1, <2>2, <2>3, <2>4 DEF VarInv, VersionsGrow
<1>6. ASSUME NEW l \in Caller, ApplyServerVars(l)
      PROVE  VarInv' /\ VersionsGrow
  <2>1. /\ flight[l].stage = "cached" /\ serverVars' = flight[l].version
        /\ flight' = [flight EXCEPT ![l] = NoFlight] /\ UNCHANGED <<varTable, varCache>>
    BY <1>6 DEF ApplyServerVars
  <2> QED  BY <1>0, <2>1 DEF VarInv, VersionsGrow
<1>7. ASSUME SetGlobal
      PROVE  VarInv' /\ VersionsGrow
  <2>1. varTable' = varTable + 1 /\ UNCHANGED <<varCache, serverVars, flight>>
    BY <1>7 DEF SetGlobal
  <2>2. \A l \in Caller : flight[l].version \in Nat
    BY DEF VarInv
  <2> QED  BY <2>1, <2>2 DEF VarInv, VersionsGrow
<1>8. CASE \/ \E c \in Caller : GetVars(c) \/ AskAgain(c)
           \/ Disable \/ VarTick \/ UNCHANGED varVars
  BY <1>1, <1>8 DEF GetVars, AskAgain, Disable, VarTick, varVars
<1> QED  BY <1>2, <1>3, <1>4, <1>5, <1>6, <1>7, <1>8 DEF VarNext

\* Neither the cache nor the variables that act in the server ever go back, for
\* any number of sessions that ask (LoadGlobalVariables, UFIDelate).
THEOREM VarsNeverGoBackHolds == VarSpec => VarsNeverGoBack
<1>1. VarInv /\ [VarNext]_varVars =>
        [/\ varCache'.version >= varCache.version
         /\ serverVars' >= serverVars
         /\ serverVars' <= varCache'.version]_varVars
  BY VarStep DEF VersionsGrow
<1> QED  BY <1>1, VarInitInv, VarStep, PTL DEF VarSpec, VarsNeverGoBack

=============================================================================
