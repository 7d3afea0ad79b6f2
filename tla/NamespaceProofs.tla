---------------------------- MODULE NamespaceProofs ----------------------------
(***************************************************************************)
(* Theorems about NamespacePass, for every set of services, every set of   *)
(* specs they may be given and every budget of the environment.            *)
(***************************************************************************)
EXTENDS NamespacePass, FiniteSetTheorems, SequenceTheorems, TLAPS

(* What each point of a pass knows: whom it is about, that the name it       *)
(* reclaims is not the pool's, that the members it found are in the split,   *)
(* and that only a primary has routes to write.                              *)
PassKnows ==
  /\ pc # "idle" => who \in Names
  /\ pc = "legacy" => who # seen.group
  /\ pc \in {"prune", "route"} => ready \subseteq DOMAIN seen.backends
  /\ pc = "route" => seen.primary

(* The Services a pass has seen to by then.                                  *)
AfterCanary == {"ramp", "backends", "prune", "route"}
AfterMember == {"legacy", "rules", "adapter", "hpa", "pdb", "canary", "canarysvc"} \cup AfterCanary
AfterPool == {"member"} \cup AfterMember
AddressesMade ==
  /\ pc \in AfterPool /\ seen.primary => Exists(Pool(seen.group))
  /\ pc \in AfterMember /\ seen.weighted => Exists(Member(who))
  /\ pc \in AfterCanary /\ seen.canary # Unset => Exists(CanaryOf(who))
  /\ pc \in {"prune", "route"} => \A m \in ready : Exists(Member(m))

(* As long as nothing is deleted, every Service has an owner that is there,  *)
(* so that the garbage collector has nothing to take away.                   *)
NothingCollected ==
  /\ \A n \in Names : life[n] # "terminating"
  /\ \A s \in ServiceNames : Exists(s) => Live(services[s].owner)
  /\ pc # "idle" => Live(who)
Undeleted == spent["delete"] = 0 => NothingCollected /\ AddressesMade

Inv == TypeOK /\ PassKnows /\ Undeleted

-----------------------------------------------------------------------------
LEMMA BlankTyped == Blank \in SpecType /\ NoHpa \in HpaType
  <1>1. << >> \in [{} -> 0..100]
    <2>1. << >> \in Seq(0..100) /\ Len(<< >>) = 0  BY EmptySeq
    <2>2. << >> \in [1..0 -> 0..100]  BY <2>1, LenProperties
    <2> QED  BY <2>2
  <1>2. << >> \in UNION {[M -> 0..100] : M \in SUBSET Names}
    <2>1. {} \in SUBSET Names  OBVIOUS
    <2> QED  BY <1>1, <2>1
  <1>3. (CHOOSE n \in Names : TRUE) \in Names  BY NamesAssumption
  <1>4. NoHpa \in HpaType  BY DEF NoHpa, HpaType
  <1> QED  BY <1>2, <1>3, <1>4 DEF Blank, SpecType, Unset, Counts

(* The specs a human may give.                                               *)
LEMMA SpecsTyped ==
  ASSUME NEW n \in Names, NEW s \in Specs[n]
  PROVE  s \in SpecType
  BY SpecsAssumption

LEMMA ServicesNamed ==
  ASSUME NEW n \in Names
  PROVE  {Pool(n), Member(n), CanaryOf(n)} \subseteq ServiceNames
  BY DEF Pool, Member, CanaryOf, ServiceNames

(* A member of a weighted split keeps a backend of the route.                *)
LEMMA RefsTyped ==
  ASSUME NEW n \in Names, NEW s \in SpecType, NEW next \in Shares \cup {0},
         NEW found \in SUBSET Names, found \subseteq DOMAIN s.backends
  PROVE  BackendRefs(n, s, next, found) \in SUBSET Backends
  <1>1. next \in 0..99  BY SharesAssumption DEF Percents
  <1>2. CASE found # {}
    <2>1. \A m \in found : m \in Names /\ s.backends[m] \in 0..100
      BY DEF SpecType
    <2>2. \A m \in found : /\ s.backends[m] \in Nat /\ s.backends[m] * 100 \in Nat
                           /\ s.backends[m] * (100 - next) \in Nat
                           /\ s.backends[m] * next \in Nat
      BY <1>1, <2>1
    <2>3. WeightedRefs(n, s, next, found) \subseteq Backends
      BY <2>1, <2>2 DEF WeightedRefs, Backends, Member, NextOf
    <2> QED  BY <1>2, <2>3 DEF BackendRefs
  <1>3. CASE found = {}
    <2>1. s.canary \in (0..100) \cup {Unset} /\ s.group \in Names  BY DEF SpecType
    <2>2. OwnRefs(n, s, next) \subseteq Backends
      BY <1>1, <2>1 DEF OwnRefs, Backends, Member, NextOf, Pool, CanaryOf, Unset
    <2> QED  BY <1>3, <2>2 DEF BackendRefs
  <1> QED  BY <1>2, <1>3

(* The waypoint's ceiling is a number: the services of a namespace can be    *)
(* counted.                                                                  *)
LEMMA CeilingTyped == WaypointMax(Cardinality(Meshed)) \in Nat
  <1>1. Meshed \subseteq Names /\ IsFiniteSet(Names)  BY NamesAssumption DEF Meshed
  <1>2. Cardinality(Meshed) \in Nat  BY <1>1, FS_Subset, FS_CardinalityType
  <1> QED  BY <1>2 DEF WaypointMax

LEMMA BudgetTyped ==
  ASSUME NEW s \in SpecType
  PROVE  /\ DisruptionBudget(s) \in Counts /\ FixedReplicas(s) \in Counts
         /\ s.hpa \in HpaType /\ s.group \in Names
  <1>1. s.hpa \in HpaType /\ s.replicas \in Counts /\ s.maxDown \in Counts /\ s.group \in Names
    BY DEF SpecType
  <1>2. FixedReplicas(s) \in Counts  BY <1>1 DEF FixedReplicas, Counts
  <1>3. \A e \in Counts, b \in {TRUE, FALSE} : Budget(b, e, s.maxDown) \in Counts
    BY <1>1 DEF Budget, MaxDown, Counts, Unset
  <1>4. s.singleton \in {TRUE, FALSE}  BY DEF SpecType
  <1>5. (IF UsesHpa(s) THEN s.hpa.min ELSE FixedReplicas(s)) \in Counts
    BY <1>1, <1>2 DEF HpaType, Counts
  <1>6. DisruptionBudget(s) \in Counts  BY <1>3, <1>4, <1>5 DEF DisruptionBudget
  <1> QED  BY <1>1, <1>2, <1>6

-----------------------------------------------------------------------------
(* Types are kept.                                                           *)

LEMMA TypedFromInit == Init => TypeOK
  <1> SUFFICES ASSUME Init PROVE TypeOK  OBVIOUS
  <1> USE DEF Init
  <1>1. \A n \in Names : spec[n] \in SpecType  BY SpecsTyped, BlankTyped
  <1>2. spec \in [Names -> SpecType] /\ life \in [Names -> {"absent", "live", "terminating"}]
    BY <1>1
  <1>3. /\ services \in [ServiceNames -> [owner : Names \cup {None}, mesh : BOOLEAN]]
        /\ routes \in [Names -> [Doors -> SUBSET Backends]]
    BY DEF NoService
  <1>4. /\ pods \in [Names -> Counts] /\ hpa \in [Names -> HpaType]
        /\ pdb \in [Names -> Counts] /\ canary \subseteq Names
    BY BlankTyped DEF Counts
  <1>5. seen \in SpecType /\ who \in Names \cup {None} /\ pc \in Labels
    BY BlankTyped DEF Labels
  <1> QED  BY <1>2, <1>3, <1>4, <1>5 DEF TypeOK

LEMMA SpendTyped ==
  ASSUME TypeOK, NEW kind \in Kinds, Spend(kind)
  PROVE  spent' \in [Kinds -> Nat]
  BY DEF TypeOK, Spend

LEMMA TypedByHumans ==
  ASSUME TypeOK, Humans
  PROVE  TypeOK'
  <1> SUFFICES ASSUME NEW n \in Names, Create(n) \/ EditSpec(n) \/ Delete(n) PROVE TypeOK'
    BY DEF Humans
  <1> USE DEF cluster, workload, waypoint, adapter, locals
  <1>1. CASE Create(n)
    <2>1. spent' \in [Kinds -> Nat]  BY <1>1, SpendTyped DEF Create, Kinds
    <2>2. spec' \in [Names -> SpecType]  BY <1>1, SpecsTyped DEF Create, TypeOK
    <2> QED  BY <1>1, <2>1, <2>2 DEF Create, TypeOK
  <1>2. CASE EditSpec(n)
    <2>1. spent' \in [Kinds -> Nat]  BY <1>2, SpendTyped DEF EditSpec, Kinds
    <2>2. spec' \in [Names -> SpecType]  BY <1>2, SpecsTyped DEF EditSpec, TypeOK
    <2> QED  BY <1>2, <2>1, <2>2 DEF EditSpec, TypeOK
  <1>3. CASE Delete(n)
    <2>1. spent' \in [Kinds -> Nat]  BY <1>3, SpendTyped DEF Delete, Kinds
    <2> QED  BY <1>3, <2>1 DEF Delete, TypeOK
  <1> QED  BY <1>1, <1>2, <1>3

LEMMA TypedByKubernetes ==
  ASSUME TypeOK, Kubernetes
  PROVE  TypeOK'
  <1> SUFFICES ASSUME NEW n \in Names,
                      \/ CollectServices(n) \/ CollectRoutes(n) \/ CollectWorkload(n)
                      \/ Gone(n) \/ HpaScales(n)
               PROVE  TypeOK'
    BY DEF Kubernetes
  <1> USE DEF workload, waypoint, adapter, locals
  <1>1. CASE CollectServices(n)  BY <1>1 DEF CollectServices, TypeOK, NoService
  <1>2. CASE CollectRoutes(n)  BY <1>2 DEF CollectRoutes, TypeOK
  <1>3. CASE CollectWorkload(n)  BY <1>3, BlankTyped DEF CollectWorkload, TypeOK, Counts
  <1>4. CASE Gone(n)  BY <1>4, BlankTyped DEF Gone, TypeOK
  <1>5. CASE HpaScales(n)
    <2>1. hpa[n].min \in Counts /\ hpa[n].max \in Counts  BY DEF TypeOK, HpaType, Counts
    <2> QED  BY <1>5, <2>1 DEF HpaScales, TypeOK
  <1> QED  BY <1>1, <1>2, <1>3, <1>4, <1>5

LEMMA TypedByWaypoint ==
  ASSUME TypeOK, WaypointPass
  PROVE  TypeOK'
  <1> USE DEF workload, waypoint, adapter
  <1>1. CASE LabelNamespace  BY <1>1 DEF LabelNamespace, TypeOK, Labels
  <1>2. CASE UpsertOptions
    BY <1>2, CeilingTyped DEF UpsertOptions, WaypointStep, TypeOK, Labels
  <1>3. CASE UpsertGateway  BY <1>3 DEF UpsertGateway, WaypointStep, TypeOK, Labels
  <1>4. CASE DeleteOptions  BY <1>4 DEF DeleteOptions, WaypointStep, TypeOK, Labels
  <1>5. CASE DeleteGateway  BY <1>5 DEF DeleteGateway, WaypointStep, TypeOK, Labels
  <1> QED  BY <1>1, <1>2, <1>3, <1>4, <1>5 DEF WaypointPass

LEMMA TypedBySizing ==
  ASSUME TypeOK, SizingPass
  PROVE  TypeOK'
  <1> USE DEF workload, waypoint, adapter
  <1>1. seen \in SpecType /\ rules \subseteq Windows  BY DEF TypeOK
  <1>2. CASE ReconcileDeployment
    BY <1>1, <1>2, BudgetTyped DEF ReconcileDeployment, SizingStep, TypeOK, Labels, Counts
  <1>3. CASE ReconcileHPA
    BY <1>1, <1>3, BlankTyped, BudgetTyped DEF ReconcileHPA, SizingStep, TypeOK, Labels
  <1>4. CASE ReconcilePDB
    BY <1>1, <1>4, BudgetTyped DEF ReconcilePDB, CanaryStep, SizingStep, TypeOK, Labels
  <1>5. CASE ReconcileAdapterConfig
    <2>1. \A n \in Names : spec[n].hpa.window \in Windows \cup {None}
      BY DEF TypeOK, SpecType, HpaType
    <2>2. WrittenRules \subseteq Windows
      BY <1>1, <2>1, NamesAssumption DEF WrittenRules, AskedWindows
    <2> QED  BY <1>5, <2>2 DEF ReconcileAdapterConfig, AdapterStep, TypeOK, Labels
  <1>6. CASE RolloutAdapter  BY <1>1, <1>6 DEF RolloutAdapter, AdapterStep, TypeOK, Labels
  <1>7. CASE AdapterFails
    <2>1. spent' \in [Kinds -> Nat]  BY <1>7, SpendTyped DEF AdapterFails, Kinds
    <2> QED  BY <1>7, <2>1 DEF AdapterFails, AdapterStep, TypeOK, Labels
  <1> QED  BY <1>2, <1>3, <1>4, <1>5, <1>6, <1>7 DEF SizingPass

LEMMA EndTyped ==
  ASSUME EndPass
  PROVE  /\ pc' \in Labels /\ who' \in Names \cup {None} /\ seen' \in SpecType
         /\ ready' \subseteq Names /\ todo' \subseteq Doors
  BY BlankTyped DEF EndPass, Labels

LEMMA AddressTyped ==
  ASSUME TypeOK, pc # "idle" => who \in Names,
         NEW s \in ServiceNames, NEW mesh \in BOOLEAN, NEW label \in Labels,
         \/ pc # "idle" /\ ReconcilePoolService(s, mesh, label)
         \/ DeleteOwnedService(s, label)
  PROVE  TypeOK'
  <1> USE DEF workload, waypoint, adapter
  <1>1. CASE pc # "idle" /\ ReconcilePoolService(s, mesh, label)
    <2>1. services' \in [ServiceNames -> [owner : Names \cup {None}, mesh : BOOLEAN]]
      <3> DEFINE r == [owner |-> who, mesh |-> mesh]
      <3>1. r \in [owner : Names \cup {None}, mesh : BOOLEAN]  BY DEF TypeOK
      <3>2. services' \in {services, [services EXCEPT ![s] = r]}
        BY <1>1 DEF ReconcilePoolService
      <3> HIDE DEF r
      <3> QED  BY <3>1, <3>2 DEF TypeOK
    <2>2. /\ pc' \in Labels /\ who' \in Names \cup {None} /\ seen' \in SpecType
          /\ ready' \subseteq Names /\ todo' \subseteq Doors
      BY <1>1, EndTyped DEF ReconcilePoolService, Continue, TypeOK
    <2> QED  BY <1>1, <2>1, <2>2 DEF ReconcilePoolService, TypeOK
  <1>2. CASE DeleteOwnedService(s, label)
    BY <1>2 DEF DeleteOwnedService, Continue, NoService, TypeOK
  <1> QED  BY <1>1, <1>2

LEMMA RoutesTyped ==
  ASSUME TypeOK, NEW r \in [Doors -> SUBSET Backends], NEW doors \in SUBSET Doors,
         RouteStep(r), GoOnWriting(doors)
  PROVE  TypeOK'
  <1>1. /\ pc' \in Labels /\ who' \in Names \cup {None} /\ seen' \in SpecType
        /\ ready' \subseteq Names /\ todo' \subseteq Doors
    BY EndTyped DEF GoOnWriting, TypeOK, Labels
  <1> QED  BY <1>1 DEF RouteStep, workload, waypoint, adapter, TypeOK

LEMMA TypedByPool ==
  ASSUME TypeOK, PassKnows, PoolPass
  PROVE  TypeOK'
  <1> USE DEF workload, waypoint, adapter
  <1>1. /\ seen \in SpecType /\ seen.group \in Names /\ seen.mesh \in BOOLEAN
        /\ pc # "idle" => who \in Names
    BY DEF TypeOK, SpecType, PassKnows
  <1>2. AfterServices \in Labels /\ {"member", "legacy", "ramp"} \subseteq Labels
    BY DEF AfterServices, Labels
  <1>3. CASE PoolService
    BY <1>1, <1>2, <1>3, ServicesNamed, AddressTyped DEF PoolService
  <1>4. CASE MemberService
    BY <1>1, <1>2, <1>4, ServicesNamed, AddressTyped DEF MemberService
  <1>5. CASE LegacyService
    BY <1>1, <1>2, <1>5, ServicesNamed, AddressTyped DEF LegacyService
  <1>6. CASE ReconcileCanary
    BY <1>1, <1>6 DEF ReconcileCanary, Continue, TypeOK, Labels
  <1>7. CASE CanaryService
    BY <1>1, <1>2, <1>7, ServicesNamed, AddressTyped DEF CanaryService
  <1>8. CASE RampTurn
    <2>1. spent' \in [Kinds -> Nat]
      BY <1>8, SpendTyped DEF RampTurn, Kinds, TypeOK
    <2>2. share' \in [Names -> Shares \cup {0}]  BY <1>8 DEF RampTurn, TypeOK
    <2> QED  BY <1>8, <2>1, <2>2 DEF RampTurn, Continue, TypeOK, Labels
  <1>9. CASE ResolveRouteBackends
    <2>1. Resolve(seen) \subseteq Names  BY <1>1 DEF Resolve, SpecType
    <2> QED
      BY <1>9, <2>1 DEF ResolveRouteBackends, cluster, TypeOK, Labels
  <1>10. CASE PruneRoutes
    <2>1. [d \in Doors |-> IF d \in DesiredDoors(seen, ready) THEN routes[who][d] ELSE {}]
            \in [Doors -> SUBSET Backends]
      BY <1>1, <1>10 DEF PruneRoutes, TypeOK
    <2>2. DesiredDoors(seen, ready) \in SUBSET Doors  BY DEF DesiredDoors
    <2> QED  BY <1>10, <2>1, <2>2, RoutesTyped DEF PruneRoutes
  <1>11. CASE WriteRoute
    <2>1. PICK d \in todo :
            /\ RouteStep([routes[who] EXCEPT ![d] = BackendRefs(who, seen, share[who], ready)])
            /\ GoOnWriting(todo \ {d})
      BY <1>11 DEF WriteRoute
    <2>2. who \in Names /\ share[who] \in Shares \cup {0} /\ ready \in SUBSET Names
          /\ ready \subseteq DOMAIN seen.backends /\ todo \subseteq Doors
      BY <1>11 DEF WriteRoute, TypeOK, PassKnows
    <2>3. BackendRefs(who, seen, share[who], ready) \in SUBSET Backends
      BY <1>1, <2>2, RefsTyped
    <2>4. [routes[who] EXCEPT ![d] = BackendRefs(who, seen, share[who], ready)]
            \in [Doors -> SUBSET Backends]
      BY <2>2, <2>3 DEF TypeOK
    <2> QED  BY <2>1, <2>2, <2>4, RoutesTyped
  <1> QED
    BY <1>3, <1>4, <1>5, <1>6, <1>7, <1>8, <1>9, <1>10, <1>11 DEF PoolPass

LEMMA TypedByStep ==
  ASSUME TypeOK, PassKnows, [Next]_vars
  PROVE  TypeOK'
  <1> USE DEF cluster, workload, waypoint, adapter, locals
  <1>1. ASSUME NEW n \in Names, StartPass(n) PROVE TypeOK'
    <2>1. spec[n] \in SpecType  BY DEF TypeOK
    <2> QED  BY <1>1, <2>1 DEF StartPass, TypeOK, Labels
  <1>2. CASE Pass  BY <1>2, TypedByWaypoint, TypedBySizing, TypedByPool DEF Pass
  <1>3. CASE Abandon
    <2>1. spent' \in [Kinds -> Nat]  BY <1>3, SpendTyped DEF Abandon, Kinds
    <2> QED  BY <1>3, <2>1, EndTyped DEF Abandon, TypeOK
  <1>4. CASE Environment  BY <1>4, TypedByHumans, TypedByKubernetes DEF Environment
  <1>5. CASE UNCHANGED vars  BY <1>5 DEF vars, TypeOK
  <1> QED  BY <1>1, <1>2, <1>3, <1>4, <1>5 DEF Next

-----------------------------------------------------------------------------
(* What the pass knows stays known.                                          *)

LEMMA KnownAtRest ==
  ASSUME PassKnows, UNCHANGED locals
  PROVE  PassKnows'
  BY DEF PassKnows, locals

LEMMA KnownAfterAddress ==
  ASSUME PassKnows, pc # "idle", NEW s, NEW mesh, NEW label,
         label \in {"member", "legacy", "rules", "hpa", "ramp"},
         label = "legacy" => who # seen.group,
         ReconcilePoolService(s, mesh, label) \/ DeleteOwnedService(s, label)
  PROVE  PassKnows'
  BY DEF PassKnows, ReconcilePoolService, DeleteOwnedService, Continue, EndPass

LEMMA KnownByPool ==
  ASSUME TypeOK, PassKnows, PoolPass
  PROVE  PassKnows'
  <1>1. AfterServices \in {"rules", "hpa"}  BY DEF AfterServices
  <1>2. CASE PoolService  BY <1>2, KnownAfterAddress DEF PoolService
  <1>3. CASE MemberService
    <2> DEFINE label == IF who = seen.group THEN AfterServices ELSE "legacy"
    <2>1. label \in {"legacy", "rules", "hpa"} /\ (label = "legacy" => who # seen.group)
      BY <1>1
    <2>2. \/ ReconcilePoolService(Member(who), seen.mesh, label)
          \/ DeleteOwnedService(Member(who), label)
      BY <1>3 DEF MemberService
    <2>3. pc # "idle"  BY <1>3 DEF MemberService
    <2> HIDE DEF label
    <2> QED  BY <2>1, <2>2, <2>3, KnownAfterAddress
  <1>4. CASE LegacyService  BY <1>1, <1>4, KnownAfterAddress DEF LegacyService
  <1>5. CASE ReconcileCanary  BY <1>5 DEF ReconcileCanary, Continue, PassKnows
  <1>6. CASE CanaryService  BY <1>6, KnownAfterAddress DEF CanaryService
  <1>7. CASE RampTurn  BY <1>7 DEF RampTurn, Continue, PassKnows
  <1>8. CASE ResolveRouteBackends
    BY <1>8 DEF ResolveRouteBackends, Resolve, PassKnows
  <1>9. CASE PruneRoutes
    <2>1. DesiredDoors(seen, ready) # {} => seen.primary  BY DEF DesiredDoors
    <2> QED  BY <1>9, <2>1 DEF PruneRoutes, GoOnWriting, EndPass, PassKnows
  <1>10. CASE WriteRoute  BY <1>10 DEF WriteRoute, GoOnWriting, EndPass, PassKnows
  <1> QED
    BY <1>2, <1>3, <1>4, <1>5, <1>6, <1>7, <1>8, <1>9, <1>10 DEF PoolPass

LEMMA KnownByStep ==
  ASSUME TypeOK, PassKnows, [Next]_vars
  PROVE  PassKnows'
  <1>1. ASSUME NEW n \in Names, StartPass(n) PROVE PassKnows'
    BY <1>1 DEF StartPass, PassKnows
  <1>2. CASE WaypointPass
    BY <1>2 DEF WaypointPass, LabelNamespace, UpsertOptions, UpsertGateway, DeleteOptions,
                DeleteGateway, WaypointStep, PassKnows
  <1>3. CASE SizingPass
    BY <1>3 DEF SizingPass, ReconcileDeployment, ReconcileHPA, ReconcilePDB, CanaryStep,
                ReconcileAdapterConfig, RolloutAdapter, AdapterFails, SizingStep,
                AdapterStep, PassKnows
  <1>4. CASE PoolPass  BY <1>4, KnownByPool
  <1>5. CASE Abandon  BY <1>5 DEF Abandon, EndPass, PassKnows
  <1>6. CASE Environment
    BY <1>6, KnownAtRest
       DEF Environment, Humans, Kubernetes, Create, EditSpec, Delete, CollectServices,
           CollectRoutes, CollectWorkload, Gone, HpaScales, locals
  <1>7. CASE UNCHANGED vars  BY <1>7, KnownAtRest DEF vars, locals
  <1> QED  BY <1>1, <1>2, <1>3, <1>4, <1>5, <1>6, <1>7 DEF Next, Pass

-----------------------------------------------------------------------------
(* As long as nothing is deleted, the Services a pass has made stay.         *)

LEMMA DeletionsCounted ==
  ASSUME TypeOK, [Next]_vars, spent'["delete"] = 0
  PROVE  spent["delete"] = 0 /\ \A n \in Names : ~Delete(n)
  <1>1. spent["delete"] \in Nat /\ DOMAIN spent = Kinds  BY DEF TypeOK, Kinds
  <1>2. ASSUME NEW kind \in Kinds, Spend(kind)
        PROVE  spent["delete"] = 0 /\ kind # "delete"
    BY <1>1, <1>2 DEF Spend, Kinds
  <1>3. \A n \in Names : ~Delete(n)  BY <1>2 DEF Delete, Kinds
  <1>4. CASE \E kind \in Kinds : Spend(kind)  BY <1>2, <1>3, <1>4
  <1>5. CASE spent' = spent  BY <1>3, <1>5
  <1>6. spent' = spent \/ \E kind \in Kinds : Spend(kind)
    <2> USE DEF Kinds
    <2>1. CASE Humans  BY <2>1 DEF Humans, Create, EditSpec, Delete
    <2>2. CASE Kubernetes
      BY <2>2 DEF Kubernetes, CollectServices, CollectRoutes, CollectWorkload, Gone, HpaScales
    <2>3. CASE WaypointPass
      BY <2>3 DEF WaypointPass, LabelNamespace, UpsertOptions, UpsertGateway, DeleteOptions,
                  DeleteGateway, WaypointStep
    <2>4. CASE SizingPass
      BY <2>4 DEF SizingPass, ReconcileDeployment, ReconcileHPA, ReconcilePDB,
                  ReconcileAdapterConfig, RolloutAdapter, AdapterFails, SizingStep
    <2>5. CASE PoolPass
      BY <2>5 DEF PoolPass, PoolService, MemberService, LegacyService, ReconcileCanary,
                  CanaryService, RampTurn, ResolveRouteBackends, PruneRoutes, WriteRoute,
                  ReconcilePoolService, DeleteOwnedService, RouteStep
    <2>6. CASE \E n \in Names : StartPass(n)  BY <2>6 DEF StartPass
    <2>7. CASE Abandon  BY <2>7 DEF Abandon
    <2>8. CASE UNCHANGED vars  BY <2>8 DEF vars
    <2> QED
      BY <2>1, <2>2, <2>3, <2>4, <2>5, <2>6, <2>7, <2>8 DEF Next, Pass, Environment
  <1> QED  BY <1>4, <1>5, <1>6

(* Steps that touch no Service.                                              *)
LEMMA AddressesStay ==
  ASSUME NothingCollected, AddressesMade, UNCHANGED <<life, services, who, seen>>,
         pc # "idle",
         \/ pc' = pc
         \/ pc \notin AfterPool /\ pc' \notin AfterPool \cup {"idle"}
         \/ ~seen.primary /\ pc \notin AfterPool /\ pc' = "member"
         \/ /\ pc \in AfterMember \ AfterCanary
            /\ pc' \in AfterMember \ AfterCanary \/ (pc' = "ramp" /\ seen.canary = Unset)
         \/ pc \in AfterCanary /\ pc' \in AfterCanary,
         pc' \in {"prune", "route"} => \A m \in ready' : Exists(Member(m))
  PROVE  NothingCollected' /\ AddressesMade'
  BY DEF NothingCollected, AddressesMade, AfterPool, AfterMember, AfterCanary, Exists, Live

(* A pass that is over, or has not begun to write, owes nothing.             *)
LEMMA AddressesAtRest ==
  ASSUME NothingCollected, UNCHANGED <<life, services>>,
         pc' = "idle" \/ (pc' \notin AfterPool /\ Live(who'))
  PROVE  NothingCollected' /\ AddressesMade'
  BY DEF NothingCollected, AddressesMade, AfterPool, AfterMember, AfterCanary, Exists, Live

(* A Service that is made is there, and so is every other.                   *)
LEMMA AddressMade ==
  ASSUME TypeOK, NothingCollected, pc # "idle", who \in Names,
         NEW s \in ServiceNames, NEW mesh, NEW label, label # "idle",
         ReconcilePoolService(s, mesh, label)
  PROVE  /\ NothingCollected'
         /\ \/ pc' = "idle"
            \/ /\ pc' = label /\ UNCHANGED <<who, seen>>
               /\ \A x \in ServiceNames : Exists(x) \/ x = s => Exists(x)'
  <1>1. who # None /\ Live(who)  BY NamesAssumption DEF NothingCollected
  <1>2. DOMAIN services = ServiceNames  BY DEF TypeOK
  <1>3. CASE services[s].owner \notin {None, who}
    BY <1>3 DEF ReconcilePoolService, NothingCollected, EndPass, Exists, Live
  <1>4. CASE services[s].owner \in {None, who}
    <2>1. \A x \in ServiceNames :
            services'[x].owner = IF x = s THEN who ELSE services[x].owner
      BY <1>2, <1>4 DEF ReconcilePoolService
    <2>2. \A x \in ServiceNames : Exists(x) \/ x = s => Exists(x)'
      BY <1>1, <2>1 DEF Exists
    <2>3. life' = life /\ pc' = label /\ UNCHANGED <<who, seen>>
      BY <1>4 DEF ReconcilePoolService, Continue
    <2>4. NothingCollected'
      BY <1>1, <2>1, <2>3 DEF NothingCollected, Exists, Live
    <2> QED  BY <2>2, <2>3, <2>4
  <1> QED  BY <1>3, <1>4 DEF ReconcilePoolService

LEMMA AddressDropped ==
  ASSUME TypeOK, NothingCollected, pc # "idle",
         NEW s \in ServiceNames, NEW label, label # "idle", DeleteOwnedService(s, label)
  PROVE  /\ NothingCollected' /\ pc' = label /\ UNCHANGED <<who, seen>>
         /\ \A x \in ServiceNames \ {s} : Exists(x) => Exists(x)'
  <1>1. DOMAIN services = ServiceNames  BY DEF TypeOK
  <1>2. \A x \in ServiceNames :
          services'[x].owner = IF x = s THEN None ELSE services[x].owner
    BY <1>1 DEF DeleteOwnedService, NoService
  <1>3. life' = life /\ pc' = label /\ UNCHANGED <<who, seen>>
    BY DEF DeleteOwnedService, Continue
  <1> QED  BY <1>2, <1>3 DEF NothingCollected, Exists, Live

LEMMA AddressesByPool ==
  ASSUME TypeOK, PassKnows, NothingCollected, AddressesMade, PoolPass
  PROVE  NothingCollected' /\ AddressesMade'
  <1> USE DEF AfterPool, AfterMember, AfterCanary
  <1>1. AfterServices \in {"rules", "hpa"} /\ seen.group \in Names /\ seen.mesh \in BOOLEAN
    BY DEF AfterServices, TypeOK, SpecType
  <1>2. pc # "idle" => /\ who \in Names /\ {Pool(who), Member(who), CanaryOf(who)} \subseteq ServiceNames
                       /\ Pool(seen.group) \in ServiceNames
    BY <1>1, ServicesNamed DEF PassKnows
  <1>3. \A n, m \in Names : /\ Pool(n) \notin {Member(m), CanaryOf(m)} /\ Member(n) # CanaryOf(m)
                            /\ n # m => Pool(n) # Pool(m)
    BY DEF Pool, Member, CanaryOf
  <1>4. CASE PoolService
    <2>1. pc = "pool" /\ ReconcilePoolService(Pool(seen.group), seen.mesh, "member")
      BY <1>4 DEF PoolService
    <2>2. /\ NothingCollected'
          /\ \/ pc' = "idle"
             \/ pc' = "member" /\ UNCHANGED <<who, seen>> /\ Exists(Pool(seen.group))'
      BY <1>2, <2>1, AddressMade
    <2> QED  BY <2>2 DEF AddressesMade
  <1>5. CASE MemberService
    <2> DEFINE label == IF who = seen.group THEN AfterServices ELSE "legacy"
    <2>1. pc = "member" /\ label \in {"legacy", "rules", "hpa"}  BY <1>1, <1>5 DEF MemberService
    <2>2. IF seen.weighted THEN ReconcilePoolService(Member(who), seen.mesh, label)
                           ELSE DeleteOwnedService(Member(who), label)
      BY <1>5 DEF MemberService
    <2> HIDE DEF label
    <2>3. CASE seen.weighted
      <3>1. /\ NothingCollected'
            /\ \/ pc' = "idle"
               \/ /\ pc' = label /\ UNCHANGED <<who, seen>> /\ Exists(Member(who))'
                  /\ Exists(Pool(seen.group)) => Exists(Pool(seen.group))'
        BY <1>2, <2>1, <2>2, <2>3, AddressMade
      <3> QED  BY <2>1, <3>1 DEF AddressesMade
    <2>4. CASE ~seen.weighted
      <3>1. /\ NothingCollected' /\ pc' = label /\ UNCHANGED <<who, seen>>
            /\ Exists(Pool(seen.group)) => Exists(Pool(seen.group))'
        BY <1>1, <1>2, <1>3, <2>1, <2>2, <2>4, AddressDropped
      <3> QED  BY <2>1, <2>4, <3>1 DEF AddressesMade
    <2> QED  BY <2>3, <2>4
  <1>6. CASE LegacyService
    <2>1. pc = "legacy" /\ who # seen.group /\ DeleteOwnedService(Pool(who), AfterServices)
      BY <1>6 DEF LegacyService, PassKnows
    <2>2. /\ NothingCollected' /\ pc' = AfterServices /\ UNCHANGED <<who, seen>>
          /\ Exists(Pool(seen.group)) => Exists(Pool(seen.group))'
          /\ Exists(Member(who)) => Exists(Member(who))'
      BY <1>1, <1>2, <1>3, <2>1, AddressDropped
    <2> QED  BY <1>1, <2>1, <2>2 DEF AddressesMade
  <1>7. CASE ReconcileCanary
    BY <1>7, AddressesStay DEF ReconcileCanary, Continue
  <1>8. CASE CanaryService
    <2>1. pc = "canarysvc" /\ IF seen.canary # Unset
                              THEN ReconcilePoolService(CanaryOf(who), FALSE, "ramp")
                              ELSE DeleteOwnedService(CanaryOf(who), "ramp")
      BY <1>8 DEF CanaryService
    <2>2. /\ NothingCollected'
          /\ \/ pc' = "idle"
             \/ /\ pc' = "ramp" /\ UNCHANGED <<who, seen>>
                /\ seen.canary # Unset => Exists(CanaryOf(who))'
                /\ Exists(Pool(seen.group)) => Exists(Pool(seen.group))'
                /\ Exists(Member(who)) => Exists(Member(who))'
      BY <1>1, <1>2, <1>3, <2>1, AddressMade, AddressDropped
    <2> QED  BY <2>1, <2>2 DEF AddressesMade
  <1>9. CASE RampTurn  BY <1>9, AddressesStay DEF RampTurn, Continue
  <1>10. CASE ResolveRouteBackends
    <2>1. \A m \in Resolve(seen) : Exists(Member(m))  BY DEF Resolve
    <2>2. UNCHANGED <<life, services, who, seen>> /\ pc = "backends" /\ pc' = "prune"
          /\ \A m \in ready' : Exists(Member(m))'
      BY <1>10, <2>1 DEF ResolveRouteBackends, cluster, Exists
    <2> QED  BY <2>2 DEF AddressesMade, NothingCollected, Exists, Live
  <1>11. CASE PruneRoutes \/ WriteRoute
    <2>1. UNCHANGED <<life, services>> /\ pc \in {"prune", "route"}
      BY <1>11 DEF PruneRoutes, WriteRoute, RouteStep
    <2>2. pc' = "idle" \/ (pc' = "route" /\ UNCHANGED <<who, seen, ready>>)
      BY <1>11 DEF PruneRoutes, WriteRoute, GoOnWriting, EndPass
    <2> QED  BY <2>1, <2>2 DEF AddressesMade, NothingCollected, Exists, Live
  <1> QED
    BY <1>4, <1>5, <1>6, <1>7, <1>8, <1>9, <1>10, <1>11 DEF PoolPass

LEMMA UndeletedByStep ==
  ASSUME TypeOK, PassKnows, Undeleted, [Next]_vars
  PROVE  Undeleted'
  <1> SUFFICES ASSUME spent'["delete"] = 0 PROVE NothingCollected' /\ AddressesMade'
    BY DEF Undeleted
  <1>1. NothingCollected /\ AddressesMade /\ \A n \in Names : ~Delete(n)
    BY DeletionsCounted DEF Undeleted
  <1> USE DEF cluster, workload, waypoint, adapter, locals
  <1>2. ASSUME NEW n \in Names, StartPass(n) PROVE NothingCollected' /\ AddressesMade'
    <2>1. UNCHANGED <<life, services>> /\ pc' \in {"label", "options"} /\ Live(who')
      BY <1>2 DEF StartPass, Live
    <2> QED  BY <1>1, <2>1, AddressesAtRest DEF AfterPool, AfterMember, AfterCanary
  <1>3. CASE WaypointPass
    <2>1. /\ UNCHANGED <<life, services, who, seen>>
          /\ {pc, pc'} \subseteq {"label", "options", "gateway", "ungate", "deploy"}
      BY <1>3 DEF WaypointPass, LabelNamespace, UpsertOptions, UpsertGateway, DeleteOptions,
                  DeleteGateway, WaypointStep
    <2> QED  BY <1>1, <2>1, AddressesStay DEF AfterPool, AfterMember, AfterCanary
  <1>4. CASE SizingPass
    <2>1. UNCHANGED <<life, services, who, seen, ready>>
      BY <1>4 DEF SizingPass, ReconcileDeployment, ReconcileHPA, ReconcilePDB,
                  ReconcileAdapterConfig, RolloutAdapter, AdapterFails, SizingStep, AdapterStep
    <2>2. CASE ReconcileDeployment
      <3>1. pc = "deploy" /\ pc' = IF seen.primary THEN "pool" ELSE "member"
        BY <2>2 DEF ReconcileDeployment
      <3>2. seen.primary \in BOOLEAN  BY DEF TypeOK, SpecType
      <3> QED  BY <1>1, <2>1, <3>1, <3>2, AddressesStay DEF AfterPool, AfterMember, AfterCanary
    <2>3. CASE ~ReconcileDeployment
      <3>1. /\ pc \in {"rules", "adapter", "hpa", "pdb"}
            /\ \/ pc' \in {"adapter", "hpa", "pdb", "canary"}
               \/ pc' = "ramp" /\ seen.canary = Unset
        BY <1>4, <2>3 DEF SizingPass, ReconcileHPA, ReconcilePDB, CanaryStep,
                          ReconcileAdapterConfig, RolloutAdapter, AdapterFails
      <3> QED  BY <1>1, <2>1, <3>1, AddressesStay DEF AfterPool, AfterMember, AfterCanary
    <2> QED  BY <2>2, <2>3
  <1>5. CASE PoolPass  BY <1>1, <1>5, AddressesByPool
  <1>6. CASE Abandon  BY <1>1, <1>6, AddressesAtRest DEF Abandon, EndPass
  <1>7. CASE Environment
    <2>1. UNCHANGED <<pc, who, seen, ready>>
      BY <1>7 DEF Environment, Humans, Kubernetes, Create, EditSpec, Delete, CollectServices,
                  CollectRoutes, CollectWorkload, Gone, HpaScales
    <2>2. \A n \in Names : ~CollectServices(n)
      BY <1>1, NamesAssumption DEF CollectServices, NothingCollected, Exists
    <2>3. services' = services
      BY <1>1, <1>7, <2>2 DEF Environment, Humans, Kubernetes, Create, EditSpec, CollectRoutes,
                              CollectWorkload, Gone, HpaScales
    <2>4. \A n \in Names : life'[n] = life[n] \/ life'[n] = "live"
      <3>1. \A n \in Names : ~Gone(n)  BY <1>1 DEF Gone, NothingCollected
      <3>2. ASSUME NEW n \in Names, Create(n)
            PROVE  \A m \in Names : life'[m] = life[m] \/ life'[m] = "live"
        BY <3>2 DEF Create, TypeOK
      <3>3. life' = life \/ \E n \in Names : Create(n)
        BY <1>1, <1>7, <2>2, <3>1 DEF Environment, Humans, Kubernetes, EditSpec, CollectRoutes,
                                CollectWorkload, HpaScales
      <3> QED  BY <3>2, <3>3
    <2>5. \A s \in ServiceNames : Exists(s) => services[s].owner \in Names
      BY DEF TypeOK, Exists
    <2>6. NothingCollected'
      BY <1>1, <2>1, <2>3, <2>4, <2>5 DEF NothingCollected, Exists, Live, PassKnows
    <2> QED  BY <1>1, <2>1, <2>3, <2>6 DEF AddressesMade, Exists
  <1>8. CASE UNCHANGED vars
    BY <1>1, <1>8 DEF vars, NothingCollected, AddressesMade, Exists, Live
  <1> QED  BY <1>2, <1>3, <1>4, <1>5, <1>6, <1>7, <1>8 DEF Next, Pass

LEMMA Invariance == Spec => []Inv
  <1>1. Init => Inv
    <2> SUFFICES ASSUME Init PROVE Inv  OBVIOUS
    <2>1. TypeOK  BY TypedFromInit
    <2>2. PassKnows  BY DEF Init, PassKnows
    <2>3. NothingCollected
      BY DEF Init, NothingCollected, Exists, NoService
    <2>4. AddressesMade  BY DEF Init, AddressesMade, AfterPool, AfterMember, AfterCanary
    <2> QED  BY <2>1, <2>2, <2>3, <2>4 DEF Inv, Undeleted
  <1>2. Inv /\ [Next]_vars => Inv'
    BY TypedByStep, KnownByStep, UndeletedByStep DEF Inv
  <1> QED  BY <1>1, <1>2, PTL DEF Spec

(* Every reachable state is well typed.                                      *)
THEOREM NamespaceTypeCorrect == Spec => []TypeOK
  <1>1. Inv => TypeOK  BY DEF Inv
  <1> QED  BY <1>1, Invariance, PTL

-----------------------------------------------------------------------------
LEMMA BackendsOfMember ==
  ASSUME NEW s, NEW next, NEW n, NEW found, found # {},
         NEW ref \in BackendRefs(n, s, next, found)
  PROVE  \E m \in found : ref[1] \in {Member(m), NextOf(n)}
  BY DEF BackendRefs, WeightedRefs

LEMMA BackendsOfOne ==
  ASSUME NEW s \in SpecType, NEW next, NEW n, NEW ref \in BackendRefs(n, s, next, {})
  PROVE  \/ s.weighted /\ ref[1] = Member(n)
         \/ ~s.weighted /\ ref[1] = Pool(s.group)
         \/ s.canary # Unset /\ ref[1] = CanaryOf(n)
         \/ ref[1] = NextOf(n)
  BY DEF BackendRefs, OwnRefs, Unset, SpecType

(* Until something is deleted, whatever specs change and wherever a pass is  *)
(* cut short, no HTTPRoute is written for a Service that is not there.       *)
THEOREM RoutesResolve == Spec => WrittenRouteResolves
  <1> DEFINE A == \A n \in Names, d \in Doors :
                    routes'[n][d] # routes[n][d] /\ spent["delete"] = 0 =>
                      \A ref \in routes'[n][d] : ref[1] \in ServiceNames => Exists(ref[1])
  <1>1. Inv /\ [Next]_vars => A
    <2> SUFFICES ASSUME Inv, [Next]_vars,
                        NEW n \in Names, NEW d \in Doors, routes'[n][d] # routes[n][d],
                        spent["delete"] = 0, NEW ref \in routes'[n][d], ref[1] \in ServiceNames
                 PROVE  Exists(ref[1])
      OBVIOUS
    <2>1. TypeOK /\ PassKnows /\ AddressesMade  BY DEF Inv, Undeleted
    <2>2. DOMAIN routes = Names /\ \A m \in Names : DOMAIN routes[m] = Doors
      BY <2>1 DEF TypeOK
    <2>3. \A m \in Names : ~CollectRoutes(m)
      <3> SUFFICES ASSUME NEW m \in Names, CollectRoutes(m) PROVE FALSE  OBVIOUS
      <3>1. routes'[n][d] \in {routes[n][d], {}}  BY <2>2 DEF CollectRoutes
      <3> QED  BY <3>1
    <2>4. ~PruneRoutes
      <3> SUFFICES ASSUME PruneRoutes PROVE FALSE  OBVIOUS
      <3>1. routes'[n][d] \in {routes[n][d], {}}  BY <2>2 DEF PruneRoutes, RouteStep
      <3> QED  BY <3>1
    <2>5. WriteRoute
      <3> USE DEF cluster, workload, waypoint, adapter
      <3>1. ~Environment
        BY <2>3 DEF Environment, Humans, Kubernetes, Create, EditSpec, Delete,
                    CollectServices, CollectWorkload, Gone, HpaScales
      <3>2. ~WaypointPass
        BY DEF WaypointPass, LabelNamespace, UpsertOptions, UpsertGateway, DeleteOptions,
               DeleteGateway, WaypointStep
      <3>3. ~SizingPass
        BY DEF SizingPass, ReconcileDeployment, ReconcileHPA, ReconcilePDB,
               ReconcileAdapterConfig, RolloutAdapter, AdapterFails, SizingStep, AdapterStep
      <3>4. PoolPass
        BY <3>1, <3>2, <3>3 DEF Next, Pass, StartPass, Abandon, vars
      <3> QED
        BY <2>4, <3>4 DEF PoolPass, PoolService, MemberService, LegacyService, ReconcileCanary,
               CanaryService, RampTurn, ResolveRouteBackends, ReconcilePoolService,
               DeleteOwnedService
    <2>6. pc = "route" /\ seen.primary /\ ref \in BackendRefs(who, seen, share[who], ready)
      <3>1. PICK e \in todo :
              routes' = [routes EXCEPT ![who] =
                           [routes[who] EXCEPT ![e] = BackendRefs(who, seen, share[who], ready)]]
        BY <2>5 DEF WriteRoute, RouteStep
      <3>2. n = who /\ d = e  BY <2>2, <3>1
      <3>3. routes'[n][d] = BackendRefs(who, seen, share[who], ready)  BY <2>2, <3>1, <3>2
      <3> QED  BY <2>1, <2>5, <3>3 DEF WriteRoute, PassKnows
    <2>7. seen \in SpecType /\ NextOf(who) \notin ServiceNames
      BY <2>1 DEF TypeOK, NextOf, ServiceNames
    <2>8. CASE ready # {}
      <3>1. \E m \in ready : ref[1] \in {Member(m), NextOf(who)}
        BY <2>6, <2>8, BackendsOfMember
      <3> QED  BY <2>1, <2>6, <2>7, <3>1 DEF AddressesMade
    <2>9. CASE ready = {}
      <3>1. \/ seen.weighted /\ ref[1] = Member(who)
            \/ ~seen.weighted /\ ref[1] = Pool(seen.group)
            \/ seen.canary # Unset /\ ref[1] = CanaryOf(who)
            \/ ref[1] = NextOf(who)
        BY <2>6, <2>7, <2>9, BackendsOfOne
      <3> QED
        BY <2>1, <2>6, <2>7, <3>1 DEF AddressesMade, AfterPool, AfterMember, AfterCanary
    <2> QED  BY <2>8, <2>9
  <1> QED  BY <1>1, Invariance, PTL DEF Spec, WrittenRouteResolves

-----------------------------------------------------------------------------
LEMMA WeightIsOfRef ==
  ASSUME NEW refs, NEW svc, NEW k,
         \A ref \in refs : ref[1] = svc => ref = <<svc, k>>
  PROVE  /\ <<svc, k>> \in refs => Weight(refs, svc) = k
         /\ (\A ref \in refs : ref[1] # svc) => Weight(refs, svc) = 0
  BY DEF Weight

LEMMA SplitKeepsProportions ==
  ASSUME TypeOK, PassKnows, pc = "route", ready # {}
  PROVE  Proportional(BackendRefs(who, seen, share[who], ready))
  <1> DEFINE next == share[who]
             refs == BackendRefs(who, seen, next, ready)
             b == seen.backends
  <1>1. who \in Names /\ next \in 0..99 /\ ready \subseteq Names
        /\ \A m \in ready : b[m] \in Nat
    <2>1. who \in Names /\ ready \subseteq Names /\ ready \subseteq DOMAIN b
      BY DEF TypeOK, PassKnows
    <2>2. share[who] \in Shares \cup {0}  BY <2>1 DEF TypeOK
    <2>3. \A w \in Shares \cup {0} : w \in 0..99  BY SharesAssumption DEF Percents
    <2>4. \A m \in DOMAIN b : b[m] \in 0..100  BY DEF TypeOK, SpecType
    <2> QED  BY <2>1, <2>2, <2>3, <2>4
  <1>2. refs = UNION {IF next = 0 THEN {<<Member(m), b[m]>>}
                      ELSE IF m # who THEN {<<Member(m), b[m] * 100>>}
                      ELSE {<<Member(m), b[m] * (100 - next)>>, <<NextOf(who), b[m] * next>>} :
                        m \in ready}
    BY DEF BackendRefs, WeightedRefs
  <1> HIDE DEF next, refs, b
  <1>3. \A n, m \in Names : /\ Member(n) # NextOf(m)
                            /\ n # m => Member(n) # Member(m) /\ NextOf(n) # NextOf(m)
    BY DEF Member, NextOf
  <1>4. CASE next = 0
    <2>1. ASSUME NEW m \in ready
          PROVE  Weight(refs, Member(m)) = b[m] /\ Weight(refs, NextOf(m)) = 0
      <3>1. \A ref \in refs : \E n \in ready : ref = <<Member(n), b[n]>>  BY <1>2, <1>4
      <3>2. <<Member(m), b[m]>> \in refs  BY <1>2, <1>4
      <3>3. \A ref \in refs : ref[1] = Member(m) => ref = <<Member(m), b[m]>>
        BY <1>1, <1>3, <3>1
      <3>4. \A ref \in refs : ref[1] # NextOf(m)  BY <1>1, <1>3, <3>1
      <3> QED  BY <3>2, <3>3, <3>4, WeightIsOfRef
    <2>2. \A m \in ready : Part(refs, m) = b[m] /\ Weight(refs, NextOf(m)) = 0
      BY <1>1, <2>1 DEF Part
    <2> QED  BY <1>1, <1>4, <2>2 DEF Proportional, next, refs, b
  <1>5. CASE next # 0
    <2>1. \A ref \in refs : \E n \in ready :
            \/ n # who /\ ref = <<Member(n), b[n] * 100>>
            \/ n = who /\ ref \in {<<Member(n), b[n] * (100 - next)>>, <<NextOf(n), b[n] * next>>}
      BY <1>2, <1>5
    <2>2. ASSUME NEW m \in ready, m # who
          PROVE  Part(refs, m) = b[m] * 100
      <3>1. <<Member(m), b[m] * 100>> \in refs  BY <1>2, <1>5, <2>2
      <3>2. \A ref \in refs : ref[1] = Member(m) => ref = <<Member(m), b[m] * 100>>
        BY <1>1, <1>3, <2>1, <2>2
      <3>3. \A ref \in refs : ref[1] # NextOf(m)  BY <1>1, <1>3, <2>1, <2>2
      <3>4. Weight(refs, Member(m)) = b[m] * 100 /\ Weight(refs, NextOf(m)) = 0
        BY <3>1, <3>2, <3>3, WeightIsOfRef
      <3> QED  BY <1>1, <3>4 DEF Part
    <2>3. ASSUME who \in ready
          PROVE  /\ Part(refs, who) = b[who] * 100
                 /\ Weight(refs, NextOf(who)) = b[who] * next
      <3>1. {<<Member(who), b[who] * (100 - next)>>, <<NextOf(who), b[who] * next>>} \subseteq refs
        BY <1>2, <1>5, <2>3
      <3>2. \A ref \in refs : ref[1] = Member(who) => ref = <<Member(who), b[who] * (100 - next)>>
        BY <1>1, <1>3, <2>1
      <3>3. \A ref \in refs : ref[1] = NextOf(who) => ref = <<NextOf(who), b[who] * next>>
        BY <1>1, <1>3, <2>1
      <3>4. /\ Weight(refs, Member(who)) = b[who] * (100 - next)
            /\ Weight(refs, NextOf(who)) = b[who] * next
        BY <3>1, <3>2, <3>3, WeightIsOfRef
      <3>5. b[who] * (100 - next) + b[who] * next = b[who] * 100  BY <1>1, <2>3
      <3> QED  BY <3>4, <3>5 DEF Part
    <2>4. \A m \in ready : Part(refs, m) = b[m] * 100  BY <2>2, <2>3
    <2>5. \A m1, m2 \in ready : (b[m1] * 100) * b[m2] = (b[m2] * 100) * b[m1]
      BY <1>1
    <2>6. who \in ready => (b[who] * next) * 100 = (b[who] * 100) * next  BY <1>1
    <2>7. \A m1, m2 \in ready : Part(refs, m1) * b[m2] = Part(refs, m2) * b[m1]
      BY <2>4, <2>5
    <2>8. who \in ready => Weight(refs, NextOf(who)) * 100 = Part(refs, who) * next
      BY <2>3, <2>6
    <2> QED  BY <2>7, <2>8 DEF Proportional, next, refs, b
  <1> QED  BY <1>4, <1>5 DEF next, refs

(* Whatever the ramp does to a weighted pool, members hold their declared    *)
(* weights against each other, and the version on trial has its share of the *)
(* ramping member's.                                                         *)
THEOREM ProportionsKept == Spec => KeepsProportions
  <1> DEFINE A == pc = "route" /\ ready # {} =>
                    \A d \in Doors : routes'[who][d] \in {routes[who][d], {}}
                                      \/ Proportional(routes'[who][d])
  <1>1. Inv /\ [Next]_vars => A
    <2> SUFFICES ASSUME Inv, [Next]_vars, pc = "route", ready # {}, NEW d \in Doors,
                        routes'[who][d] \notin {routes[who][d], {}}
                 PROVE  Proportional(routes'[who][d])
      OBVIOUS
    <2>1. TypeOK /\ PassKnows /\ who \in Names  BY DEF Inv, PassKnows
    <2>2. DOMAIN routes = Names /\ \A m \in Names : DOMAIN routes[m] = Doors
      BY <2>1 DEF TypeOK
    <2> USE DEF cluster, workload, waypoint, adapter
    <2>3. ~Environment
      <3>1. ASSUME NEW n \in Names, CollectRoutes(n)
            PROVE  routes'[who][d] \in {routes[who][d], {}}
        BY <2>1, <2>2, <3>1 DEF CollectRoutes
      <3> QED
        BY <3>1 DEF Environment, Humans, Kubernetes, Create, EditSpec, Delete,
                    CollectServices, CollectWorkload, Gone, HpaScales
    <2>4. WriteRoute
      BY <2>3
         DEF Next, Pass, StartPass, Abandon, vars, WaypointPass, LabelNamespace,
             UpsertOptions, UpsertGateway, DeleteOptions, DeleteGateway, SizingPass,
             ReconcileDeployment, ReconcileHPA, ReconcilePDB, ReconcileAdapterConfig,
             RolloutAdapter, AdapterFails, PoolPass, PoolService, MemberService,
             LegacyService, ReconcileCanary, CanaryService, RampTurn,
             ResolveRouteBackends, PruneRoutes
    <2>5. PICK e \in todo :
            routes' = [routes EXCEPT ![who] =
                         [routes[who] EXCEPT ![e] = BackendRefs(who, seen, share[who], ready)]]
      BY <2>4 DEF WriteRoute, RouteStep
    <2>6. routes'[who][d] = BackendRefs(who, seen, share[who], ready)
      BY <2>1, <2>2, <2>5
    <2> QED  BY <2>1, <2>6, SplitKeepsProportions
  <1> QED  BY <1>1, Invariance, PTL DEF Spec, KeepsProportions

-----------------------------------------------------------------------------
(* A service whose name is that of a pool another may lead never leaves that *)
(* pool.  Without this the earlier name it reclaims is that pool's Service.  *)
NamesakesStay ==
  \A n, m \in Names : \A s \in Specs[m] :
    m # n /\ s.primary /\ s.group = n => \A t \in Specs[n] : t.group = n

(* Every spec is one that a human may give, and every Service is owned by    *)
(* whom it is named after, or by one that may lead its pool.                 *)
MayOwn(m, x) ==
  \/ x \in {Member(m), CanaryOf(m)}
  \/ \E s \in Specs[m] : s.primary /\ x = Pool(s.group)
Ownership ==
  /\ \A n \in Names : Live(n) => spec[n] \in Specs[n]
  /\ pc # "idle" => seen \in Specs[who]
  /\ pc = "pool" => seen.primary
  /\ \A x \in ServiceNames : Exists(x) => MayOwn(services[x].owner, x)

(* How a step may change the Services.                                       *)
LEMMA ServicesChange ==
  ASSUME TypeOK, PassKnows, Ownership, [Next]_vars, NEW x \in ServiceNames,
         services'[x] # services[x]
  PROVE  \/ services'[x].owner = None /\ ~Live(services[x].owner)
         \/ services[x].owner \in {None, who} /\ services'[x].owner = who /\ MayOwn(who, x)
         \/ services'[x].owner = None /\ x \in {Member(who), CanaryOf(who)}
         \/ services'[x].owner = None /\ x = Pool(who) /\ pc = "legacy" /\ who # seen.group
  <1> USE DEF cluster, workload, waypoint, adapter
  <1>1. DOMAIN services = ServiceNames  BY DEF TypeOK
  <1>2. ASSUME NEW s, NEW mesh, NEW label, ReconcilePoolService(s, mesh, label)
        PROVE  x = s /\ services[x].owner \in {None, who} /\ services'[x].owner = who
    BY <1>1, <1>2 DEF ReconcilePoolService
  <1>3. ASSUME NEW s, NEW label, DeleteOwnedService(s, label)
        PROVE  x = s /\ services'[x].owner = None
    BY <1>1, <1>3 DEF DeleteOwnedService, NoService
  <1>4. CASE \E n \in Names : CollectServices(n)
    BY <1>1, <1>4 DEF CollectServices, NoService
  <1>5. CASE PoolService
    <2>1. x = Pool(seen.group) /\ services[x].owner \in {None, who} /\ services'[x].owner = who
      BY <1>2, <1>5 DEF PoolService
    <2>2. seen \in Specs[who] /\ seen.primary  BY <1>5 DEF PoolService, Ownership
    <2> QED  BY <2>1, <2>2 DEF MayOwn
  <1>6. CASE MemberService  BY <1>2, <1>3, <1>6 DEF MemberService, MayOwn
  <1>7. CASE LegacyService  BY <1>3, <1>7 DEF LegacyService, PassKnows
  <1>8. CASE CanaryService  BY <1>2, <1>3, <1>8 DEF CanaryService, MayOwn
  <1> QED
    <2>1. ~Humans  BY DEF Humans, Create, EditSpec, Delete
    <2>2. ~WaypointPass
      BY DEF WaypointPass, LabelNamespace, UpsertOptions, UpsertGateway, DeleteOptions,
             DeleteGateway, WaypointStep
    <2>3. ~SizingPass
      BY DEF SizingPass, ReconcileDeployment, ReconcileHPA, ReconcilePDB,
             ReconcileAdapterConfig, RolloutAdapter, AdapterFails, SizingStep, AdapterStep
    <2>4. PoolPass => PoolService \/ MemberService \/ LegacyService \/ CanaryService
      BY DEF PoolPass, ReconcileCanary, RampTurn, ResolveRouteBackends, PruneRoutes,
             WriteRoute, RouteStep
    <2>5. Kubernetes => \E n \in Names : CollectServices(n)
      BY DEF Kubernetes, CollectRoutes, CollectWorkload, Gone, HpaScales
    <2> QED
      BY <1>4, <1>5, <1>6, <1>7, <1>8, <2>1, <2>2, <2>3, <2>4, <2>5
         DEF Next, Pass, Environment, StartPass, Abandon, vars

LEMMA OwnershipByStep ==
  ASSUME TypeOK, PassKnows, Ownership, [Next]_vars
  PROVE  Ownership'
  <1> USE DEF cluster, workload, waypoint, adapter, locals
  <1>1. \A x \in ServiceNames : Exists(x)' => MayOwn(services'[x].owner, x)
    BY ServicesChange DEF Ownership, Exists
  <1>2. \A n \in Names : Live(n)' => spec'[n] \in Specs[n]
    <2>1. ASSUME NEW m \in Names, Create(m) \/ EditSpec(m) \/ Delete(m) \/ Gone(m)
          PROVE  \A n \in Names : Live(n)' => spec'[n] \in Specs[n]
      BY <2>1 DEF Create, EditSpec, Delete, Gone, Ownership, Live, TypeOK
    <2>2. CASE UNCHANGED <<life, spec>>  BY <2>2 DEF Ownership, Live
    <2>3. \/ UNCHANGED <<life, spec>>
          \/ \E m \in Names : Create(m) \/ EditSpec(m) \/ Delete(m) \/ Gone(m)
      <3>1. WaypointPass => UNCHANGED <<life, spec>>
        BY DEF WaypointPass, LabelNamespace, UpsertOptions, UpsertGateway, DeleteOptions,
               DeleteGateway, WaypointStep
      <3>2. SizingPass => UNCHANGED <<life, spec>>
        BY DEF SizingPass, ReconcileDeployment, ReconcileHPA, ReconcilePDB,
               ReconcileAdapterConfig, RolloutAdapter, AdapterFails, SizingStep, AdapterStep
      <3>3. PoolPass => UNCHANGED <<life, spec>>
        BY DEF PoolPass, PoolService, MemberService, LegacyService, ReconcileCanary,
               CanaryService, RampTurn, ResolveRouteBackends, PruneRoutes, WriteRoute,
               ReconcilePoolService, DeleteOwnedService, RouteStep
      <3>4. Environment =>
              \/ UNCHANGED <<life, spec>>
              \/ \E m \in Names : Create(m) \/ EditSpec(m) \/ Delete(m) \/ Gone(m)
        BY DEF Environment, Humans, Kubernetes, CollectServices, CollectRoutes,
               CollectWorkload, HpaScales
      <3> QED
        BY <3>1, <3>2, <3>3, <3>4 DEF Next, Pass, StartPass, Abandon, vars
    <2> QED  BY <2>1, <2>2, <2>3
  <1>3. (pc' # "idle" => seen' \in Specs[who']) /\ (pc' = "pool" => seen'.primary)
    <2>1. CASE \E n \in Names : StartPass(n)  BY <2>1 DEF StartPass, Ownership
    <2>2. CASE pc' = "idle"  BY <2>2
    <2>3. CASE UNCHANGED locals  BY <2>3 DEF Ownership
    <2>4. CASE pc # "idle" /\ UNCHANGED <<who, seen>> /\ (pc' = "pool" => seen.primary)
      BY <2>4 DEF Ownership
    <2>5. WaypointPass => UNCHANGED <<who, seen>> /\ pc # "idle" /\ pc' # "pool"
      BY DEF WaypointPass, LabelNamespace, UpsertOptions, UpsertGateway, DeleteOptions,
             DeleteGateway, WaypointStep
    <2>6. SizingPass => /\ UNCHANGED <<who, seen>> /\ pc # "idle"
                        /\ pc' = "pool" => seen.primary
      BY DEF SizingPass, ReconcileDeployment, ReconcileHPA, ReconcilePDB, CanaryStep,
             ReconcileAdapterConfig, RolloutAdapter, AdapterFails, SizingStep, AdapterStep
    <2>7. PoolPass => \/ pc' = "idle"
                      \/ UNCHANGED <<who, seen>> /\ pc # "idle" /\ pc' # "pool"
      BY DEF PoolPass, PoolService, MemberService, LegacyService, ReconcileCanary,
             CanaryService, RampTurn, ResolveRouteBackends, PruneRoutes, WriteRoute,
             ReconcilePoolService, DeleteOwnedService, Continue, GoOnWriting, EndPass,
             AfterServices
    <2>8. Environment => UNCHANGED locals
      BY DEF Environment, Humans, Kubernetes, Create, EditSpec, Delete, CollectServices,
             CollectRoutes, CollectWorkload, Gone, HpaScales
    <2> QED
      BY <2>1, <2>2, <2>3, <2>4, <2>5, <2>6, <2>7, <2>8 DEF Next, Pass, Abandon, EndPass, vars
  <1> QED  BY <1>1, <1>2, <1>3 DEF Ownership

(* As long as no service leaves a pool of its own name that another leads,   *)
(* no pass touches the Service of another service that is not being deleted. *)
THEOREM ForeignServicesSafe ==
  ASSUME NamesakesStay
  PROVE  Spec => ForeignServicesStay
  <1>1. Init => Ownership
    BY SpecsTyped DEF Init, Ownership, Exists, NoService, Live
  <1>2. Inv /\ Ownership /\ [Next]_vars => Ownership'
    BY OwnershipByStep DEF Inv
  <1>3. Inv /\ Ownership /\ [Next]_vars =>
          \A s \in ServiceNames : services'[s] # services[s] =>
            services[s].owner \in {None, who} \/ ~Live(services[s].owner)
    <2> SUFFICES ASSUME Inv, Ownership, [Next]_vars, NEW s \in ServiceNames,
                        services'[s] # services[s]
                 PROVE  services[s].owner \in {None, who} \/ ~Live(services[s].owner)
      OBVIOUS
    <2>1. TypeOK /\ PassKnows  BY DEF Inv
    <2>2. CASE services[s].owner \notin {None, who}
      <3> DEFINE m == services[s].owner
      <3>1. m \in Names /\ MayOwn(m, s)  BY <2>1, <2>2 DEF TypeOK, Ownership, Exists
      <3>2. CASE ~Live(m)  BY <3>2
      <3>3. CASE s \in {Member(who), CanaryOf(who)}
        BY <2>2, <3>1, <3>3 DEF MayOwn, Member, CanaryOf, Pool
      <3>4. CASE s = Pool(who) /\ pc = "legacy" /\ who # seen.group
        <4>1. PICK t \in Specs[m] : t.primary /\ t.group = who
          BY <3>1, <3>4 DEF MayOwn, Member, CanaryOf, Pool
        <4>2. who \in Names /\ seen \in Specs[who]
          BY <2>1, <3>4 DEF Ownership, PassKnows
        <4> QED  BY <2>2, <3>1, <3>4, <4>1, <4>2 DEF NamesakesStay
      <3> QED  BY <2>1, <2>2, <3>2, <3>3, <3>4, ServicesChange
    <2> QED  BY <2>2
  <1> QED  BY <1>1, <1>2, <1>3, Invariance, PTL DEF Spec, ForeignServicesStay
=============================================================================
