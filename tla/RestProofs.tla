------------------------------ MODULE RestProofs ------------------------------
(***************************************************************************)
(* A namespace that is what its specs ask for is left alone by every pass, *)
(* for every set of services and specs: no two services undo each other's  *)
(* work, and a pass that fails in the middle leaves nothing half done.     *)
(***************************************************************************)
EXTENDS NamespaceProofs

(* A step from rest that neither a human nor a ramp takes.                   *)
Undisturbed ==
  /\ TypeOK /\ PassKnows /\ Settled /\ Current
  /\ UNCHANGED <<life, spec, share>>

-----------------------------------------------------------------------------
(* What a pass under way knows of the service it is about.                   *)
LEMMA OwnAgrees ==
  ASSUME TypeOK, PassKnows, Settled, Current, pc # "idle"
  PROVE  /\ who \in Names /\ Live(who) /\ seen = spec[who]
         /\ ServicesAgree(who) /\ WorkloadAgrees(who) /\ RoutesAgree(who) /\ SharedAgrees
  BY DEF PassKnows, Settled, Current

LEMMA SeenMeshed ==
  ASSUME TypeOK, PassKnows, Settled, Current, pc # "idle"
  PROVE  /\ seen.mesh => who \in Meshed
         /\ WaypointWanted <=> Meshed # {}
  <1>1. who \in Names /\ Live(who) /\ seen = spec[who]  BY OwnAgrees
  <1>2. seen.mesh <=> who \in Meshed  BY <1>1 DEF Meshed
  <1> QED  BY <1>2 DEF WaypointWanted

(* Objects that do not change, under specs that do not, still agree.         *)
LEMMA StillSettled ==
  ASSUME Settled, UNCHANGED <<life, spec, cluster>>
  PROVE  Settled'
  <1> USE DEF cluster, workload, waypoint, adapter, Live
  <1>1. SharedAgrees'
    BY DEF Settled, SharedAgrees, Meshed, WrittenRules, AskedWindows
  <1>2. ASSUME NEW n \in Names, ~Live(n)'
        PROVE  Collected(n)'
    BY <1>2 DEF Settled, Collected, HasWorkload
  <1>3. ASSUME NEW n \in Names, Live(n)'
        PROVE  ServicesAgree(n)' /\ WorkloadAgrees(n)'
    BY <1>3 DEF Settled, ServicesAgree, WorkloadAgrees
  <1>4. ASSUME NEW n \in Names, Live(n)'
        PROVE  RoutesAgree(n)'
    BY <1>4 DEF Settled, RoutesAgree, Resolve, Exists
  <1> QED  BY <1>1, <1>2, <1>3, <1>4 DEF Settled

(* A pass that goes on stays current, if it reached its next point rightly.  *)
LEMMA StillCurrent ==
  ASSUME Undisturbed, pc # "idle", UNCHANGED <<cluster, who, seen>>,
         pc' = "label" => seen.mesh,
         pc' = "gateway" => Meshed # {},
         pc' = "ungate" => Meshed = {},
         pc' = "pool" => seen.primary,
         pc' = "legacy" => who # seen.group,
         pc' \in {"rules", "adapter"} => WantsHpa(seen),
         pc' \in {"prune", "route"} => ready' = Resolve(seen),
         pc' = "route" => todo' \subseteq DesiredDoors(seen, ready')
  PROVE  Current'
  BY DEF Undisturbed, Current, Live, Meshed, Resolve, Exists, cluster

(* A pass that is over knows nothing.                                        *)
LEMMA EndIsCurrent == EndPass => Current'
  BY DEF EndPass, Current

-----------------------------------------------------------------------------
LEMMA RestByStart ==
  ASSUME Undisturbed, \E n \in Names : StartPass(n)
  PROVE  UNCHANGED cluster /\ Current'
  <1>1. PICK n \in Names : StartPass(n)  OBVIOUS
  <1>2. /\ who' = n /\ seen' = spec[n] /\ Live(n)' /\ spec' = spec
        /\ pc' = IF spec[n].mesh THEN "label" ELSE "options"
    BY <1>1 DEF StartPass, Live
  <1>3. Current'  BY <1>2 DEF Current
  <1> QED  BY <1>1, <1>3 DEF StartPass

LEMMA RestByWaypoint ==
  ASSUME Undisturbed, WaypointPass
  PROVE  UNCHANGED cluster /\ Current'
  <1> USE DEF cluster, waypoint
  <1>0. pc # "idle"
    BY DEF WaypointPass, LabelNamespace, UpsertOptions, UpsertGateway, DeleteOptions, DeleteGateway
  <1>1. SharedAgrees /\ TypeOK /\ Current /\ (seen.mesh => who \in Meshed)
        /\ (WaypointWanted <=> Meshed # {})
    BY <1>0, OwnAgrees, SeenMeshed DEF Undisturbed
  <1>2. CASE LabelNamespace
    <2>1. UNCHANGED cluster /\ UNCHANGED <<who, seen>> /\ pc' = "options"
      BY <1>0, <1>1, <1>2 DEF LabelNamespace, SharedAgrees, Current, TypeOK
    <2> QED  BY <1>0, <2>1, StillCurrent
  <1>3. CASE UpsertOptions
    <2>1. /\ UNCHANGED cluster /\ UNCHANGED <<who, seen>> /\ pc' = "gateway" /\ Meshed # {}
      BY <1>1, <1>3 DEF UpsertOptions, WaypointStep, SharedAgrees
    <2> QED  BY <1>0, <2>1, StillCurrent
  <1>4. CASE UpsertGateway
    <2>1. UNCHANGED cluster /\ UNCHANGED <<who, seen>> /\ pc' = "deploy"
      BY <1>0, <1>1, <1>4 DEF UpsertGateway, WaypointStep, SharedAgrees, Current, TypeOK
    <2> QED  BY <1>0, <2>1, StillCurrent
  <1>5. CASE DeleteOptions
    <2>1. /\ UNCHANGED cluster /\ UNCHANGED <<who, seen>> /\ pc' = "ungate" /\ Meshed = {}
      BY <1>1, <1>5 DEF DeleteOptions, WaypointStep, SharedAgrees
    <2> QED  BY <1>0, <2>1, StillCurrent
  <1>6. CASE DeleteGateway
    <2>1. UNCHANGED cluster /\ UNCHANGED <<who, seen>> /\ pc' = "deploy"
      BY <1>0, <1>1, <1>6 DEF DeleteGateway, WaypointStep, SharedAgrees, Current, TypeOK
    <2> QED  BY <1>0, <2>1, StillCurrent
  <1> QED  BY <1>2, <1>3, <1>4, <1>5, <1>6 DEF WaypointPass

LEMMA RestBySizing ==
  ASSUME Undisturbed, SizingPass
  PROVE  UNCHANGED cluster /\ Current'
  <1> USE DEF cluster, workload, adapter
  <1>0. pc # "idle"
    BY DEF SizingPass, ReconcileDeployment, ReconcileAdapterConfig, RolloutAdapter,
           AdapterFails, ReconcileHPA, ReconcilePDB
  <1>1. /\ who \in Names /\ seen = spec[who] /\ Live(who) /\ TypeOK /\ Current
        /\ WorkloadAgrees(who) /\ SharedAgrees
    BY <1>0, OwnAgrees DEF Undisturbed
  <1>2. CASE ReconcileDeployment
    <2>1. [pods EXCEPT ![who] = IF ~UsesHpa(seen) THEN FixedReplicas(seen)
                                ELSE IF @ = Unset THEN 1 ELSE @] = pods
      BY <1>1 DEF WorkloadAgrees, TypeOK
    <2>2. UNCHANGED cluster /\ UNCHANGED <<who, seen>>
          /\ pc' = IF seen.primary THEN "pool" ELSE "member"
      BY <1>2, <2>1 DEF ReconcileDeployment, SizingStep
    <2> QED  BY <1>0, <2>2, StillCurrent
  <1>3. CASE ReconcileHPA
    <2>1. [hpa EXCEPT ![who] = IF WantsHpa(seen) THEN seen.hpa ELSE NoHpa] = hpa
      BY <1>1 DEF WorkloadAgrees, TypeOK
    <2>2. UNCHANGED cluster /\ UNCHANGED <<who, seen>> /\ pc' = "pdb"
      BY <1>3, <2>1 DEF ReconcileHPA, SizingStep
    <2> QED  BY <1>0, <2>2, StillCurrent
  <1>4. CASE ReconcilePDB
    <2>1. [pdb EXCEPT ![who] = DisruptionBudget(seen)] = pdb
      BY <1>1 DEF WorkloadAgrees, TypeOK
    <2>2. UNCHANGED cluster /\ UNCHANGED <<who, seen>> /\ pc' \in {"canary", "ramp"}
      BY <1>4, <2>1 DEF ReconcilePDB, SizingStep, CanaryStep
    <2> QED  BY <1>0, <2>2, StillCurrent
  <1>5. CASE pc \in {"rules", "adapter"}
    <2>1. WantsHpa(seen) /\ rules = WrittenRules /\ loaded = rules
      BY <1>1, <1>5 DEF Current, SharedAgrees
    <2>2. CASE ReconcileAdapterConfig
      <3>1. UNCHANGED cluster /\ UNCHANGED <<who, seen>> /\ pc' = "adapter"
        BY <2>1, <2>2 DEF ReconcileAdapterConfig, AdapterStep
      <3> QED  BY <1>0, <2>1, <3>1, StillCurrent
    <2>3. CASE RolloutAdapter \/ AdapterFails
      <3>1. UNCHANGED cluster /\ UNCHANGED <<who, seen>> /\ pc' = "hpa"
        BY <2>1, <2>3 DEF RolloutAdapter, AdapterFails, AdapterStep
      <3> QED  BY <1>0, <3>1, StillCurrent
    <2> QED
      BY <1>5, <2>2, <2>3
         DEF SizingPass, ReconcileDeployment, ReconcileHPA, ReconcilePDB
  <1> QED
    BY <1>2, <1>3, <1>4, <1>5
       DEF SizingPass, ReconcileAdapterConfig, RolloutAdapter, AdapterFails

(* A Service that is as it should be is neither changed nor fought over.     *)
LEMMA AddressKept ==
  ASSUME TypeOK, who \in Names, NEW s \in ServiceNames, NEW mesh, NEW then,
         \/ ReconcilePoolService(s, mesh, then) /\ services[s] = [owner |-> who, mesh |-> mesh]
         \/ DeleteOwnedService(s, then) /\ services[s] = NoService
  PROVE  UNCHANGED cluster /\ Continue(then)
  <1>1. [services EXCEPT ![s] = services[s]] = services  BY DEF TypeOK
  <1>2. CASE ReconcilePoolService(s, mesh, then) /\ services[s] = [owner |-> who, mesh |-> mesh]
    <2>1. services[s].owner = who  BY <1>2
    <2> QED  BY <1>1, <1>2, <2>1 DEF ReconcilePoolService, cluster
  <1>3. CASE DeleteOwnedService(s, then) /\ services[s] = NoService
    BY <1>1, <1>3 DEF DeleteOwnedService, cluster
  <1> QED  BY <1>2, <1>3

LEMMA RestByAddresses ==
  ASSUME Undisturbed, PoolService \/ MemberService \/ LegacyService \/ CanaryService
  PROVE  UNCHANGED cluster /\ Current'
  <1>0. pc # "idle"  BY DEF PoolService, MemberService, LegacyService, CanaryService
  <1>1. /\ who \in Names /\ seen = spec[who] /\ TypeOK /\ Current /\ ServicesAgree(who)
        /\ seen.group \in Names
    BY <1>0, OwnAgrees DEF Undisturbed, TypeOK, SpecType
  <1>2. {Pool(seen.group), Pool(who), Member(who), CanaryOf(who)} \subseteq ServiceNames
    BY <1>1, ServicesNamed
  <1>3. AfterServices \in {"rules", "hpa"} /\ (AfterServices = "rules" => WantsHpa(seen))
    BY DEF AfterServices
  <1>4. CASE PoolService
    <2>1. UNCHANGED cluster /\ Continue("member")
      BY <1>1, <1>2, <1>4, AddressKept DEF PoolService, ServicesAgree, Current
    <2> QED  BY <1>0, <2>1, StillCurrent DEF Continue
  <1>5. CASE MemberService
    <2> DEFINE next == IF who = seen.group THEN AfterServices ELSE "legacy"
    <2>1. UNCHANGED cluster /\ Continue(next)
      <3>1. CASE seen.weighted
        <4>1. services[Member(who)] = [owner |-> who, mesh |-> seen.mesh]
          BY <1>1, <3>1 DEF ServicesAgree
        <4> QED  BY <1>1, <1>2, <1>5, <3>1, <4>1, AddressKept DEF MemberService
      <3>2. CASE ~seen.weighted
        <4>1. services[Member(who)] = NoService
          BY <1>1, <3>2 DEF ServicesAgree
        <4> QED  BY <1>1, <1>2, <1>5, <3>2, <4>1, AddressKept DEF MemberService
      <3> QED  BY <3>1, <3>2
    <2>2. pc' \in {"rules", "hpa", "legacy"} /\ (pc' = "legacy" => who # seen.group)
          /\ (pc' = "rules" => WantsHpa(seen))
      BY <1>3, <2>1 DEF Continue
    <2> HIDE DEF next
    <2> QED  BY <1>0, <2>1, <2>2, StillCurrent DEF Continue
  <1>6. CASE LegacyService
    <2>1. UNCHANGED cluster /\ Continue(AfterServices)
      BY <1>1, <1>2, <1>6, AddressKept DEF LegacyService, ServicesAgree, Current
    <2>2. pc' \in {"rules", "hpa"} /\ (pc' = "rules" => WantsHpa(seen))
      BY <1>3, <2>1 DEF Continue
    <2> QED  BY <1>0, <2>1, <2>2, StillCurrent DEF Continue
  <1>7. CASE CanaryService
    <2>1. UNCHANGED cluster /\ Continue("ramp")
      <3>1. CASE seen.canary # Unset
        <4>1. services[CanaryOf(who)] = [owner |-> who, mesh |-> FALSE]
          BY <1>1, <3>1 DEF ServicesAgree
        <4> QED  BY <1>1, <1>2, <1>7, <3>1, <4>1, AddressKept DEF CanaryService
      <3>2. CASE seen.canary = Unset
        <4>1. services[CanaryOf(who)] = NoService
          BY <1>1, <3>2 DEF ServicesAgree
        <4> QED  BY <1>1, <1>2, <1>7, <3>2, <4>1, AddressKept DEF CanaryService
      <3> QED  BY <3>1, <3>2
    <2> QED  BY <1>0, <2>1, StillCurrent DEF Continue
  <1> QED  BY <1>4, <1>5, <1>6, <1>7

LEMMA RestByRouting ==
  ASSUME Undisturbed,
         ReconcileCanary \/ RampTurn \/ ResolveRouteBackends \/ PruneRoutes \/ WriteRoute
  PROVE  UNCHANGED cluster /\ Current'
  <1> USE DEF cluster, workload
  <1>0. pc # "idle"
    BY DEF ReconcileCanary, RampTurn, ResolveRouteBackends, PruneRoutes, WriteRoute
  <1>1. /\ who \in Names /\ seen = spec[who] /\ TypeOK /\ Current
        /\ WorkloadAgrees(who) /\ RoutesAgree(who)
    BY <1>0, OwnAgrees DEF Undisturbed
  <1>2. CASE ReconcileCanary
    <2>1. UNCHANGED cluster /\ UNCHANGED <<who, seen>> /\ pc' = "canarysvc"
      BY <1>1, <1>2 DEF ReconcileCanary, Continue, WorkloadAgrees, Undisturbed
    <2> QED  BY <1>0, <2>1, StillCurrent
  <1>3. CASE RampTurn
    <2>1. UNCHANGED cluster /\ UNCHANGED <<who, seen>> /\ pc' = "backends"
      BY <1>3 DEF RampTurn, Continue, Undisturbed
    <2> QED  BY <1>0, <2>1, StillCurrent
  <1>4. CASE ResolveRouteBackends
    <2>1. UNCHANGED cluster /\ UNCHANGED <<who, seen>> /\ pc' = "prune" /\ ready' = Resolve(seen)
      BY <1>4 DEF ResolveRouteBackends
    <2> QED  BY <1>0, <2>1, StillCurrent
  <1>5. ASSUME NEW r, r = routes[who], RouteStep(r)
        PROVE  UNCHANGED cluster
    <2>1. [routes EXCEPT ![who] = routes[who]] = routes  BY <1>1 DEF TypeOK
    <2> QED  BY <1>5, <2>1 DEF RouteStep, Undisturbed
  <1>6. ASSUME NEW doors \in SUBSET DesiredDoors(seen, ready), GoOnWriting(doors),
               UNCHANGED cluster, ready = Resolve(seen)
        PROVE  Current'
    <2>1. CASE doors = {}  BY <1>6, <2>1, EndIsCurrent DEF GoOnWriting
    <2>2. CASE doors # {}
      <3>1. pc' = "route" /\ todo' = doors /\ UNCHANGED <<who, seen, ready>>
        BY <1>6, <2>2 DEF GoOnWriting
      <3> QED  BY <1>0, <1>6, <3>1, StillCurrent
    <2> QED  BY <2>1, <2>2
  <1>7. CASE PruneRoutes
    <2>1. ready = Resolve(seen)  BY <1>0, <1>1, <1>7 DEF PruneRoutes, Current
    <2>2. [d \in Doors |-> IF d \in DesiredDoors(seen, ready) THEN routes[who][d] ELSE {}]
            = routes[who]
      BY <1>1, <2>1 DEF RoutesAgree, TypeOK
    <2>3. UNCHANGED cluster  BY <1>5, <1>7, <2>2 DEF PruneRoutes
    <2> QED  BY <1>6, <1>7, <2>1, <2>3 DEF PruneRoutes
  <1>8. CASE WriteRoute
    <2>1. ready = Resolve(seen) /\ todo \subseteq DesiredDoors(seen, ready)
      BY <1>0, <1>1, <1>8 DEF WriteRoute, Current
    <2>2. PICK d \in todo :
            /\ RouteStep([routes[who] EXCEPT ![d] = BackendRefs(who, seen, share[who], ready)])
            /\ GoOnWriting(todo \ {d})
      BY <1>8 DEF WriteRoute
    <2>3. routes[who][d] = BackendRefs(who, seen, share[who], ready)
      BY <1>1, <2>1 DEF RoutesAgree, TypeOK
    <2>4. [routes[who] EXCEPT ![d] = BackendRefs(who, seen, share[who], ready)] = routes[who]
      BY <1>1, <2>3 DEF TypeOK
    <2>5. UNCHANGED cluster  BY <1>5, <2>2, <2>4
    <2> QED  BY <1>6, <2>1, <2>2, <2>5
  <1> QED  BY <1>2, <1>3, <1>4, <1>7, <1>8

LEMMA RestByEnvironment ==
  ASSUME Undisturbed, Environment
  PROVE  UNCHANGED <<cluster, locals>>
  <1> USE DEF Undisturbed, TypeOK
  <1>1. ASSUME NEW n \in Names, Create(n) \/ EditSpec(n) \/ Delete(n) \/ Gone(n)
        PROVE  FALSE
    BY <1>1 DEF Create, EditSpec, Delete, Gone, Live
  <1>2. ASSUME NEW n \in Names, CollectServices(n) \/ CollectRoutes(n) \/ CollectWorkload(n)
        PROVE  FALSE
    <2>1. Collected(n)  BY <1>2 DEF CollectServices, CollectRoutes, CollectWorkload, Settled
    <2> QED
      BY <1>2, <2>1 DEF CollectServices, CollectRoutes, CollectWorkload, Collected
  <1>3. ASSUME NEW n \in Names, HpaScales(n)
        PROVE  FALSE
    <2>1. CASE Live(n)  BY <1>3, <2>1 DEF HpaScales, Settled, WorkloadAgrees
    <2>2. CASE ~Live(n)  BY <1>3, <2>2 DEF HpaScales, Settled, Collected, HasWorkload
    <2> QED  BY <2>1, <2>2
  <1> QED  BY <1>1, <1>2, <1>3 DEF Environment, Humans, Kubernetes

-----------------------------------------------------------------------------
(* A namespace at rest stays at rest until a human or a ramp moves: the      *)
(* passes of its services agree on every object they share.                  *)
THEOREM RestIsStable == Spec => RestLasts
<1>1. Inv /\ [Next]_vars =>
        (Settled /\ Current /\ UNCHANGED <<life, spec, share>> =>
           UNCHANGED cluster /\ Settled' /\ Current')
  <2> SUFFICES ASSUME Inv, [Next]_vars, Settled, Current, UNCHANGED <<life, spec, share>>
               PROVE  UNCHANGED cluster /\ Settled' /\ Current'
    OBVIOUS
  <2>1. Undisturbed  BY DEF Undisturbed, Inv
  <2>2. UNCHANGED cluster /\ Current'
    <3>1. CASE Pass
      BY <2>1, <3>1, RestByWaypoint, RestBySizing, RestByAddresses, RestByRouting
         DEF Pass, PoolPass
    <3>2. CASE Abandon  BY <3>2, EndIsCurrent DEF Abandon
    <3>3. CASE UNCHANGED <<cluster, locals>>
      <4>1. UNCHANGED <<life, spec, cluster, pc, who, seen, ready, todo>>
        BY <3>3 DEF locals
      <4> QED
        BY <4>1 DEF Current, Live, Meshed, Resolve, Exists, cluster
    <3>4. CASE \E n \in Names : StartPass(n)  BY <2>1, <3>4, RestByStart
    <3> QED  BY <2>1, <3>1, <3>2, <3>3, <3>4, RestByEnvironment DEF Next, vars
  <2> QED  BY <2>2, StillSettled
<1> QED  BY <1>1, Invariance, PTL DEF Spec, RestLasts

-----------------------------------------------------------------------------
(* What a pass has done by each of its points.                               *)
AfterHpa == {"pdb", "canary", "canarysvc"} \cup AfterCanary
AfterPdb == {"canary", "canarysvc"} \cup AfterCanary
AddressesDone ==
  /\ pc \in AfterPool => PoolDone
  /\ pc \in AfterMember => MemberDone
  /\ pc \in AfterCanary => CanaryServiceDone
WorkloadDone ==
  /\ pc \in AfterHpa => AutoscalerDone
  /\ pc \in AfterPdb => BudgetDone
  /\ pc \in {"canarysvc"} \cup AfterCanary => CanaryDone
DoorsDone ==
  pc = "route" => /\ todo \subseteq DesiredDoors(seen, ready)
                  /\ \A d \in Doors \ todo : DoorDone(d)
Progress == AddressesDone /\ WorkloadDone /\ DoorsDone
Unhindered == spent["delete"] = 0 => Progress

(* A pass that has not begun to write has nothing to show.                   *)
LEMMA NothingDone ==
  ASSUME pc' \in {"idle", "label", "options", "gateway", "ungate", "deploy", "pool"}
  PROVE  Progress'
  BY DEF Progress, AddressesDone, WorkloadDone, DoorsDone, AfterPool, AfterMember,
         AfterCanary, AfterHpa, AfterPdb

(* What is done stays done while others move.                                *)
LEMMA DoneStays ==
  ASSUME Progress, UNCHANGED <<locals, services, canary, share>>,
         pc # "idle" => /\ hpa'[who] = hpa[who] /\ pdb'[who] = pdb[who]
                        /\ routes'[who] = routes[who]
  PROVE  Progress'
  <1>1. CASE pc = "idle"  BY <1>1, NothingDone DEF locals
  <1>2. CASE pc # "idle"
    <2>1. AddressesDone'
      BY DEF Progress, AddressesDone, PoolDone, MemberDone, CanaryServiceDone, OwnService,
             Exists, locals
    <2>2. WorkloadDone'
      BY <1>2 DEF Progress, WorkloadDone, AutoscalerDone, BudgetDone, CanaryDone, locals
    <2>3. DoorsDone'
      BY <1>2 DEF Progress, DoorsDone, DoorDone, locals
    <2> QED  BY <2>1, <2>2, <2>3 DEF Progress
  <1> QED  BY <1>1, <1>2

LEMMA ProgressBySizing ==
  ASSUME TypeOK, PassKnows, Progress, SizingPass
  PROVE  Progress'
  <1> USE DEF AfterPool, AfterMember, AfterCanary, AfterHpa, AfterPdb, workload
  <1>1. UNCHANGED <<services, canary, who, seen>> /\ seen.primary \in BOOLEAN
    BY DEF SizingPass, ReconcileDeployment, ReconcileHPA, ReconcilePDB, ReconcileAdapterConfig,
           RolloutAdapter, AdapterFails, SizingStep, AdapterStep, TypeOK, SpecType
  <1>2. CASE ReconcileDeployment
    <2>1. pc' \in {"pool", "member"} /\ (pc' = "member" => ~seen.primary)
      BY <1>1, <1>2 DEF ReconcileDeployment
    <2> QED
      BY <1>1, <2>1 DEF Progress, AddressesDone, WorkloadDone, DoorsDone, PoolDone
  <1>3. CASE ReconcileAdapterConfig \/ RolloutAdapter \/ AdapterFails
    <2>1. pc \in {"rules", "adapter"} /\ pc' \in {"adapter", "hpa"}
      BY <1>3 DEF ReconcileAdapterConfig, RolloutAdapter, AdapterFails
    <2> QED
      BY <1>1, <2>1
         DEF Progress, AddressesDone, WorkloadDone, DoorsDone, PoolDone, MemberDone, OwnService
  <1>4. CASE ReconcileHPA
    <2>1. pc = "hpa" /\ pc' = "pdb" /\ who \in Names
      BY <1>4 DEF ReconcileHPA, PassKnows
    <2>2. AutoscalerDone'
      BY <1>1, <1>4, <2>1 DEF ReconcileHPA, SizingStep, AutoscalerDone, TypeOK
    <2> QED
      BY <1>1, <2>1, <2>2
         DEF Progress, AddressesDone, WorkloadDone, DoorsDone, PoolDone, MemberDone, OwnService
  <1>5. CASE ReconcilePDB
    <2>1. /\ pc = "pdb" /\ who \in Names /\ hpa' = hpa /\ pc' \in {"canary", "ramp"}
          /\ pc' = "ramp" => seen.canary = Unset /\ who \notin canary /\ ~Exists(CanaryOf(who))
      BY <1>5 DEF ReconcilePDB, SizingStep, CanaryStep, PassKnows
    <2>2. BudgetDone'
      BY <1>1, <1>5, <2>1 DEF ReconcilePDB, SizingStep, BudgetDone, TypeOK
    <2>3. WorkloadDone'
      BY <1>1, <2>1, <2>2 DEF Progress, WorkloadDone, AutoscalerDone, CanaryDone
    <2>4. AddressesDone'
      BY <1>1, <2>1
         DEF Progress, AddressesDone, PoolDone, MemberDone, CanaryServiceDone, OwnService, Exists
    <2> QED  BY <2>1, <2>3, <2>4 DEF Progress, DoorsDone
  <1> QED  BY <1>2, <1>3, <1>4, <1>5 DEF SizingPass

(* A Service is brought up to date and the others stay, or the pass is over. *)
LEMMA OneAddress ==
  ASSUME TypeOK, NEW s \in ServiceNames, NEW mesh, NEW then,
         ReconcilePoolService(s, mesh, then) \/ DeleteOwnedService(s, then)
  PROVE  \/ EndPass
         \/ /\ Continue(then) /\ UNCHANGED <<hpa, pdb, canary>>
            /\ \A x \in ServiceNames \ {s} : services'[x] = services[x]
            /\ ReconcilePoolService(s, mesh, then) => services'[s] = [owner |-> who, mesh |-> mesh]
            /\ DeleteOwnedService(s, then) => services'[s] = NoService
  <1> USE DEF workload
  <1>1. DOMAIN services = ServiceNames  BY DEF TypeOK
  <1>2. CASE DeleteOwnedService(s, then) /\ ~ReconcilePoolService(s, mesh, then)
    BY <1>1, <1>2 DEF DeleteOwnedService
  <1>3. CASE ReconcilePoolService(s, mesh, then) /\ services[s].owner \in {None, who}
    BY <1>1, <1>3 DEF ReconcilePoolService, DeleteOwnedService
  <1>4. CASE ReconcilePoolService(s, mesh, then) /\ services[s].owner \notin {None, who}
    BY <1>4 DEF ReconcilePoolService
  <1> QED  BY <1>2, <1>3, <1>4

LEMMA ProgressByAddresses ==
  ASSUME TypeOK, PassKnows, Progress, PoolService \/ MemberService \/ LegacyService \/ CanaryService
  PROVE  Progress'
  <1> USE DEF AfterPool, AfterMember, AfterCanary, AfterHpa, AfterPdb, Continue
  <1>0. EndPass => Progress'  BY NothingDone DEF EndPass
  <1>1. pc # "idle"  BY DEF PoolService, MemberService, LegacyService, CanaryService
  <1>2. /\ who \in Names /\ seen.group \in Names
        /\ {Pool(seen.group), Pool(who), Member(who), CanaryOf(who)} \subseteq ServiceNames
    BY <1>1, ServicesNamed DEF PassKnows, TypeOK, SpecType
  <1>3. \A n, m \in Names : /\ Pool(n) \notin {Member(m), CanaryOf(m)} /\ Member(n) # CanaryOf(m)
                            /\ n # m => Pool(n) # Pool(m)
    BY DEF Pool, Member, CanaryOf
  <1>4. AfterServices \in {"rules", "hpa"}  BY DEF AfterServices
  <1>5. CASE PoolService
    <2>1. pc = "pool" /\ ReconcilePoolService(Pool(seen.group), seen.mesh, "member")
      BY <1>5 DEF PoolService
    <2>2. EndPass \/ (Continue("member") /\ services'[Pool(seen.group)] = OwnService)
      BY <1>2, <2>1, OneAddress DEF OwnService
    <2>3. CASE Continue("member") /\ services'[Pool(seen.group)] = OwnService
      BY <2>3 DEF Progress, AddressesDone, WorkloadDone, DoorsDone, PoolDone, OwnService
    <2> QED  BY <1>0, <2>2, <2>3
  <1>6. CASE MemberService
    <2> DEFINE next == IF who = seen.group THEN AfterServices ELSE "legacy"
    <2>1. pc = "member" /\ next \in {"legacy", "rules", "hpa"}  BY <1>4, <1>6 DEF MemberService
    <2>2. IF seen.weighted THEN ReconcilePoolService(Member(who), seen.mesh, next)
                           ELSE DeleteOwnedService(Member(who), next)
      BY <1>6 DEF MemberService
    <2> HIDE DEF next
    <2>3. \/ EndPass
          \/ /\ Continue(next)
             /\ services'[Pool(seen.group)] = services[Pool(seen.group)]
             /\ services'[Member(who)] = IF seen.weighted THEN OwnService ELSE NoService
      <3>1. CASE seen.weighted
        BY <1>2, <1>3, <2>2, <3>1, OneAddress DEF OwnService
      <3>2. CASE ~seen.weighted
        <4>1. Pool(seen.group) \in ServiceNames \ {Member(who)}  BY <1>2, <1>3
        <4>2. DeleteOwnedService(Member(who), next) /\ Member(who) \in ServiceNames
          BY <1>2, <2>2, <3>2
        <4> QED  BY <3>2, <4>1, <4>2, OneAddress
      <3> QED  BY <3>1, <3>2
    <2>4. CASE /\ Continue(next)
               /\ services'[Pool(seen.group)] = services[Pool(seen.group)]
               /\ services'[Member(who)] = IF seen.weighted THEN OwnService ELSE NoService
      BY <2>1, <2>4
         DEF Progress, AddressesDone, WorkloadDone, DoorsDone, PoolDone, MemberDone, OwnService
    <2> QED  BY <1>0, <2>3, <2>4
  <1>7. CASE LegacyService
    <2>1. pc = "legacy" /\ who # seen.group /\ DeleteOwnedService(Pool(who), AfterServices)
      BY <1>7 DEF LegacyService, PassKnows
    <2>2. \/ EndPass
          \/ /\ Continue(AfterServices)
             /\ services'[Pool(seen.group)] = services[Pool(seen.group)]
             /\ services'[Member(who)] = services[Member(who)]
      <3>1. {Pool(seen.group), Member(who)} \subseteq ServiceNames \ {Pool(who)}
        BY <1>2, <1>3, <2>1
      <3>2. Pool(who) \in ServiceNames  BY <1>2
      <3> QED  BY <2>1, <3>1, <3>2, OneAddress
    <2>3. CASE /\ Continue(AfterServices)
               /\ services'[Pool(seen.group)] = services[Pool(seen.group)]
               /\ services'[Member(who)] = services[Member(who)]
      BY <1>4, <2>1, <2>3
         DEF Progress, AddressesDone, WorkloadDone, DoorsDone, PoolDone, MemberDone, OwnService
    <2> QED  BY <1>0, <2>2, <2>3
  <1>8. CASE CanaryService
    <2>1. pc = "canarysvc" /\ IF seen.canary # Unset
                              THEN ReconcilePoolService(CanaryOf(who), FALSE, "ramp")
                              ELSE DeleteOwnedService(CanaryOf(who), "ramp")
      BY <1>8 DEF CanaryService
    <2>2. \/ EndPass
          \/ /\ Continue("ramp") /\ UNCHANGED <<hpa, pdb, canary>>
             /\ services'[Pool(seen.group)] = services[Pool(seen.group)]
             /\ services'[Member(who)] = services[Member(who)]
             /\ services'[CanaryOf(who)] = IF seen.canary # Unset
                                           THEN [owner |-> who, mesh |-> FALSE] ELSE NoService
      <3>1. CASE seen.canary # Unset
        BY <1>2, <1>3, <2>1, <3>1, OneAddress
      <3>2. CASE seen.canary = Unset
        BY <1>2, <1>3, <2>1, <3>2, OneAddress
      <3> QED  BY <3>1, <3>2
    <2>3. CASE /\ Continue("ramp") /\ UNCHANGED <<hpa, pdb, canary>>
               /\ services'[Pool(seen.group)] = services[Pool(seen.group)]
               /\ services'[Member(who)] = services[Member(who)]
               /\ services'[CanaryOf(who)] = IF seen.canary # Unset
                                             THEN [owner |-> who, mesh |-> FALSE] ELSE NoService
      <3>1. CanaryServiceDone'
        BY <2>3 DEF CanaryServiceDone, Exists, NoService
      <3>2. PoolDone' /\ MemberDone'
        BY <2>1, <2>3 DEF Progress, AddressesDone, PoolDone, MemberDone, OwnService
      <3>3. WorkloadDone'
        BY <2>1, <2>3 DEF Progress, WorkloadDone, AutoscalerDone, BudgetDone, CanaryDone
      <3> QED  BY <2>3, <3>1, <3>2, <3>3 DEF Progress, AddressesDone, DoorsDone
    <2> QED  BY <1>0, <2>2, <2>3
  <1> QED  BY <1>5, <1>6, <1>7, <1>8

LEMMA ProgressByRouting ==
  ASSUME TypeOK, PassKnows, Progress,
         ReconcileCanary \/ RampTurn \/ ResolveRouteBackends \/ PruneRoutes \/ WriteRoute
  PROVE  Progress'
  <1> USE DEF AfterPool, AfterMember, AfterCanary, AfterHpa, AfterPdb
  <1>0. EndPass => Progress'  BY NothingDone DEF EndPass
  <1>1. UNCHANGED <<services, hpa, pdb>>
    BY DEF ReconcileCanary, RampTurn, ResolveRouteBackends, PruneRoutes, WriteRoute, RouteStep,
           cluster, workload
  <1>2. who \in Names /\ pc # "idle"
    BY DEF ReconcileCanary, RampTurn, ResolveRouteBackends, PruneRoutes, WriteRoute, PassKnows
  <1>3. CASE ReconcileCanary
    <2>1. pc = "canary" /\ pc' = "canarysvc" /\ UNCHANGED <<who, seen>> /\ CanaryDone'
      BY <1>2, <1>3 DEF ReconcileCanary, Continue, CanaryDone
    <2> QED
      BY <1>1, <2>1 DEF Progress, AddressesDone, WorkloadDone, DoorsDone, PoolDone, MemberDone,
                        OwnService, AutoscalerDone, BudgetDone
  <1>4. ASSUME pc \in AfterCanary, pc' \in AfterCanary, UNCHANGED <<who, seen, canary>>
        PROVE  AddressesDone' /\ WorkloadDone'
    <2>1. AddressesDone'
      BY <1>1, <1>4 DEF Progress, AddressesDone, PoolDone, MemberDone, CanaryServiceDone,
                        OwnService, Exists
    <2>2. WorkloadDone'
      BY <1>1, <1>4 DEF Progress, WorkloadDone, AutoscalerDone, BudgetDone, CanaryDone
    <2> QED  BY <2>1, <2>2
  <1>5. CASE RampTurn \/ ResolveRouteBackends
    <2>1. /\ pc \in AfterCanary /\ pc' \in {"backends", "prune"} /\ UNCHANGED <<who, seen, canary>>
      BY <1>5 DEF RampTurn, ResolveRouteBackends, Continue, cluster, workload
    <2> QED  BY <1>4, <2>1 DEF Progress, DoorsDone
  <1>6. ASSUME NEW doors \in SUBSET DesiredDoors(seen, ready), GoOnWriting(doors), doors # {},
               pc \in {"prune", "route"}, UNCHANGED <<canary, share>>,
               \A d \in Doors \ doors :
                 routes'[who][d] = IF d \in DesiredDoors(seen, ready)
                                   THEN BackendRefs(who, seen, share[who], ready) ELSE {}
        PROVE  Progress'
    <2>1. pc' = "route" /\ todo' = doors /\ UNCHANGED <<who, seen, ready>>
      BY <1>6 DEF GoOnWriting
    <2>2. DoorsDone'  BY <1>6, <2>1 DEF DoorsDone, DoorDone
    <2> QED  BY <1>4, <1>6, <2>1, <2>2 DEF Progress
  <1>7. CASE PruneRoutes
    <2>1. CASE DesiredDoors(seen, ready) = {}
      BY <1>0, <1>7, <2>1 DEF PruneRoutes, GoOnWriting
    <2>2. CASE DesiredDoors(seen, ready) # {}
      <3>1. /\ GoOnWriting(DesiredDoors(seen, ready)) /\ pc = "prune" /\ UNCHANGED <<canary, share>>
            /\ \A d \in Doors : routes'[who][d] =
                                 IF d \in DesiredDoors(seen, ready) THEN routes[who][d] ELSE {}
        BY <1>2, <1>7 DEF PruneRoutes, RouteStep, workload, TypeOK
      <3> QED  BY <1>6, <2>2, <3>1
    <2> QED  BY <2>1, <2>2
  <1>8. CASE WriteRoute
    <2>1. PICK d \in todo :
            /\ RouteStep([routes[who] EXCEPT ![d] = BackendRefs(who, seen, share[who], ready)])
            /\ GoOnWriting(todo \ {d})
      BY <1>8 DEF WriteRoute
    <2>2. pc = "route" /\ DoorsDone  BY <1>8 DEF WriteRoute, Progress
    <2>3. CASE todo \ {d} = {}  BY <1>0, <2>1, <2>3 DEF GoOnWriting
    <2>4. CASE todo \ {d} # {}
      <3>1. todo \ {d} \subseteq DesiredDoors(seen, ready) /\ d \in DesiredDoors(seen, ready)
        BY <2>2 DEF DoorsDone
      <3>2. \A e \in Doors \ (todo \ {d}) :
               routes'[who][e] = IF e \in DesiredDoors(seen, ready)
                                 THEN BackendRefs(who, seen, share[who], ready) ELSE {}
        BY <1>2, <2>1, <2>2, <3>1 DEF RouteStep, DoorsDone, DoorDone, TypeOK
      <3>3. UNCHANGED <<canary, share>>  BY <2>1 DEF RouteStep, workload
      <3> QED  BY <1>6, <2>1, <2>2, <2>4, <3>1, <3>2, <3>3
    <2> QED  BY <2>3, <2>4
  <1> QED  BY <1>3, <1>5, <1>7, <1>8

(* While nothing is deleted, the garbage collector leaves the service of the *)
(* pass alone.                                                               *)
LEMMA ProgressByEnvironment ==
  ASSUME TypeOK, PassKnows, NothingCollected, Progress, Environment,
         \A n \in Names : ~Delete(n)
  PROVE  Progress'
  <1> USE DEF Environment, Humans, Kubernetes, Create, EditSpec, Delete, CollectServices,
              CollectRoutes, CollectWorkload, Gone, HpaScales, cluster, workload, locals
  <1>1. ASSUME NEW n \in Names
        PROVE  ~CollectServices(n) /\ ~Gone(n)
    BY NamesAssumption DEF NothingCollected, Exists
  <1>2. UNCHANGED <<locals, services, canary, share>> \/ \E n \in Names : CollectWorkload(n)
    BY <1>1
  <1>3. pc # "idle" => Live(who) /\ who \in Names  BY DEF NothingCollected, PassKnows
  <1>4. pc # "idle" => /\ hpa'[who] = hpa[who] /\ pdb'[who] = pdb[who]
                       /\ routes'[who] = routes[who]
    BY <1>1, <1>3 DEF TypeOK
  <1>5. CASE \E n \in Names : CollectWorkload(n)
    <2>1. /\ UNCHANGED <<locals, services, share>>
          /\ pc # "idle" => (who \in canary' <=> who \in canary)
      BY <1>3, <1>5
    <2>2. CASE pc = "idle"  BY <2>1, <2>2, NothingDone
    <2>3. CASE pc # "idle"
      <3>1. AddressesDone'
        BY <2>1 DEF Progress, AddressesDone, PoolDone, MemberDone, CanaryServiceDone,
                    OwnService, Exists
      <3>2. WorkloadDone'
        BY <1>4, <2>1, <2>3 DEF Progress, WorkloadDone, AutoscalerDone, BudgetDone, CanaryDone
      <3>3. DoorsDone'
        BY <1>4, <2>1, <2>3 DEF Progress, DoorsDone, DoorDone
      <3> QED  BY <3>1, <3>2, <3>3 DEF Progress
    <2> QED  BY <2>2, <2>3
  <1> QED  BY <1>2, <1>4, <1>5, DoneStays

LEMMA UnhinderedByStep ==
  ASSUME Inv, Unhindered, [Next]_vars
  PROVE  Unhindered'
  <1> SUFFICES ASSUME spent'["delete"] = 0 PROVE Progress'
    BY DEF Unhindered
  <1>1. /\ TypeOK /\ PassKnows /\ NothingCollected /\ Progress
        /\ \A n \in Names : ~Delete(n)
    BY DeletionsCounted DEF Inv, Undeleted, Unhindered
  <1>2. CASE \E n \in Names : StartPass(n)
    BY <1>2, NothingDone DEF StartPass
  <1>3. CASE WaypointPass
    BY <1>3, NothingDone DEF WaypointPass, LabelNamespace, UpsertOptions, UpsertGateway,
                             DeleteOptions, DeleteGateway
  <1>4. CASE SizingPass  BY <1>1, <1>4, ProgressBySizing
  <1>5. CASE PoolPass
    BY <1>1, <1>5, ProgressByAddresses, ProgressByRouting DEF PoolPass
  <1>6. CASE Abandon  BY <1>6, NothingDone DEF Abandon, EndPass
  <1>7. CASE Environment  BY <1>1, <1>7, ProgressByEnvironment
  <1>8. CASE UNCHANGED vars
    BY <1>1, <1>8, DoneStays DEF vars, cluster, workload, locals
  <1> QED  BY <1>2, <1>3, <1>4, <1>5, <1>6, <1>7, <1>8 DEF Next, Pass

(* One pass is enough: as long as nothing has been deleted, a pass that runs *)
(* to its end has left every object of its service as the spec it read asks. *)
THEOREM OnePassDelivers == Spec => PassDelivers
<1>1. Init => Unhindered
  BY NothingDone DEF Init, Unhindered, Progress, AddressesDone, WorkloadDone, DoorsDone,
     AfterPool, AfterMember, AfterCanary, AfterHpa, AfterPdb
<1>2. Inv /\ Unhindered /\ [Next]_vars => Unhindered'
  BY UnhinderedByStep
<1>3. Inv /\ Unhindered /\ [Next]_vars =>
        (Completes /\ spent["delete"] = 0 =>
           /\ AutoscalerDone /\ BudgetDone /\ CanaryDone
           /\ PoolDone /\ MemberDone /\ CanaryServiceDone
           /\ \A d \in Doors :
                routes'[who][d] = IF d \in DesiredDoors(seen, ready)
                                  THEN BackendRefs(who, seen, share[who], ready) ELSE {})
  <2> SUFFICES ASSUME Inv, Unhindered, [Next]_vars, Completes, spent["delete"] = 0
               PROVE  /\ AutoscalerDone /\ BudgetDone /\ CanaryDone
                      /\ PoolDone /\ MemberDone /\ CanaryServiceDone
                      /\ \A d \in Doors :
                           routes'[who][d] = IF d \in DesiredDoors(seen, ready)
                                             THEN BackendRefs(who, seen, share[who], ready) ELSE {}
    OBVIOUS
  <2>1. TypeOK /\ PassKnows /\ Progress /\ pc \in {"prune", "route"} /\ pc' = "idle" /\ spent' = spent
    BY DEF Inv, Unhindered, Completes
  <2>2. /\ AutoscalerDone /\ BudgetDone /\ CanaryDone
        /\ PoolDone /\ MemberDone /\ CanaryServiceDone
    BY <2>1 DEF Progress, AddressesDone, WorkloadDone, AfterPool, AfterMember, AfterCanary,
                AfterHpa, AfterPdb
  <2>3. ~Abandon
    BY <2>1 DEF Abandon, Spend, TypeOK, Kinds
  <2>4. PruneRoutes \/ WriteRoute
    BY <2>1, <2>3
       DEF Next, Pass, StartPass, vars, Environment, Humans, Kubernetes, Create, EditSpec, Delete,
           CollectServices, CollectRoutes, CollectWorkload, Gone, HpaScales, locals,
           WaypointPass, LabelNamespace, UpsertOptions, UpsertGateway, DeleteOptions, DeleteGateway,
           SizingPass, ReconcileDeployment, ReconcileHPA, ReconcilePDB, ReconcileAdapterConfig,
           RolloutAdapter, AdapterFails, PoolPass, PoolService, MemberService, LegacyService,
           ReconcileCanary, CanaryService, RampTurn, ResolveRouteBackends
  <2>5. who \in Names  BY <2>1 DEF PassKnows
  <2>6. CASE PruneRoutes
    <3>1. DesiredDoors(seen, ready) = {}  BY <2>1, <2>6 DEF PruneRoutes, GoOnWriting
    <3>2. \A d \in Doors : routes'[who][d] = {}
      BY <2>1, <2>5, <2>6, <3>1 DEF PruneRoutes, RouteStep, TypeOK
    <3> QED  BY <2>2, <3>1, <3>2
  <2>7. CASE WriteRoute
    <3>1. PICK d \in todo :
            /\ RouteStep([routes[who] EXCEPT ![d] = BackendRefs(who, seen, share[who], ready)])
            /\ GoOnWriting(todo \ {d})
      BY <2>7 DEF WriteRoute
    <3>2. todo = {d} /\ pc = "route"
      BY <2>1, <2>7, <3>1 DEF WriteRoute, GoOnWriting
    <3>3. d \in DesiredDoors(seen, ready) /\ \A e \in Doors \ {d} : DoorDone(e)
      BY <2>1, <3>2 DEF Progress, DoorsDone
    <3>4. \A e \in Doors :
             routes'[who][e] = IF e \in DesiredDoors(seen, ready)
                               THEN BackendRefs(who, seen, share[who], ready) ELSE {}
      BY <2>1, <2>5, <3>1, <3>3 DEF RouteStep, DoorDone, TypeOK
    <3> QED  BY <2>2, <3>4
  <2> QED  BY <2>4, <2>6, <2>7
<1> QED  BY <1>1, <1>2, <1>3, Invariance, PTL DEF Spec, PassDelivers
=============================================================================
