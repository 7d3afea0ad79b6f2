----------------------------- MODULE NamespacePass -----------------------------
(***************************************************************************)
(* The passes over all BirServices of a namespace, one at a time, as the   *)
(* one worker of the controller takes them from its queue.                 *)
(***************************************************************************)
EXTENDS Pools, Waypoint

(* Mutant: a service that is being deleted is reconciled like any other.     *)
StartPassRegardless(n) ==
  /\ pc = "idle" /\ life[n] # "absent"
  /\ pc' = (IF spec[n].mesh THEN "label" ELSE "options")
  /\ who' = n /\ seen' = spec[n] /\ UNCHANGED <<ready, todo>>
  /\ UNCHANGED <<life, spec, cluster, spent>>
(* The pass reads the service; one that is being deleted is left alone.      *)
StartPass(n) ==
  /\ pc = "idle" /\ Live(n)
  /\ pc' = (IF spec[n].mesh THEN "label" ELSE "options")
  /\ who' = n /\ seen' = spec[n] /\ UNCHANGED <<ready, todo>>
  /\ UNCHANGED <<life, spec, cluster, spent>>

(* An API call fails or the operator dies: what was written stays.           *)
Abandon ==
  /\ pc # "idle" /\ Spend("fault") /\ EndPass
  /\ UNCHANGED <<life, spec, cluster>>

Pass == WaypointPass \/ SizingPass \/ PoolPass
Next == (\E n \in Names : StartPass(n)) \/ Pass \/ Abandon \/ Environment

Spec == Init /\ [][Next]_vars

(* A pass that is under way goes on; every service gets its turn again and   *)
(* again, as the queue is first in first out and each change, requeue and    *)
(* resync puts it there; what is Kubernetes' own work gets done.  Humans and *)
(* failures owe nothing.                                                     *)
Fairness ==
  /\ WF_vars(Pass) /\ WF_vars(Kubernetes)
  /\ \A n \in Names : SF_vars(StartPass(n))
FairSpec == Spec /\ Fairness

-----------------------------------------------------------------------------
(* A service that is being deleted does go: nothing makes again what the     *)
(* garbage collector removes.                                                *)
DeletionCompletes ==
  \A n \in Names : []<>(life[n] # "terminating")

(* The Service of a pool comes to belong to the pool's primary, also when    *)
(* another had it and is deleted.                                            *)
PrimaryOwnsAddress ==
  <>[](\A n \in Names : Live(n) /\ spec[n].primary =>
         services[Pool(spec[n].group)].owner = n)

(* A weighted member has a Service of its own in the end, any other none.    *)
MembersAddressed ==
  <>[](\A n \in Names : Live(n) =>
         (spec[n].weighted <=> services[Member(n)].owner = n))

(* The routes of a pool's primary end up as its spec and the members that    *)
(* are there say, and name no Service that is not there; other services have *)
(* none.                                                                     *)
RoutesAgree(n) ==
  LET found == Resolve(spec[n])
  IN  \A d \in Doors :
        /\ routes[n][d] = IF d \in DesiredDoors(spec[n], found)
                          THEN BackendRefs(n, spec[n], share[n], found) ELSE {}
        /\ \A ref \in routes[n][d] : ref[1] \in ServiceNames => Exists(ref[1])
RoutesSettle ==
  <>[](\A n \in Names : Live(n) => RoutesAgree(n))

(* Until something is deleted, a route is written only for Services that are *)
(* there: members not reconciled yet, demoted or unweighted are left out.    *)
(* The temporary Service of the ramp is Reconcile's concern.                 *)
WrittenRouteResolves ==
  [][\A n \in Names, d \in Doors :
       routes'[n][d] # routes[n][d] /\ spent["delete"] = 0 =>
         \A ref \in routes'[n][d] : ref[1] \in ServiceNames => Exists(ref[1])]_vars

(* Whatever the ramp does, members hold their declared weights against each  *)
(* other, and the version on trial has its share of the ramping member's.    *)
Weight(refs, svc) ==
  LET own == {ref \in refs : ref[1] = svc}
  IN  IF own = {} THEN 0 ELSE (CHOOSE ref \in own : TRUE)[2]
Part(refs, m) == Weight(refs, Member(m)) + Weight(refs, NextOf(m))
Proportional(refs) ==
  /\ \A m1, m2 \in ready :
       Part(refs, m1) * seen.backends[m2] = Part(refs, m2) * seen.backends[m1]
  /\ who \in ready => Weight(refs, NextOf(who)) * 100 = Part(refs, who) * share[who]
KeepsProportions ==
  [][pc = "route" /\ ready # {} =>
       \A d \in Doors : routes'[who][d] \in {routes[who][d], {}}
                         \/ Proportional(routes'[who][d])]_vars

(* A pass leaves alone the Services of other services that are not being     *)
(* deleted.                                                                  *)
ForeignServicesStay ==
  [][\A s \in ServiceNames : services'[s] # services[s] =>
       services[s].owner \in {None, who} \/ ~Live(services[s].owner)]_vars

(* The waypoint stands just when a service of the namespace is in the mesh,  *)
(* with room for all of them, the namespace is labelled, and no Service      *)
(* sends its callers to a waypoint that is not there.  When the last service *)
(* is deleted nobody looks any more.                                         *)
WaypointSettles ==
  <>[]((\E n \in Names : Live(n)) =>
         /\ gateway <=> Meshed # {}
         /\ options = IF gateway THEN WaypointMax(Cardinality(Meshed)) ELSE 0
         /\ Meshed # {} => ambient
         /\ (\E s \in ServiceNames : services[s].mesh) => gateway)

(* The number of pods ends up what the spec asks for, and exactly one of the *)
(* operator and the autoscaler sets it.  A spec with both a count and an     *)
(* autoscaler is excepted: it gets no autoscaler, and no count either.       *)
SizeSettles ==
  <>[](\A n \in Names : Live(n) =>
         /\ hpa[n] = IF WantsHpa(spec[n]) THEN spec[n].hpa ELSE NoHpa
         /\ IF WantsHpa(spec[n]) THEN pods[n] \in (hpa[n].min)..(hpa[n].max)
            ELSE pods[n] # Unset /\ (UsesHpa(spec[n]) \/ pods[n] = FixedReplicas(spec[n])))

(* No disruption budget lets every pod go at once, or lasts on a service     *)
(* that wants none.                                                          *)
BudgetBinds ==
  <>[](\A n \in Names : Live(n) /\ ~(UsesHpa(spec[n]) /\ ~WantsHpa(spec[n])) =>
         pdb[n] = Unset \/ pdb[n] < pods[n])

(* Every window an autoscaler scales on is served in the end, though writing *)
(* the rules and rolling the adapter may fail without failing the pass.      *)
MetricsServed ==
  <>[](\A n \in Names : hpa[n].window # None => hpa[n].window \in loaded)
-----------------------------------------------------------------------------
(* A namespace at rest: every object is what the specs ask for.              *)
ServicesAgree(n) ==
  LET own == [owner |-> n, mesh |-> spec[n].mesh]
  IN  /\ spec[n].primary => services[Pool(spec[n].group)] = own
      /\ spec[n].group # n => services[Pool(n)] = NoService
      /\ services[Member(n)] = IF spec[n].weighted THEN own ELSE NoService
      /\ services[CanaryOf(n)] =
           IF spec[n].canary # Unset THEN [owner |-> n, mesh |-> FALSE] ELSE NoService

WorkloadAgrees(n) ==
  /\ IF UsesHpa(spec[n]) THEN pods[n] # Unset ELSE pods[n] = FixedReplicas(spec[n])
  /\ hpa[n] = IF WantsHpa(spec[n]) THEN spec[n].hpa ELSE NoHpa
  /\ hpa[n] # NoHpa => pods[n] \in (hpa[n].min)..(hpa[n].max) \cup {0}
  /\ pdb[n] = DisruptionBudget(spec[n])
  /\ n \in canary <=> spec[n].canary # Unset

Collected(n) ==
  /\ ~HasWorkload(n) /\ \A d \in Doors : routes[n][d] = {}
  /\ \A s \in ServiceNames : services[s].owner # n

SharedAgrees ==
  /\ Meshed # {} => ambient
  /\ gateway <=> Meshed # {}
  /\ options = IF gateway THEN WaypointMax(Cardinality(Meshed)) ELSE 0
  /\ (\E n \in Names : Live(n) /\ WantsHpa(spec[n])) => rules = WrittenRules /\ loaded = rules

Settled ==
  /\ \A n \in Names : IF Live(n) THEN ServicesAgree(n) /\ WorkloadAgrees(n) /\ RoutesAgree(n)
                       ELSE Collected(n)
  /\ SharedAgrees

(* The pass that runs, if one does, has read things as they are: it began    *)
(* after the last edit.                                                      *)
Current ==
  pc # "idle" =>
    /\ Live(who) /\ seen = spec[who]
    /\ pc = "label" => seen.mesh
    /\ pc = "gateway" => Meshed # {}
    /\ pc = "ungate" => Meshed = {}
    /\ pc = "pool" => seen.primary
    /\ pc = "legacy" => who # seen.group
    /\ pc \in {"rules", "adapter"} => WantsHpa(seen)
    /\ pc \in {"prune", "route"} => ready = Resolve(seen)
    /\ pc = "route" => todo \subseteq DesiredDoors(seen, ready)

(* Once all is as the specs ask, it stays until a human or a ramp moves:     *)
(* whatever service a pass is about, and wherever it fails, it writes        *)
(* nothing another pass would write otherwise.                               *)
RestLasts ==
  [][Settled /\ Current /\ UNCHANGED <<life, spec, share>> =>
       UNCHANGED cluster /\ Settled' /\ Current']_vars

(* What the running pass has to do for its service, by the spec it read.     *)
AutoscalerDone == hpa[who] = IF WantsHpa(seen) THEN seen.hpa ELSE NoHpa
BudgetDone == pdb[who] = DisruptionBudget(seen)
CanaryDone == who \in canary <=> seen.canary # Unset
OwnService == [owner |-> who, mesh |-> seen.mesh]
PoolDone == seen.primary => services[Pool(seen.group)] = OwnService
MemberDone == services[Member(who)] = IF seen.weighted THEN OwnService ELSE NoService
CanaryServiceDone ==
  IF seen.canary # Unset THEN services[CanaryOf(who)] = [owner |-> who, mesh |-> FALSE]
  ELSE ~Exists(CanaryOf(who))
DoorDone(d) ==
  routes[who][d] = IF d \in DesiredDoors(seen, ready)
                   THEN BackendRefs(who, seen, share[who], ready) ELSE {}

(* One pass is enough: as long as nothing has been deleted, a pass that runs *)
(* to its end leaves every object of its service as the spec it read asks,   *)
(* whatever happened to that spec, to other services and to other passes.    *)
(* The replica count is excepted: an autoscaler on its way out may scale in  *)
(* between.                                                                  *)
Completes == pc \in {"prune", "route"} /\ pc' = "idle" /\ UNCHANGED spent
PassDelivers ==
  [][Completes /\ spent["delete"] = 0 =>
       /\ AutoscalerDone /\ BudgetDone /\ CanaryDone
       /\ PoolDone /\ MemberDone /\ CanaryServiceDone
       /\ \A d \in Doors :
            routes'[who][d] = IF d \in DesiredDoors(seen, ready)
                              THEN BackendRefs(who, seen, share[who], ready) ELSE {}]_vars
=============================================================================
