-------------------------------- MODULE Pools --------------------------------
(***************************************************************************)
(* How requests find pods.  The primary of a pool owns the pool's Service  *)
(* and the HTTPRoutes; in a weighted pool each member has a Service of its *)
(* own for the route to give a share to; a canary has one more.            *)
(***************************************************************************)
EXTENDS Sizing

EndPass == pc' = "idle" /\ who' = None /\ seen' = Blank /\ ready' = {} /\ todo' = {}
Continue(label) == pc' = label /\ UNCHANGED <<who, seen, ready, todo>>

(* CreateOrUpdate of a Service: made or brought up to date, unless another   *)
(* BirService controls it; then the whole pass fails.                        *)
ReconcilePoolService(s, mesh, then) ==
  /\ IF services[s].owner \in {None, who}
     THEN /\ services' = [services EXCEPT ![s] = [owner |-> who, mesh |-> mesh]]
          /\ Continue(then)
     ELSE services' = services /\ EndPass
  /\ UNCHANGED <<life, spec, routes, workload, share, waypoint, adapter, spent>>

(* A Service of that name is deleted if the operator made it, whoever it     *)
(* made it for.                                                              *)
DeleteOwnedService(s, then) ==
  /\ services' = [services EXCEPT ![s] = NoService]
  /\ Continue(then)
  /\ UNCHANGED <<life, spec, routes, workload, share, waypoint, adapter, spent>>

PoolService ==
  pc = "pool" /\ ReconcilePoolService(Pool(seen.group), seen.mesh, "member")

AfterServices == IF WantsHpa(seen) THEN "rules" ELSE "hpa"
(* Mutant: the earlier name is reclaimed also where it is the pool's.        *)
MemberServiceReclaims ==
  /\ pc = "member"
  /\ IF seen.weighted THEN ReconcilePoolService(Member(who), seen.mesh, "legacy")
                      ELSE DeleteOwnedService(Member(who), "legacy")
(* Mutant: the Service of a member that lost its weight stays.               *)
MemberServiceStays ==
  /\ pc = "member"
  /\ LET then == IF who = seen.group THEN AfterServices ELSE "legacy"
     IN  IF seen.weighted THEN ReconcilePoolService(Member(who), seen.mesh, then)
         ELSE Continue(then) /\ UNCHANGED <<life, spec, cluster, spent>>
(* A member's own Service is for a weighted pool only.                       *)
MemberService ==
  /\ pc = "member"
  /\ LET then == IF who = seen.group THEN AfterServices ELSE "legacy"
     IN  IF seen.weighted THEN ReconcilePoolService(Member(who), seen.mesh, then)
                          ELSE DeleteOwnedService(Member(who), then)

(* Mutant: the pool's name is taken for the earlier one.                     *)
LegacyServiceOfPool == pc = "legacy" /\ DeleteOwnedService(Pool(seen.group), AfterServices)
(* The Service name of an earlier version of the operator is reclaimed,      *)
(* unless it is the pool's.                                                  *)
LegacyService == pc = "legacy" /\ DeleteOwnedService(Pool(who), AfterServices)

-----------------------------------------------------------------------------
(* A canary has a Deployment and a Service, made and removed in that order.  *)
ReconcileCanary ==
  /\ pc = "canary" /\ Continue("canarysvc")
  /\ canary' = IF seen.canary # Unset THEN canary \cup {who} ELSE canary \ {who}
  /\ UNCHANGED <<life, spec, services, routes, pods, hpa, pdb, share, waypoint,
                 adapter, spent>>
CanaryService ==
  /\ pc = "canarysvc"
  /\ IF seen.canary # Unset THEN ReconcilePoolService(CanaryOf(who), FALSE, "ramp")
                            ELSE DeleteOwnedService(CanaryOf(who), "ramp")

(* The ramp takes its turn: it stands down for a canary and on a service     *)
(* that is not primary, else it holds its share or moves to another.         *)
RampTurn ==
  /\ pc = "ramp" /\ Continue("backends")
  /\ IF seen.canary # Unset \/ ~seen.primary
     THEN share' = [share EXCEPT ![who] = 0] /\ UNCHANGED spent
     ELSE \/ UNCHANGED <<share, spent>>
          \/ /\ Spend("ramp")
             /\ \E w \in (Shares \cup {0}) \ {share[who]} : share' = [share EXCEPT ![who] = w]
  /\ UNCHANGED <<life, spec, services, routes, workload, waypoint, adapter>>

-----------------------------------------------------------------------------
(* Mutant: every declared member gets its share, its Service there or not.   *)
ResolveUnchecked(s) == IF s.weighted /\ s.primary THEN DOMAIN s.backends ELSE {}
(* The members of the split whose Services exist.                            *)
Resolve(s) ==
  IF s.weighted /\ s.primary THEN {m \in DOMAIN s.backends : Exists(Member(m))} ELSE {}

ResolveRouteBackends ==
  /\ pc = "backends" /\ pc' = "prune" /\ ready' = Resolve(seen)
  /\ UNCHANGED <<life, spec, cluster, spent, who, seen, todo>>

(* Mutant: a ramp replaces the weights of the pool by its own split.         *)
WeightedRefsUnscaled(n, s, next, found) ==
  UNION {IF next > 0 /\ m = n
         THEN {<<Member(m), s.backends[m] * (100 - next)>>, <<NextOf(n), s.backends[m] * next>>}
         ELSE {<<Member(m), s.backends[m]>>} : m \in found}
(* A weighted pool: each member found gets its declared weight, scaled by    *)
(* 100 during a ramp so that the ramping member's part can be divided.       *)
WeightedRefs(n, s, next, found) ==
  UNION {IF next = 0 THEN {<<Member(m), s.backends[m]>>}
         ELSE IF m # n THEN {<<Member(m), s.backends[m] * 100>>}
         ELSE {<<Member(m), s.backends[m] * (100 - next)>>, <<NextOf(n), s.backends[m] * next>>} :
           m \in found}

(* A service's own two-way split, with a canary or with the next revision,   *)
(* or its one backend.                                                       *)
OwnRefs(n, s, next) ==
  LET svc == IF s.weighted THEN Member(n) ELSE Pool(s.group)
  IN  IF s.canary > 0 THEN {<<svc, 100 - s.canary>>, <<CanaryOf(n), s.canary>>}
      ELSE IF next > 0 THEN {<<svc, 100 - next>>, <<NextOf(n), next>>}
      ELSE {<<svc, 1>>}

BackendRefs(n, s, next, found) ==
  IF found # {} THEN WeightedRefs(n, s, next, found) ELSE OwnRefs(n, s, next)

(* The HTTPRoutes a service is to have.                                      *)
DesiredDoors(s, found) ==
  {d \in Doors : /\ s.primary
                 /\ \/ d = "gateway" /\ s.hosted
                    \/ d = "mesh" /\ s.weighted /\ s.mesh /\ found # {}}

RouteStep(r) ==
  /\ routes' = [routes EXCEPT ![who] = r]
  /\ UNCHANGED <<life, spec, services, workload, share, waypoint, adapter, spent>>
(* A pass with no route left to write is over.                               *)
GoOnWriting(doors) ==
  IF doors = {} THEN EndPass
  ELSE pc' = "route" /\ todo' = doors /\ UNCHANGED <<who, seen, ready>>

(* Mutant: HTTPRoutes that are no longer wanted stay.                        *)
PruneNothing ==
  /\ pc = "prune" /\ GoOnWriting(DesiredDoors(seen, ready))
  /\ RouteStep(routes[who])
(* Those it should not have are deleted, then the others are written in any  *)
(* order.                                                                    *)
PruneRoutes ==
  /\ pc = "prune" /\ GoOnWriting(DesiredDoors(seen, ready))
  /\ RouteStep([d \in Doors |-> IF d \in DesiredDoors(seen, ready) THEN routes[who][d] ELSE {}])
WriteRoute ==
  /\ pc = "route"
  /\ \E d \in todo :
       /\ RouteStep([routes[who] EXCEPT ![d] = BackendRefs(who, seen, share[who], ready)])
       /\ GoOnWriting(todo \ {d})

PoolPass == PoolService \/ MemberService \/ LegacyService \/ ReconcileCanary
            \/ CanaryService \/ RampTurn \/ ResolveRouteBackends \/ PruneRoutes
            \/ WriteRoute
=============================================================================
