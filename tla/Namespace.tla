------------------------------ MODULE Namespace ------------------------------
(***************************************************************************)
(* The BirServices of one namespace and everything they share or own       *)
(* there: the Services that pools, members and canaries are dialled by,    *)
(* the HTTPRoutes, the namespace's waypoint, the replica count that the    *)
(* operator and an autoscaler both write, and the metrics adapter of the   *)
(* cluster.  Beside them the module states what goes on around the         *)
(* operator: specs come, change and go, the garbage collector removes what *)
(* a deleted service owned, autoscalers scale, ramps move.                 *)
(***************************************************************************)
EXTENDS Sizes, FiniteSets

CONSTANTS
  Names,      \* the BirServices there may be; a pool is named by one of them
  None,       \* no owner, no pass, no window
  Windows,    \* rate windows an rps autoscaler may ask for
  DefaultWindow,  \* the one it gets when it asks for none
  Specs,      \* the specs a human may give each of them
  Shares,     \* the weights a ramp may have reached
  Handovers,  \* TRUE: the primary of a pool may cease to be it while it lives
  Limit,      \* how often each kind of environment event may happen
  Total       \* how many such events there are in all

Kinds == {"create", "edit", "delete", "ramp", "fault"}
Counts == Nat \cup {Unset}
Percents == 1..99
NoHpa == [min |-> 0, max |-> 0, window |-> None]
HpaType == [min : Nat, max : Nat, window : Windows \cup {None}]

(* group: the pool.  backends: the weighted split over members, on the       *)
(* primary.  mesh: spec.traffic asks for istio.  hosted: exposed, with a     *)
(* hostname.  canary: the weight of a canary that is enabled and has an      *)
(* image, or Unset.  hpa: NoHpa unless both bounds are given; its window is  *)
(* None unless it scales on requests.                                        *)
SpecType == [group : Names, primary : BOOLEAN, weighted : BOOLEAN,
             backends : UNION {[M -> 0..100] : M \in SUBSET Names},
             mesh : BOOLEAN, hosted : BOOLEAN, canary : (0..100) \cup {Unset},
             replicas : Counts, hpa : HpaType, singleton : BOOLEAN,
             maxDown : Counts]

ASSUME NamesAssumption ==
  /\ IsFiniteSet(Names) /\ Names # {} /\ None \notin Names \cup Windows
  /\ DefaultWindow \in Windows
ASSUME SpecsAssumption == Specs \in [Names -> SUBSET SpecType]
ASSUME SharesAssumption == Shares \subseteq Percents /\ Handovers \in BOOLEAN
ASSUME LimitAssumption == Limit \in [Kinds -> Nat] /\ Total \in Nat

VARIABLES
  life,      \* whether each BirService is there, or going
  spec,      \* its spec, of no account when it is absent
  services,  \* the Services: whose each is, and whether it dials the waypoint
  routes,    \* the backends of each service's HTTPRoutes, {} when there is none
  pods,      \* spec.replicas of its Deployment, Unset when there is none
  hpa,       \* its HorizontalPodAutoscaler
  pdb,       \* maxUnavailable of its PodDisruptionBudget
  canary,    \* the services that have a canary Deployment
  share,     \* the share its progressive ramp has reached
  ambient,   \* the namespace is labelled for the ambient mesh
  options,   \* maxReplicas in the waypoint-options ConfigMap, 0 when there is none
  gateway,   \* the waypoint Gateway is there
  rules,     \* windows in the adapter's ConfigMap
  loaded,    \* windows the adapter that runs was started with
  spent,     \* environment events so far, by kind
  pc,        \* the API call the running pass makes next
  who,       \* the service it is about
  seen,      \* its spec as the pass read it
  ready,     \* the members whose Services it found
  todo       \* the HTTPRoutes it has yet to write

workload == <<pods, hpa, pdb, canary>>
waypoint == <<ambient, options, gateway>>
adapter == <<rules, loaded>>
cluster == <<services, routes, workload, share, waypoint, adapter>>
locals == <<pc, who, seen, ready, todo>>
vars == <<life, spec, cluster, spent, locals>>

(* Services by what they front: a pool is <group>-svc, a weighted pool's     *)
(* member <name>-inst-svc, a canary <name>-canary-svc, the version on trial  *)
(* <name>-next-svc.                                                          *)
Pool(g) == <<"pool", g>>
Member(n) == <<"inst", n>>
CanaryOf(n) == <<"canary", n>>
NextOf(n) == <<"next", n>>
ServiceNames == {"pool", "inst", "canary"} \X Names
NoService == [owner |-> None, mesh |-> FALSE]
Exists(s) == services[s].owner # None

(* An HTTPRoute hangs off the Gateway, or off the pool's Service for callers *)
(* inside the mesh.                                                          *)
Doors == {"gateway", "mesh"}
Backends == ({"pool", "inst", "canary", "next"} \X Names) \X Nat

Live(n) == life[n] = "live"
Meshed == {n \in Names : Live(n) /\ spec[n].mesh}

Labels == {"idle", "label", "options", "gateway", "ungate", "deploy", "pool",
           "member", "legacy", "rules", "adapter", "hpa", "pdb", "canary",
           "canarysvc", "ramp", "backends", "prune", "route"}

(* Every variable has its type.                                              *)
TypeOK ==
  /\ life \in [Names -> {"absent", "live", "terminating"}]
  /\ spec \in [Names -> SpecType]
  /\ services \in [ServiceNames -> [owner : Names \cup {None}, mesh : BOOLEAN]]
  /\ routes \in [Names -> [Doors -> SUBSET Backends]]
  /\ pods \in [Names -> Counts] /\ hpa \in [Names -> HpaType]
  /\ pdb \in [Names -> Counts] /\ canary \subseteq Names
  /\ share \in [Names -> Shares \cup {0}]
  /\ ambient \in BOOLEAN /\ options \in Nat /\ gateway \in BOOLEAN
  /\ rules \subseteq Windows /\ loaded \subseteq Windows
  /\ spent \in [Kinds -> Nat]
  /\ pc \in Labels /\ who \in Names \cup {None}
  /\ seen \in SpecType /\ ready \subseteq Names /\ todo \subseteq Doors

-----------------------------------------------------------------------------
Blank == [group |-> CHOOSE n \in Names : TRUE, primary |-> FALSE, weighted |-> FALSE,
          backends |-> << >>, mesh |-> FALSE, hosted |-> FALSE, canary |-> Unset,
          replicas |-> Unset, hpa |-> NoHpa, singleton |-> FALSE, maxDown |-> Unset]

(* The chart makes one member of a pool its primary: no other live one is.   *)
Leads(n, s) ==
  s.primary => \A m \in Names \ {n} :
                 Live(m) => ~(spec[m].primary /\ spec[m].group = s.group)

(* Specs the operator has not seen yet: it starts in a cluster that was      *)
(* described before it, or everything is created at once.                    *)
Init ==
  /\ life \in [Names -> {"absent", "live"}]
  /\ spec \in [Names -> UNION {Specs[n] : n \in Names} \cup {Blank}]
  /\ \A n \in Names : spec[n] \in IF Live(n) THEN {s \in Specs[n] : Leads(n, s)} ELSE {Blank}
  /\ services = [s \in ServiceNames |-> NoService]
  /\ routes = [n \in Names |-> [d \in Doors |-> {}]]
  /\ pods = [n \in Names |-> Unset] /\ hpa = [n \in Names |-> NoHpa]
  /\ pdb = [n \in Names |-> Unset] /\ canary = {}
  /\ share = [n \in Names |-> 0]
  /\ ambient = FALSE /\ options = 0 /\ gateway = FALSE
  /\ rules = {} /\ loaded = {}
  /\ spent = [k \in Kinds |-> 0]
  /\ pc = "idle" /\ who = None /\ seen = Blank /\ ready = {} /\ todo = {}

Events == spent["create"] + spent["edit"] + spent["delete"] + spent["ramp"] + spent["fault"]
Spend(kind) ==
  /\ spent[kind] < Limit[kind] /\ Events < Total
  /\ spent' = [spent EXCEPT ![kind] = @ + 1]

-----------------------------------------------------------------------------
(* The environment.                                                          *)

Create(n) ==
  /\ life[n] = "absent" /\ Spend("create")
  /\ life' = [life EXCEPT ![n] = "live"]
  /\ \E s \in Specs[n] : Leads(n, s) /\ spec' = [spec EXCEPT ![n] = s]
  /\ UNCHANGED <<cluster, locals>>

(* The primary of a pool that bears another member's name, or that it stays  *)
(* in, passes the pool on.                                                   *)
HandsOver(n, s) ==
  /\ spec[n].primary
  /\ s.group = spec[n].group => ~s.primary
  /\ s.group # spec[n].group => spec[n].group # n

EditSpec(n) ==
  /\ Live(n) /\ Spend("edit")
  /\ \E s \in Specs[n] \ {spec[n]} :
       /\ Leads(n, s) /\ (HandsOver(n, s) => Handovers)
       /\ spec' = [spec EXCEPT ![n] = s]
  /\ UNCHANGED <<life, cluster, locals>>

(* Foreground deletion: the object stays until the garbage collector has     *)
(* removed everything it owns.                                               *)
Delete(n) ==
  /\ Live(n) /\ Spend("delete")
  /\ life' = [life EXCEPT ![n] = "terminating"]
  /\ UNCHANGED <<spec, cluster, locals>>

CollectServices(n) ==
  /\ ~Live(n) /\ \E s \in ServiceNames : services[s].owner = n
  /\ services' = [s \in ServiceNames |->
                    IF services[s].owner = n THEN NoService ELSE services[s]]
  /\ UNCHANGED <<life, spec, routes, workload, share, waypoint, adapter, spent, locals>>

CollectRoutes(n) ==
  /\ ~Live(n) /\ \E d \in Doors : routes[n][d] # {}
  /\ routes' = [routes EXCEPT ![n] = [d \in Doors |-> {}]]
  /\ UNCHANGED <<life, spec, services, workload, share, waypoint, adapter, spent, locals>>

HasWorkload(n) == pods[n] # Unset \/ hpa[n] # NoHpa \/ pdb[n] # Unset \/ n \in canary
CollectWorkload(n) ==
  /\ ~Live(n) /\ HasWorkload(n)
  /\ pods' = [pods EXCEPT ![n] = Unset] /\ hpa' = [hpa EXCEPT ![n] = NoHpa]
  /\ pdb' = [pdb EXCEPT ![n] = Unset] /\ canary' = canary \ {n}
  /\ UNCHANGED <<life, spec, services, routes, share, waypoint, adapter, spent, locals>>

Gone(n) ==
  /\ life[n] = "terminating" /\ ~HasWorkload(n)
  /\ \A s \in ServiceNames : services[s].owner # n
  /\ \A d \in Doors : routes[n][d] = {}
  /\ life' = [life EXCEPT ![n] = "absent"] /\ spec' = [spec EXCEPT ![n] = Blank]
  /\ share' = [share EXCEPT ![n] = 0]
  /\ UNCHANGED <<services, routes, workload, waypoint, adapter, spent, locals>>

(* An autoscaler brings a Deployment within its bounds, unless the           *)
(* Deployment has no replicas at all: then autoscaling is off.               *)
HpaScales(n) ==
  /\ hpa[n] # NoHpa /\ pods[n] \notin (hpa[n].min)..(hpa[n].max) \cup {0, Unset}
  /\ pods' = [pods EXCEPT ![n] = IF @ < hpa[n].min THEN hpa[n].min ELSE hpa[n].max]
  /\ UNCHANGED <<life, spec, services, routes, hpa, pdb, canary, share, waypoint,
                 adapter, spent, locals>>

Kubernetes ==
  \E n \in Names : \/ CollectServices(n) \/ CollectRoutes(n) \/ CollectWorkload(n)
                  \/ Gone(n) \/ HpaScales(n)
Humans == \E n \in Names : Create(n) \/ EditSpec(n) \/ Delete(n)
Environment == Humans \/ Kubernetes
=============================================================================
