-------------------------------- MODULE Sizing --------------------------------
(***************************************************************************)
(* How many pods a service runs: the replica count of its Deployment, the  *)
(* autoscaler that may own it instead, the budget that limits voluntary    *)
(* disruption, and the metrics an rps autoscaler reads through an adapter  *)
(* all services share.                                                     *)
(***************************************************************************)
EXTENDS Namespace

(* Both bounds of spec.hpa are given: the pass leaves the replica count of   *)
(* the Deployment alone.  The autoscaler itself yields to spec.replicas.     *)
UsesHpa(s) == s.hpa # NoHpa
WantsHpa(s) == UsesHpa(s) /\ s.replicas = Unset
FixedReplicas(s) == IF s.replicas = Unset THEN 1 ELSE s.replicas

SizingStep(p, h, b) ==
  /\ pods' = p /\ hpa' = h /\ pdb' = b
  /\ UNCHANGED <<life, spec, services, routes, canary, share, waypoint, spent,
                 who, seen, ready, todo>>

(* A Deployment created without a count gets one replica from the API server.*)
ReconcileDeployment ==
  /\ pc = "deploy" /\ pc' = IF seen.primary THEN "pool" ELSE "member"
  /\ SizingStep([pods EXCEPT ![who] =
                   IF ~UsesHpa(seen) THEN FixedReplicas(seen)
                   ELSE IF @ = Unset THEN 1 ELSE @], hpa, pdb)
  /\ UNCHANGED adapter

(* Mutant: an autoscaler that is no longer wanted stays.                     *)
ReconcileHPAKeeps ==
  /\ pc = "hpa" /\ pc' = "pdb"
  /\ SizingStep(pods, [hpa EXCEPT ![who] = IF WantsHpa(seen) THEN seen.hpa ELSE @], pdb)
  /\ UNCHANGED adapter
(* The autoscaler exists while it is wanted.                                 *)
ReconcileHPA ==
  /\ pc = "hpa" /\ pc' = "pdb"
  /\ SizingStep(pods, [hpa EXCEPT ![who] = IF WantsHpa(seen) THEN seen.hpa ELSE NoHpa], pdb)
  /\ UNCHANGED adapter

(* Mutant: the budget is reckoned from spec.maxDown alone.                   *)
DisruptionBudgetUnchecked(s) ==
  IF s.singleton THEN Unset
  ELSE MaxDown(s.maxDown, IF UsesHpa(s) THEN s.hpa.min ELSE FixedReplicas(s))
(* The budget is reckoned from the fewest pods the spec allows.              *)
DisruptionBudget(s) ==
  Budget(s.singleton, IF UsesHpa(s) THEN s.hpa.min ELSE FixedReplicas(s), s.maxDown)

(* Without a canary, wanted or left over, there is nothing to do about one.  *)
CanaryStep ==
  IF seen.canary # Unset \/ who \in canary \/ Exists(CanaryOf(who)) THEN "canary" ELSE "ramp"
ReconcilePDB ==
  /\ pc = "pdb" /\ pc' = CanaryStep
  /\ SizingStep(pods, hpa, [pdb EXCEPT ![who] = DisruptionBudget(seen)])
  /\ UNCHANGED adapter

-----------------------------------------------------------------------------
(* Mutant: services that do not scale on requests are not left out.          *)
AskedWindowsAll == {spec[n].hpa.window : n \in {m \in Names : Live(m)}}
(* The windows of the services that are not being deleted.                   *)
AskedWindows == {spec[n].hpa.window : n \in {m \in Names : Live(m)}} \ {None}

(* The rules the adapter is to serve: whatever it already has stays.         *)
WrittenRules == rules \cup {DefaultWindow} \cup AskedWindows

AdapterStep(r, l) ==
  /\ rules' = r /\ loaded' = l
  /\ UNCHANGED <<life, spec, services, routes, workload, share, waypoint, who,
                 seen, ready, todo>>

(* The ConfigMap is written; then the adapter, which reads it only when it   *)
(* starts, is rolled unless it was last rolled onto these very rules.        *)
ReconcileAdapterConfig ==
  /\ pc = "rules" /\ pc' = "adapter"
  /\ AdapterStep(WrittenRules, loaded) /\ UNCHANGED spent
(* Mutant: the adapter is rolled if it has no checksum, not if it has        *)
(* another one.                                                              *)
RolloutAdapterOnce ==
  /\ pc = "adapter" /\ pc' = "hpa"
  /\ AdapterStep(rules, IF loaded = {} THEN rules ELSE loaded) /\ UNCHANGED spent
RolloutAdapter ==
  /\ pc = "adapter" /\ pc' = "hpa"
  /\ AdapterStep(rules, rules) /\ UNCHANGED spent

(* Either call may fail, and does not stop the pass.                         *)
AdapterFails ==
  /\ pc \in {"rules", "adapter"} /\ pc' = "hpa" /\ Spend("fault")
  /\ AdapterStep(rules, loaded)

SizingPass == ReconcileDeployment \/ ReconcileAdapterConfig \/ RolloutAdapter
              \/ AdapterFails \/ ReconcileHPA \/ ReconcilePDB
=============================================================================
