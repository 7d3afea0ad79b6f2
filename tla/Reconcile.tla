------------------------------ MODULE Reconcile ------------------------------
(***************************************************************************)
(* One reconcile pass after another over a BirService, among everything    *)
(* the environment may do: the composition of the ramp and the rollback    *)
(* gate as reconcileDeployment runs them.  Passes never overlap, the       *)
(* controller having one worker.                                           *)
(***************************************************************************)
EXTENDS RollbackGate

(* An API call fails, a pass returns early on a configuration error, or the  *)
(* operator dies: what was written stays, what was in memory is gone.        *)
Abandon ==
  /\ pc # "idle" /\ Spend("fault")
  /\ pc' = "idle" /\ image' = NoTag /\ cmd' = "none" /\ weight' = 0 /\ then' = "none"
  /\ UNCHANGED objects

Pass == RampStep \/ GatePass
Next == Pass \/ Abandon \/ Environment

Spec == Init /\ [][Next]_vars

(* A pass that is under way goes on and a finished one is followed by        *)
(* another (a requeue, a watch event, or the backoff of a failed one); time  *)
(* passes; pods of every version come up in the end.  Humans, pipelines and  *)
(* failures owe nothing.                                                     *)
Fairness ==
  /\ WF_vars(Pass) /\ WF_vars(Tick)
  /\ WF_vars(MainPodsReady) /\ WF_vars(MainCompletes) /\ WF_vars(NextPodsReady)
FairSpec == Spec /\ Fairness

(* A pipeline only moves forward, the service stays progressive, and nobody  *)
(* overrides the ramp.                                                       *)
Forward == Pipeline /\ Modes = {"progressive"}
Unattended == Forward /\ Commands = {}

-----------------------------------------------------------------------------
(* While a version is on trial beside the instance, the instance never runs  *)
(* it: what limits a bad build to the share of its step.                     *)
TrialOffInstance == RampInFlight => main.tag # rollout.tag

(* A ramp in flight always has a version to fall back to: the pin is set and *)
(* is an older build than the one on trial.                                  *)
TrialIsPinned == RampInFlight => stable # NoTag /\ stable < rollout.tag

(* A tag the ramp condemned is not on the instance: through crashes, early   *)
(* returns, the gate's own rollbacks and later reconciles.                   *)
CondemnedOffInstance ==
  rollout.phase = "RolledBack" => main.tag # rollout.tag

(* Whatever the gate quarantined has another version recorded to serve in    *)
(* its place.                                                                *)
QuarantineHasFallback ==
  main.rolledBack # NoTag => main.healthy \notin {NoTag, main.rolledBack}

(* Once something runs, the instance changes version only by the promotion   *)
(* of a ramp, back to the pin, or back to the recorded healthy tag.          *)
MovesOnlyByPromotion ==
  [][main.tag # NoTag /\ main'.tag # main.tag =>
       \/ rollout.phase = "Promoting" /\ main'.tag = rollout.tag
       \/ main'.tag \in {stable, main.healthy}]_vars

(* A share is raised only while the temporary pair for the ramp's own tag    *)
(* stands.  A promotion may also write its last share again when the pair is *)
(* gone: then the instance has the version itself, if no human overrides the *)
(* ramp.                                                                     *)
PairStands == next.svc /\ next.dep = rollout.tag
WeightNeedsPair ==
  [][route' > route =>
       PairStands \/ (rollout.phase = "Promoting" /\ (Unattended => main.tag = rollout.tag))]_vars

(* The gate condemns and acquits only while neither a ramp nor a canary is   *)
(* judging: the two never quarantine a version from different evidence.      *)
OneJudge ==
  [][main'.rolledBack # main.rolledBack => ~RampInFlight /\ ~Canary]_vars

(* The canary and the ramp never bid for the route together: a share for the *)
(* temporary pair is written only while the spec asks for a progressive      *)
(* rollout.                                                                  *)
OneSplitOwner == [][route' # route /\ route' > 0 => mode = "progressive"]_vars

(* What the rollout promises (RampLifecycle), with the status field as the   *)
(* trial and the HTTPRoute's weight as the share.                            *)
Lifecycle == INSTANCE RampLifecycle WITH
  Versions <- Tags, Nobody <- NoTag, Shares <- Steps,
  Overrides <- Commands # {},
  Withdrawals <- ~(Pipeline /\ Modes = {"progressive"}),
  trial <- [phase |-> rollout.phase, version |-> rollout.tag, step |-> rollout.step],
  share <- route

(* Passes cut short anywhere, failures and humans included, the rollout      *)
(* keeps that promise.                                                       *)
RampKeepsPromise == Lifecycle!Spec

(* An aborted ramp stops receiving requests, whatever fails on the way.      *)
AbortCutsTraffic ==
  []<>(rollout.phase = "RolledBack" => route = 0)

(* A service that is no longer progressive loses the ramp, its pods and its  *)
(* share of the route.                                                       *)
StandsDown ==
  []<>(mode # "progressive" => rollout = NoRamp /\ next = NoPair /\ route = 0)

(* The desired version reaches the instance, unless the ramp or the gate     *)
(* condemned it, the ramp holds for a human because there may yet be a       *)
(* signal, a canary has the pin, or another version is asked for instead.    *)
Delivered ==
  \A t \in Tags : []<>(build = t =>
    \/ main.tag = t \/ main.rolledBack = t \/ mode = "canary"
    \/ rollout.tag = t /\ rollout.phase = "RolledBack"
    \/ rollout.tag = t /\ rollout.phase = "Held" /\ SloAnalysisPossible)

-----------------------------------------------------------------------------
(* What the source says of itself and the runs refute.                       *)

(* "The temporary pair MUST outlive that rollout": a route that gives the    *)
(* next-revision Service a share finds it there.                             *)
RouteNeverDangles == route > 0 => next.svc

(* "promoting a superseded version would put something nobody is waiting for *)
(* into production": a ramp for a tag that is no longer asked for ends.      *)
SupersededIsDropped ==
  rollout.tag \notin {NoTag, build} ~> rollout.tag \in {NoTag, build}

(* abort "removes the temporary revision, leaving the instance where it was":*)
(* an aborted version does not stay on the instance.                         *)
AbortedLeavesInstance ==
  rollout.phase = "RolledBack" ~> rollout.phase # "RolledBack" \/ main.tag # rollout.tag

(* "re-ramping a version already judged bad would put it back in front of    *)
(* users": no ramp starts for the tag the gate has in quarantine.            *)
NeverRerampQuarantined ==
  [][rollout'.phase = "Progressing" /\ rollout'.tag # rollout.tag =>
       rollout'.tag # main.rolledBack]_vars

(* "would credit the new code with soak time it never served": a step is     *)
(* passed on the word of the pods of the version on trial.                   *)
StepsServedByTrial ==
  [][rollout'.tag = rollout.tag /\ rollout'.step > rollout.step =>
       next.ready = rollout.tag]_vars
=============================================================================
