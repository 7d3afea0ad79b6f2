------------------------------- MODULE Service -------------------------------
(***************************************************************************)
(* One BirService as the API server holds it while the operator reconciles *)
(* it: the desired image, the status fields that steer a progressive       *)
(* rollout, the main Deployment with its auto-rollback annotations, the    *)
(* temporary next-revision Deployment and Service, and the weight of the   *)
(* HTTPRoute.  Beside them the module states what the rest of the world    *)
(* may do between two API calls of the operator: push builds, edit the     *)
(* spec, annotate a command, let time pass, bring pods up or down.         *)
(***************************************************************************)
EXTENDS Naturals, Sequences

CONSTANTS
  MaxTag,        \* build tags are 1..MaxTag, in the order they were first built
  Pipeline,      \* TRUE: a pipeline builds the versions, each under a new tag (a commit
                 \* SHA); FALSE: spec.image names them and may go back to an older one
  Steps,         \* spec.rollout.steps as sanitizeRolloutSteps leaves it
  Modes,         \* the values spec.rollout.strategy and spec.canary take
  Commands,      \* the values humans give the rollout-action annotation
  SloMode,       \* spec.traffic.autoRollback.mode; "off" also when there is no Prometheus
  RampEnforces,  \* resolvedRollout.enforce: a breach aborts the ramp
  Limit          \* how often each kind of environment event may happen

NoTag == 0
Tags == 1..MaxTag
Weights == {Steps[i] : i \in DOMAIN Steps}
Kinds == {"build", "edit", "command", "failure", "fault"}

ASSUME TagAssumption == MaxTag \in Nat \ {0} /\ Pipeline \in BOOLEAN
ASSUME StepsAssumption ==
  /\ Steps \in Seq(1..99) /\ Len(Steps) > 0
  /\ \A i, j \in DOMAIN Steps : i < j => Steps[i] < Steps[j]
ASSUME SpecAssumption ==
  /\ Modes \subseteq {"progressive", "immediate", "canary"}
  /\ Commands \subseteq {"promote", "abort", "unknown"}
  /\ SloMode \in {"off", "monitor", "enforce"} /\ RampEnforces \in BOOLEAN
ASSUME LimitAssumption == Limit \in [Kinds -> Nat]

VARIABLES
  build,    \* tag of the resolved image: the newest build, or spec.image
  mode,     \* what the spec asks for: see Modes
  command,  \* annotation deploy.easydeploy.io/rollout-action
  stable,   \* status.stableTag
  rollout,  \* status.rollout
  soak,     \* time since status.rollout.stepStartedAt, against the two step durations
  main,     \* the instance's Deployment and its pods
  next,     \* the temporary Deployment and Service
  route,    \* percentage the HTTPRoute sends to the temporary Service
  spent,    \* environment events so far, by kind
  pc,       \* the API call the running reconcile makes next
  image,    \* its tag to deploy; once deployed, the tag the rollback gate will judge
  cmd,      \* the command it read when it started
  weight,   \* the weight it will write to the route
  then      \* why it is deleting the temporary pair

objects == <<build, mode, command, stable, rollout, soak, main, next, route>>
locals == <<pc, image, cmd, weight, then>>
vars == <<build, mode, command, stable, rollout, soak, main, next, route, spent,
          pc, image, cmd, weight, then>>

NoRamp == [phase |-> "None", tag |-> NoTag, step |-> 0, weight |-> 0]
NoPair == [dep |-> NoTag, svc |-> FALSE, ready |-> NoTag, sized |-> 0]

RolloutType == [phase : {"None", "Progressing", "Promoting", "Held", "RolledBack"},
                tag : Tags \cup {NoTag}, step : 0..(Len(Steps) - 1),
                weight : Weights \cup {0}]

(* tag: the pod template's build-tag label.  ready: the tags that have Ready *)
(* pods.  status: "rolling", "complete" (every replica updated, available    *)
(* and never restarted), "flapping" (complete, with restarts), "crashed" (no *)
(* pod of the tag is Ready and one is crash-looping).                        *)
MainType == [tag : Tags \cup {NoTag}, healthy : Tags \cup {NoTag},
             rolledBack : Tags \cup {NoTag}, ready : SUBSET Tags,
             status : {"rolling", "complete", "flapping", "crashed"}]

(* dep: its template's tag, NoTag when there is no Deployment.  ready: the   *)
(* tag of its Ready pods when there are as many as the weight asks for.      *)
(* sized: the weight it was last sized for.                                  *)
NextType == [dep : Tags \cup {NoTag}, svc : BOOLEAN, ready : Tags \cup {NoTag},
             sized : Weights \cup {0}]

Labels == {"idle", "plan", "start", "forget", "deploy", "command", "apply",
           "revision", "service", "judge", "dropsvc", "dropdep", "settle",
           "route", "gate"}

(* Every variable has its type.                                              *)
TypeOK ==
  /\ build \in Tags /\ mode \in Modes /\ command \in Commands \cup {"none"}
  /\ stable \in Tags \cup {NoTag} /\ rollout \in RolloutType
  /\ soak \in {"young", "due", "over"}
  /\ main \in MainType /\ next \in NextType /\ route \in Weights \cup {0}
  /\ spent \in [Kinds -> Nat]
  /\ pc \in Labels /\ image \in Tags \cup {NoTag}
  /\ cmd \in Commands \cup {"none"} /\ weight \in Weights \cup {0}
  /\ then \in {"none", "revert", "done"}

-----------------------------------------------------------------------------
(* A service before its first deploy, or one that has been running tag 1,    *)
(* with or without a recorded healthy tag.                                   *)
NewMain == [tag |-> NoTag, healthy |-> NoTag, rolledBack |-> NoTag,
            ready |-> {}, status |-> "rolling"]
RunningMain(healthy) == [tag |-> 1, healthy |-> healthy, rolledBack |-> NoTag,
                         ready |-> {1}, status |-> "complete"]

Init ==
  /\ build = 1 /\ mode \in Modes /\ command = "none"
  /\ stable = NoTag /\ rollout = NoRamp /\ soak = "young"
  /\ main \in {NewMain, RunningMain(NoTag), RunningMain(1)}
  /\ next = NoPair /\ route = 0
  /\ spent = [k \in Kinds |-> 0]
  /\ pc = "idle" /\ image = NoTag /\ cmd = "none" /\ weight = 0 /\ then = "none"

Spend(kind) ==
  /\ spent[kind] < Limit[kind]
  /\ spent' = [spent EXCEPT ![kind] = @ + 1]

-----------------------------------------------------------------------------
(* The environment.  A reconcile reads build and spec once, when it starts,  *)
(* so a push or an edit during a pass is a push or an edit after it.         *)

(* The pipeline pushes a build, or the spec's image is edited.               *)
NewBuild ==
  /\ pc = "idle" /\ Spend("build")
  /\ \E t \in Tags \ {build} : (Pipeline => t = build + 1) /\ build' = t
  /\ UNCHANGED <<mode, command, stable, rollout, soak, main, next, route, locals>>

(* The developer changes strategy, or enables or disables the canary.        *)
EditSpec ==
  /\ pc = "idle" /\ Spend("edit")
  /\ mode' \in Modes \ {mode}
  /\ UNCHANGED <<build, command, stable, rollout, soak, main, next, route, locals>>

(* A human annotates the BirService, at any time: also during a pass.        *)
GiveCommand ==
  /\ Spend("command") /\ command' \in Commands
  /\ UNCHANGED <<build, mode, stable, rollout, soak, main, next, route, locals>>

(* Time passes: stepDuration, then maxStepDuration, since the step began.    *)
Tick ==
  /\ rollout.phase \in {"Progressing", "Held"}
  /\ soak' = CASE soak = "young" -> "due" [] soak = "due" -> "over" [] OTHER -> soak
  /\ UNCHANGED <<build, mode, command, stable, rollout, main, next, route, spent, locals>>

MainStep(m) ==
  /\ main' = m
  /\ UNCHANGED <<build, mode, command, stable, rollout, soak, next, route, locals>>

(* Pods of the instance's current tag become Ready.                          *)
MainPodsReady ==
  /\ main.tag # NoTag /\ main.tag \notin main.ready
  /\ MainStep([main EXCEPT !.ready = @ \cup {main.tag}, !.status = "rolling"])
  /\ UNCHANGED spent

(* The instance's rolling update finishes: every pod is of the current tag.  *)
MainCompletes ==
  /\ main.status = "rolling" /\ main.tag \in main.ready
  /\ MainStep([main EXCEPT !.ready = {main.tag}, !.status = "complete"])
  /\ UNCHANGED spent

(* Every pod of the current tag crash-loops; older pods stay (maxUnavailable *)
(* is 0).                                                                    *)
MainCrashes ==
  /\ main.tag # NoTag /\ main.status # "crashed" /\ Spend("failure")
  /\ MainStep([main EXCEPT !.ready = @ \ {main.tag}, !.status = "crashed"])

(* A completed instance loses a pod, or restarts containers and recovers.    *)
MainDegrades ==
  /\ main.status = "complete" /\ Spend("failure")
  /\ \E s \in {"rolling", "flapping"} : MainStep([main EXCEPT !.status = s])

NextStep(n) ==
  /\ next' = n
  /\ UNCHANGED <<build, mode, command, stable, rollout, soak, main, route, locals>>

(* Enough pods of the temporary Deployment's current template become Ready,  *)
(* or stop being Ready.                                                      *)
NextPodsReady ==
  /\ next.dep # NoTag /\ next.ready # next.dep
  /\ NextStep([next EXCEPT !.ready = next.dep])
  /\ UNCHANGED spent
NextPodsFail ==
  /\ next.ready # NoTag /\ Spend("failure")
  /\ NextStep([next EXCEPT !.ready = NoTag])

Environment ==
  \/ NewBuild \/ EditSpec \/ GiveCommand \/ Tick
  \/ MainPodsReady \/ MainCompletes \/ MainCrashes \/ MainDegrades
  \/ NextPodsReady \/ NextPodsFail
=============================================================================
