---------------------------- MODULE PromotionProofs ----------------------------
(***************************************************************************)
(* Theorems about Reconcile that are about single steps: when the gate may *)
(* pass judgement, how the instance comes to another version, and when a   *)
(* share of the requests is raised.                                        *)
(***************************************************************************)
EXTENDS VerdictProofs

(* The actions of a pass before the instance is written, and those after it  *)
(* that belong to the ramp.                                                  *)
PlanStep ==
  \/ SyncStableTag \/ PlanStandDown \/ PlanNothingToRamp \/ PlanKeepVerdict
  \/ PlanKeepRamping \/ PlanPin \/ StartRamp \/ ForgetRamp
TrialStep ==
  \/ ConsumeCommand \/ ApplyCommand \/ ReleasePair \/ AwaitPromotion
  \/ UpsertNextRevision \/ UpsertNextRevisionService \/ HoldUntilReady
  \/ KeepSoaking \/ AbortOnBreach \/ AwaitSignal \/ CommitRolloutAdvance
  \/ DropService \/ DropDeployment \/ SettlePromotion

(* What the gate will judge was deployed while nothing else was judging.     *)
Planned == {"idle", "plan", "start", "forget"}
Judging == image # NoTag /\ pc \notin Planned \cup {"deploy"} => ~RampInFlight /\ ~Canary

(* A tag has come to the instance: it is there, or it was and is condemned.  *)
Arrived(t) == main.tag = t \/ main.rolledBack = t

(* An instance that nothing pins only moves to the newest build on the word  *)
(* of a promotion, whatever became of that promotion since.                  *)
Unpinned(phase) == stable = NoTag /\ rollout.phase = phase /\ rollout.tag = build
Promoted == Forward =>
  /\ Unpinned("RolledBack") => Arrived(build)
  /\ Unpinned("Promoting") /\ pc \in Settling => Arrived(build)
  /\ pc = "deploy" /\ stable = NoTag =>
       main.tag = NoTag \/ Arrived(build) \/ Unpinned("Promoting")

(* The pair stands before a step is judged.  A promotion loses it only once  *)
(* its version has come to the instance, and no more than its own version is *)
(* on trial when the pass looks at the pods.                                 *)
PairKnown ==
  /\ pc \in {"service", "judge"} => next.dep = rollout.tag
  /\ pc = "judge" => next.svc
  /\ then = "done" => main.tag = rollout.tag
  /\ pc = "route" /\ weight # 0 =>
       \/ PairStands
       \/ rollout.phase = "Promoting" /\ (Unattended => main.tag = rollout.tag)
  /\ Unattended /\ rollout.phase = "Promoting" =>
       /\ pc \notin Planned /\ image # NoTag => stable = NoTag
       /\ PairStands \/ Arrived(rollout.tag)
-----------------------------------------------------------------------------
(* What the parts of a pass leave alone.                                     *)
LEMMA PlanFrame ==
  ASSUME PlanStep
  PROVE  /\ UNCHANGED <<build, mode, main, next, route, then>>
         /\ pc \in Planned /\ pc' \in {"plan", "start", "forget", "deploy"}
BY DEF PlanStep, SyncStableTag, PlanStandDown, PlanNothingToRamp, PlanKeepVerdict,
   PlanKeepRamping, PlanPin, StartRamp, ForgetRamp, PlanOnly, Plan, Ramping, SetRollout,
   Deploy, Planned

LEMMA RampParts == RampStep <=> PlanStep \/ TrialStep
BY DEF RampStep, PlanStep, TrialStep

LEMMA TrialStepFrame ==
  ASSUME RInv, TrialStep
  PROVE  /\ UNCHANGED <<build, mode, stable, main, image, route>>
         /\ pc \notin Planned \cup {"deploy", "route", "gate"}
         /\ pc' \notin Planned \cup {"deploy", "gate"}
         /\ rollout'.tag \in {rollout.tag, NoTag}
         /\ RampInFlight' => RampInFlight /\ rollout'.tag = rollout.tag
BY TrialFrame DEF TrialStep, Planned

(* Pods come and go; the Deployment's own fields, and the pair's, stay.      *)
LEMMA PodsFrame ==
  ASSUME TypeOK, Environment
  PROVE  /\ main'.tag = main.tag /\ main'.rolledBack = main.rolledBack
         /\ main'.healthy = main.healthy
         /\ next'.dep = next.dep /\ next'.svc = next.svc
         /\ build' # build => pc = "idle"
<1>1. main \in MainType /\ next \in NextType
  BY DEF TypeOK
<1> QED BY <1>1
        DEF Environment, NewBuild, EditSpec, GiveCommand, Tick, MainPodsReady, MainCompletes,
            MainCrashes, MainDegrades, NextPodsReady, NextPodsFail, MainStep, NextStep,
            MainType, NextType, objects, locals

(* The gate's two kinds of write.                                            *)
LEMMA InstanceWritten ==
  ASSUME TypeOK, WriteInstance
  PROVE  /\ pc = "deploy" /\ pc' = "command"
         /\ image' = IF AutoRollback THEN image ELSE NoTag
         /\ main'.tag = EffectiveTag(image) /\ main'.rolledBack = main.rolledBack
         /\ main'.healthy = main.healthy
<1>1. main \in MainType
  BY DEF TypeOK
<1> QED BY <1>1 DEF WriteInstance, MainType

LEMMA VerdictWritten ==
  ASSUME TypeOK, GatePass, ~WriteInstance
  PROVE  /\ main'.tag = main.tag /\ pc \in {"route", "gate"} /\ pc' \in {"gate", "idle"}
         /\ main'.rolledBack # main.rolledBack =>
              pc = "gate" /\ image # NoTag /\ image = main.tag
         /\ main'.rolledBack \in {main.rolledBack, image, NoTag}
         /\ image' \in {image, NoTag} /\ (pc' = "idle" => image' = NoTag)
<1>1. main \in MainType
  BY DEF TypeOK
<1>2. QuarantineTag(image) => main'.tag = main.tag /\ main'.rolledBack \in {main.rolledBack, image}
  BY <1>1 DEF QuarantineTag, MainType
<1>3. CASE WriteRoute
  BY <1>3 DEF WriteRoute
<1>4. CASE GateStandsDown \/ KeepWatching
  BY <1>4 DEF GateStandsDown, KeepWatching, GateStep
<1>5. CASE CondemnCrash \/ CondemnBreach
  BY <1>2, <1>5 DEF CondemnCrash, CondemnBreach, GateStep, GateJudges
<1>6. CASE RecordHealthy
  BY <1>1, <1>6 DEF RecordHealthy, GateStep, GateJudges, MainType
<1> QED BY <1>3, <1>4, <1>5, <1>6 DEF GatePass
-----------------------------------------------------------------------------
LEMMA JudgingHolds == Spec => []Judging
<1>1. Init => Judging
  BY DEF Init, Judging
<1>2. RInv /\ Judging /\ [Next]_vars => Judging'
  <2> SUFFICES ASSUME RInv, Judging, [Next]_vars
               PROVE  Judging'
    OBVIOUS
  <2> USE DEF Judging, Planned
  <2>a. TypeOK
    BY DEF RInv
  <2>1. CASE PlanStep
    BY <2>1, PlanFrame
  <2>2. CASE TrialStep
    BY <2>2, TrialStepFrame DEF Canary
  <2>3. CASE WriteInstance
    <3>1. UNCHANGED <<mode, rollout>>
      BY <2>3, GateFrame DEF GatePass
    <3> QED BY <2>a, <2>3, <3>1, InstanceWritten
            DEF AutoRollback, OwnsRollbackDecision, RampInFlight, Canary
  <2>4. CASE GatePass /\ ~WriteInstance
    BY <2>a, <2>4, GateFrame, VerdictWritten DEF RampInFlight, Canary
  <2>5. CASE Environment
    BY <2>5, EnvironmentFrame DEF RampInFlight, Canary
  <2>6. CASE Abandon
    BY <2>6 DEF Abandon
  <2>7. CASE UNCHANGED vars
    BY <2>7 DEF vars, RampInFlight, Canary
  <2> QED BY <2>1, <2>2, <2>3, <2>4, <2>5, <2>6, <2>7, RampParts DEF Next, Pass
<1> QED BY <1>1, <1>2, RInvHolds, PTL DEF Spec

(* Whatever humans, edits, pods and faults do, the gate never condemns or    *)
(* acquits while a ramp in flight or a canary is judging.                    *)
THEOREM GateJudgesAlone == Spec => OneJudge
<1>1. RInv /\ Judging /\ [Next]_vars =>
        (main'.rolledBack # main.rolledBack => ~RampInFlight /\ ~Canary)
  <2> SUFFICES ASSUME RInv, Judging, [Next]_vars, main'.rolledBack # main.rolledBack
               PROVE  pc = "gate" /\ image # NoTag
    BY DEF Judging, Planned
  <2>a. TypeOK
    BY DEF RInv
  <2>1. ~PlanStep /\ ~TrialStep
    BY PlanFrame, TrialStepFrame
  <2>2. ~Environment /\ ~WriteInstance
    BY <2>a, PodsFrame, InstanceWritten
  <2>3. ~Abandon /\ ~UNCHANGED vars
    BY DEF Abandon, objects, vars
  <2>4. GatePass
    BY <2>1, <2>2, <2>3, RampParts DEF Next, Pass
  <2> QED BY <2>a, <2>2, <2>4, VerdictWritten
<1> QED BY <1>1, RInvHolds, JudgingHolds, PTL DEF Spec, OneJudge
-----------------------------------------------------------------------------
(* Promoted is inductive, given that an unpinned pass deploys the newest     *)
(* build and a trial is always pinned (TInv).                                *)
MInv == TInv /\ QuarantineHasFallback /\ Judging /\ Promoted

LEMMA MFacts ==
  ASSUME MInv, Forward
  PROVE  /\ RInv /\ TypeOK /\ ~Canary /\ pc # "forget"
         /\ RampInFlight => stable # NoTag
         /\ rollout.tag <= build /\ build \in Nat \ {0} /\ rollout.tag \in Nat
         /\ image # NoTag => image = Desired
         /\ pc = "deploy" => image # NoTag
<1>1. RInv /\ TypeOK /\ OnlyForward
  BY DEF MInv, TInv, RInv
<1>2. mode = "progressive" /\ pc # "forget"
  BY <1>1 DEF Forward, TypeOK, OnlyForward
<1>3. rollout.tag \in Nat /\ build \in Nat \ {0}
  BY <1>1, Shape DEF NoTag
<1> QED BY <1>1, <1>2, <1>3 DEF MInv, TInv, TrialBehind, Canary

LEMMA PlanPromoted ==
  ASSUME MInv, Forward, PlanStep
  PROVE  Promoted'
<1>a. RInv /\ ~Canary /\ pc # "forget" /\ (RampInFlight => stable # NoTag)
  BY MFacts
<1>b. UNCHANGED <<build, main>> /\ pc' \notin Settling
  BY PlanFrame DEF Settling
<1>c. Promoted
  BY DEF MInv
<1> USE DEF Promoted, Unpinned, Arrived
<1>1. CASE SyncStableTag
  <2>1. /\ UNCHANGED rollout /\ pc' = "plan"
        /\ rollout.phase = "RolledBack" => stable' = stable
    BY <1>a, <1>1 DEF SyncStableTag, HoldsImage
  <2> QED BY <1>b, <1>c, <2>1
<1>2. CASE PlanStandDown \/ PlanNothingToRamp
  <2>1. UNCHANGED rollout /\ pc' = "forget"
    BY <1>2 DEF PlanStandDown, PlanNothingToRamp, PlanOnly
  <2>2. RInv'
    BY <1>a, <1>2, PlanRInv
  <2> QED BY <2>1, <2>2 DEF RInv, OnlyForward, Forward
<1>3. CASE PlanKeepVerdict
  <2>1. /\ UNCHANGED rollout /\ rollout.tag = build
        /\ \/ rollout.phase = "RolledBack" /\ stable' = stable
           \/ rollout.phase = "Promoting"
    BY <1>3 DEF PlanKeepVerdict, PlanOnly, Ramping, RampingTag, NoTag
  <2> QED BY <1>b, <1>c, <2>1
<1>4. CASE PlanKeepRamping
  <2>1. UNCHANGED <<rollout, stable>> /\ stable # NoTag
    BY <1>a, <1>4 DEF PlanKeepRamping, PlanOnly
  <2> QED BY <1>b, <2>1
<1>5. CASE PlanPin
  <2>1. /\ UNCHANGED rollout /\ rollout.tag # build
        /\ stable' = NoTag => main.tag \in {build, NoTag}
    BY <1>5 DEF PlanPin, PlanOnly, Ramping, RampingTag, RunningInstanceTag
  <2> QED BY <1>b, <2>1
<1>6. CASE StartRamp
  <2>1. rollout'.phase = "Progressing" /\ UNCHANGED stable
    BY <1>6 DEF StartRamp, RampFrom
  <2>2. stable # NoTag
    BY <1>6 DEF StartRamp, MInv, TInv, TrialBehind
  <2> QED BY <1>b, <2>1, <2>2
<1> QED BY <1>a, <1>1, <1>2, <1>3, <1>4, <1>5, <1>6 DEF PlanStep, ForgetRamp

LEMMA TrialPromoted ==
  ASSUME MInv, Forward, TrialStep
  PROVE  Promoted'
<1>a. RInv /\ (RampInFlight => stable # NoTag)
  BY MFacts
<1>b. /\ UNCHANGED <<build, main, stable>> /\ pc' # "deploy"
      /\ rollout'.tag \in {rollout.tag, NoTag} /\ build # NoTag
  BY <1>a, TrialStepFrame, MFacts, Shape DEF Planned
<1>c. Promoted /\ PassKnows
  BY <1>a DEF MInv, RInv
<1>d. pc \in Settling \cup {"service", "judge"}
  BY <1>a, TrialStepFrame DEF TrialStep, ConsumeCommand, ApplyCommand, ReleasePair,
     AwaitPromotion, UpsertNextRevision, UpsertNextRevisionService, HoldUntilReady,
     KeepSoaking, AbortOnBreach, AwaitSignal, CommitRolloutAdvance, DropService,
     DropDeployment, SettlePromotion, Judge, Settling
<1> USE DEF Promoted, Unpinned, Arrived
<1>1. CASE rollout.phase \in {"RolledBack", "Promoting"} /\ pc \in Settling
  <2>1. rollout.tag = build /\ stable = NoTag => Arrived(build)
    BY <1>1, <1>c
  <2> QED BY <1>b, <2>1
<1>2. CASE RampInFlight
  BY <1>a, <1>b, <1>2
<1>3. CASE rollout.phase = "None"
  <2>1. rollout = NoRamp
    BY <1>3, <1>a DEF RInv, RampShape
  <2>2. rollout'.tag = NoTag
    BY <1>b, <2>1 DEF NoRamp
  <2> QED BY <1>b, <2>2
<1>4. pc \in {"service", "judge"} => RampInFlight
  BY <1>c DEF PassKnows
<1>5. rollout.phase \in {"None", "Progressing", "Promoting", "Held", "RolledBack"}
  BY <1>a DEF RInv, TypeOK, RolloutType
<1> QED BY <1>d, <1>1, <1>2, <1>3, <1>4, <1>5 DEF RampInFlight

LEMMA GatePromoted ==
  ASSUME MInv, Forward, GatePass
  PROVE  Promoted'
<1>a. TypeOK /\ ~Canary /\ (RampInFlight => stable # NoTag)
  BY MFacts
<1>b. UNCHANGED <<build, rollout, stable>> /\ pc' \in {"command", "gate", "idle"}
  BY GateFrame
<1> USE DEF Promoted, Unpinned
<1>1. CASE WriteInstance
  <2>1. /\ pc = "deploy" /\ main'.tag = EffectiveTag(image) /\ main'.rolledBack = main.rolledBack
    BY <1>a, <1>1, InstanceWritten
  <2>2. stable = NoTag => image = build
    BY <2>1, MFacts DEF Desired
  <2>3. stable = NoTag => Arrived(build)'
    BY <1>b, <2>1, <2>2 DEF EffectiveTag, Arrived
  <2> QED BY <1>b, <2>3
<1>2. CASE ~WriteInstance
  <2>1. /\ main'.tag = main.tag /\ pc' \notin Settling \cup {"deploy"}
        /\ main'.rolledBack # main.rolledBack => image # NoTag /\ image = main.tag
    BY <1>a, <1>2, VerdictWritten DEF Settling
  <2>2. stable = NoTag /\ main'.rolledBack # main.rolledBack => main.tag = build
    BY <2>1, MFacts DEF Desired
  <2>3. stable = NoTag /\ Arrived(build) => Arrived(build)'
    BY <1>b, <2>1, <2>2 DEF Arrived
  <2>4. Unpinned("RolledBack")' => Arrived(build)'
    BY <1>b, <2>3 DEF MInv
  <2> QED BY <2>1, <2>4
<1> QED BY <1>1, <1>2

LEMMA EnvironmentPromoted ==
  ASSUME MInv, Forward, Environment
  PROVE  Promoted'
<1>1. /\ UNCHANGED <<stable, rollout, pc>>
      /\ main'.tag = main.tag /\ main'.rolledBack = main.rolledBack
      /\ build' # build => pc = "idle"
  BY EnvironmentFrame, PodsFrame, MFacts
<1>2. rollout.tag <= build /\ build \in Nat /\ rollout.tag \in Nat
  BY MFacts
<1>3. build' \in {build, build + 1}
  BY DEF Environment, NewBuild, EditSpec, GiveCommand, Tick, MainPodsReady, MainCompletes,
     MainCrashes, MainDegrades, NextPodsReady, NextPodsFail, MainStep, NextStep, Forward
<1>4. CASE build' = build
  BY <1>1, <1>4 DEF MInv, Promoted, Unpinned, Arrived
<1>5. CASE build' = build + 1
  BY <1>1, <1>2, <1>5 DEF Promoted, Unpinned, Settling
<1> QED BY <1>3, <1>4, <1>5

LEMMA MInvHolds == Spec => []MInv
<1>1. Init => Promoted
  BY DEF Init, Promoted, Unpinned, NoRamp
<1>2. MInv /\ [Next]_vars => Promoted'
  <2> SUFFICES ASSUME MInv, [Next]_vars, Forward
               PROVE  Promoted'
    BY DEF Promoted, Forward
  <2>1. CASE RampStep
    BY <2>1, RampParts, PlanPromoted, TrialPromoted
  <2>2. CASE GatePass
    BY <2>2, GatePromoted
  <2>3. CASE Environment
    BY <2>3, EnvironmentPromoted
  <2>4. CASE Abandon
    BY <2>4 DEF Abandon, objects, MInv, Promoted, Unpinned, Arrived, Settling
  <2>5. CASE UNCHANGED vars
    BY <2>5 DEF vars, MInv, Promoted, Unpinned, Arrived
  <2> QED BY <2>1, <2>2, <2>3, <2>4, <2>5 DEF Next, Pass
<1>3. TInv /\ QuarantineHasFallback /\ Judging /\ Promoted => MInv
  BY DEF MInv
<1> QED BY <1>1, <1>2, <1>3, TInvHolds, QuarantineSafe, JudgingHolds, PTL DEF Spec

(* Once a progressive service fed by a pipeline runs something, it changes   *)
(* version only by a promotion, back to the pin, or to the recorded healthy  *)
(* tag: also when humans promote and abort, and passes are cut short.        *)
THEOREM PromotionOnly == ASSUME Forward PROVE Spec => MovesOnlyByPromotion
<1>1. MInv /\ [Next]_vars =>
        (main.tag # NoTag /\ main'.tag # main.tag =>
           \/ rollout.phase = "Promoting" /\ main'.tag = rollout.tag
           \/ main'.tag \in {stable, main.healthy})
  <2> SUFFICES ASSUME MInv, [Next]_vars, main.tag # NoTag, main'.tag # main.tag
               PROVE  \/ rollout.phase = "Promoting" /\ main'.tag = rollout.tag
                      \/ main'.tag \in {stable, main.healthy}
    OBVIOUS
  <2>a. RInv /\ TypeOK /\ ~Canary /\ (RampInFlight => stable # NoTag)
    BY MFacts
  <2>1. WriteInstance
    <3>1. ~PlanStep /\ ~TrialStep /\ ~Environment /\ ~Abandon /\ ~UNCHANGED vars
      BY <2>a, PlanFrame, TrialStepFrame, PodsFrame DEF Abandon, objects, vars
    <3> QED BY <2>a, <3>1, RampParts, VerdictWritten DEF Next, Pass
  <2>2. pc = "deploy" /\ main'.tag = EffectiveTag(image) /\ image = Desired
    BY <2>a, <2>1, InstanceWritten, MFacts
  <2>3. CASE stable # NoTag
    BY <2>2, <2>3 DEF Desired, EffectiveTag
  <2>4. CASE stable = NoTag
    <3>1. image = build /\ AutoRollback
      BY <2>a, <2>2, <2>4 DEF Desired, AutoRollback, OwnsRollbackDecision, RampInFlight
    <3>2. main'.tag \in {build, main.healthy}
      BY <2>2, <3>1 DEF EffectiveTag
    <3>3. main.tag = build \/ main.rolledBack = build \/ Unpinned("Promoting")
      BY <2>2, <2>4 DEF MInv, Promoted, Arrived
    <3>4. main.rolledBack = build => main'.tag = main.healthy
      <4>1. build # NoTag
        BY MFacts DEF NoTag
      <4> QED BY <2>2, <3>1, <4>1 DEF MInv, QuarantineHasFallback, EffectiveTag
    <3> QED BY <3>2, <3>3, <3>4 DEF Unpinned
  <2> QED BY <2>3, <2>4
<1> QED BY <1>1, MInvHolds, PTL DEF Spec, MovesOnlyByPromotion
-----------------------------------------------------------------------------
(* PairKnown is inductive, given that verdicts stand when nobody overrides   *)
(* them (VInv), and that the gate is silent during a trial (Judging).        *)
PInv == VInv /\ Judging /\ PairKnown

LEMMA PFacts ==
  ASSUME PInv
  PROVE  /\ RInv /\ TypeOK /\ PassKnows /\ PairKnown /\ rollout.tag \in Nat
         /\ Unattended => /\ ~Canary /\ pc \notin {"forget", "apply"} /\ build # NoTag
                          /\ image # NoTag => image = Desired
                          /\ pc = "deploy" => image # NoTag
                          /\ pc \notin Planned /\ rollout.phase # "None" => rollout.tag = build
                          /\ then = "revert" => main.rolledBack = rollout.tag
<1>1. RInv /\ TypeOK /\ PassKnows /\ PairKnown
  BY DEF PInv, VInv, TInv, RInv
<1>2. rollout.tag \in Nat
  BY <1>1, Shape
<1>3. ASSUME Unattended
      PROVE  ~Canary /\ pc \notin {"forget", "apply"} /\ build # NoTag
  BY <1>3, Unattendedly DEF PInv
<1>4. ASSUME Unattended
      PROVE  /\ image # NoTag => image = Desired
             /\ pc = "deploy" => image # NoTag
             /\ pc \notin Planned /\ rollout.phase # "None" => rollout.tag = build
             /\ then = "revert" => main.rolledBack = rollout.tag
  BY <1>4 DEF PInv, VInv, TInv, TrialBehind, VerdictStands, Unattended, Planned
<1> QED BY <1>1, <1>2, <1>3, <1>4

LEMMA PlanPair ==
  ASSUME PInv, PlanStep
  PROVE  PairKnown'
<1>a. /\ UNCHANGED <<build, main, next, then>> /\ then = "none"
      /\ pc' \notin {"service", "judge", "route"}
  BY PlanFrame, PFacts DEF PassKnows, Planned
<1>1. ASSUME Unattended, rollout'.phase = "Promoting"
      PROVE  /\ UNCHANGED rollout
             /\ pc' \notin Planned => stable' = NoTag
  <2>1. ~Canary /\ pc # "forget"
    BY <1>1, PFacts
  <2>2. CASE SyncStableTag
    BY <2>2 DEF SyncStableTag, Planned
  <2>3. CASE PlanKeepVerdict
    <3>1. UNCHANGED rollout /\ (rollout.phase = "Promoting" => stable' = NoTag)
      BY <2>3 DEF PlanKeepVerdict, PlanOnly
    <3> QED BY <1>1, <3>1
  <2>4. CASE PlanPin
    <3>1. UNCHANGED rollout /\ (stable' = NoTag \/ pc' = "start")
      BY <2>4 DEF PlanPin, PlanOnly
    <3> QED BY <3>1 DEF Planned
  <2>5. CASE PlanKeepRamping
    <3>1. UNCHANGED rollout /\ RampInFlight
      BY <2>5 DEF PlanKeepRamping, PlanOnly
    <3> QED BY <1>1, <3>1 DEF RampInFlight
  <2>6. CASE StartRamp
    BY <1>1, <2>6 DEF StartRamp, RampFrom
  <2>7. CASE PlanStandDown \/ PlanNothingToRamp \/ ForgetRamp
    <3>1. UNCHANGED rollout /\ pc' = "forget"
      BY <2>1, <2>7 DEF PlanStandDown, PlanNothingToRamp, PlanOnly, ForgetRamp
    <3> QED BY <3>1 DEF Planned
  <2> QED BY <2>2, <2>3, <2>4, <2>5, <2>6, <2>7 DEF PlanStep
<1> QED BY <1>a, <1>1, PFacts DEF PairKnown, PairStands, Arrived

LEMMA TrialPair ==
  ASSUME PInv, TrialStep
  PROVE  PairKnown'
<1>a. /\ UNCHANGED <<build, stable, main, image>> /\ pc \notin Planned \cup {"deploy", "route"}
      /\ pc' \notin Planned
  BY TrialStepFrame, PFacts
<1>b. PassKnows /\ PairKnown /\ RInv /\ weight = 0
  BY <1>a, PFacts DEF PassKnows
<1> USE DEF PairKnown, PairStands, Arrived
<1>1. CASE ConsumeCommand \/ ReleasePair
  BY <1>1, <1>a, <1>b DEF ConsumeCommand, ReleasePair, Revision, PassKnows
<1>2. CASE ApplyCommand
  <2>1. ~Unattended /\ pc' = "revision" /\ then' = then /\ then = "none"
    BY <1>2, <1>b, PFacts DEF ApplyCommand, PassKnows
  <2> QED BY <2>1
<1>3. CASE AwaitPromotion
  <2>1. /\ pc = "revision" /\ rollout.phase = "Promoting" /\ UNCHANGED <<rollout, next>>
        /\ then' = "done" => main.tag = rollout.tag
        /\ \/ pc' = "dropsvc"
           \/ pc' = "route" /\ ~TagWasQuarantined(rollout.tag)
    BY <1>3, <1>b DEF AwaitPromotion, Revision, ToRoute, MainRolloutComplete, PassKnows
  <2>2. Unattended => rollout.tag = build /\ build # NoTag
    BY <1>a, <2>1, PFacts
  <2> QED BY <1>a, <1>b, <2>1, <2>2 DEF TagWasQuarantined
<1>4. CASE UpsertNextRevision \/ UpsertNextRevisionService
  <2>1. RampInFlight /\ UNCHANGED <<rollout, then>> /\ then = "none"
    BY <1>4, <1>b DEF UpsertNextRevision, UpsertNextRevisionService, PassKnows
  <2>2. next \in NextType
    BY PFacts DEF TypeOK
  <2>3. \/ pc' = "service" /\ next'.dep = rollout.tag
        \/ pc = "service" /\ pc' = "judge" /\ next'.dep = next.dep /\ next'.svc
    BY <1>4, <2>2 DEF UpsertNextRevision, UpsertNextRevisionService, Revision, NextType
  <2> QED BY <1>b, <2>1, <2>3 DEF RampInFlight
<1>5. CASE HoldUntilReady \/ KeepSoaking \/ AbortOnBreach \/ AwaitSignal \/ CommitRolloutAdvance
  <2>1. pc = "judge" /\ pc' = "route" /\ UNCHANGED <<next, then>>
    BY <1>5 DEF HoldUntilReady, KeepSoaking, AbortOnBreach, AwaitSignal, CommitRolloutAdvance,
       Judge, ToRoute, Revision
  <2>2. RampInFlight /\ then = "none" /\ PairStands
    BY <1>b, <2>1 DEF PassKnows
  <2>3. image = NoTag
    BY <2>1, <2>2 DEF PInv, Judging, Planned
  <2>4. rollout'.tag = rollout.tag
    BY <1>5, <1>b, Shape DEF HoldUntilReady, KeepSoaking, AbortOnBreach, AwaitSignal,
       CommitRolloutAdvance, Advanced, RolledBack
  <2> QED BY <1>a, <2>1, <2>2, <2>3, <2>4
<1>6. CASE DropService \/ DropDeployment
  <2>1. /\ UNCHANGED <<rollout, weight, then>> /\ pc \in {"dropsvc", "dropdep"}
        /\ pc' \notin {"service", "judge"}
    BY <1>6 DEF DropService, DropDeployment, Revision
  <2>2. Unattended /\ rollout.phase = "Promoting" => Arrived(rollout.tag)
    <3>1. rollout.phase = "Promoting" => then \in {"revert", "done"}
      BY <1>b, <2>1, PFacts DEF PassKnows, TypeOK
    <3> QED BY <1>b, <3>1, PFacts
  <2> QED BY <1>a, <1>b, <2>1, <2>2
<1>7. CASE SettlePromotion
  <2>1. then' = "none" /\ weight' = weight /\ pc' = "route" /\ rollout' = Settled(rollout)
    BY <1>7 DEF SettlePromotion, Revision
  <2>2. rollout'.phase # "Promoting"
    BY <1>b, <2>1, Shape DEF Settled, RolledBack, NoRamp
  <2> QED BY <1>b, <2>1, <2>2
<1> QED BY <1>1, <1>2, <1>3, <1>4, <1>5, <1>6, <1>7 DEF TrialStep

LEMMA GatePair ==
  ASSUME PInv, GatePass
  PROVE  PairKnown'
<1>a. /\ UNCHANGED <<build, stable, rollout, next, then>> /\ then = "none"
      /\ pc \in {"deploy", "route", "gate"} /\ pc' \in {"command", "gate", "idle"}
      /\ TypeOK /\ pc \notin Planned /\ PairKnown
  BY GateFrame, PFacts DEF PassKnows, Planned
<1> USE DEF PairKnown, PairStands
<1>1. ASSUME Unattended, rollout.phase = "Promoting"
      PROVE  rollout.tag = build /\ (image # NoTag => image = build /\ stable = NoTag)
  BY <1>1, <1>a, PFacts DEF Desired
<1>2. CASE WriteInstance
  <2>1. /\ pc = "deploy" /\ image' \in {image, NoTag} /\ main'.tag = EffectiveTag(image)
        /\ main'.rolledBack = main.rolledBack
    BY <1>a, <1>2, InstanceWritten
  <2>2. ASSUME Unattended, rollout.phase = "Promoting"
        PROVE  Arrived(rollout.tag)' /\ stable = NoTag
    BY <1>1, <1>a, <2>1, <2>2, PFacts DEF EffectiveTag, Arrived
  <2> QED BY <1>a, <2>1, <2>2
<1>3. CASE ~WriteInstance
  <2>1. /\ main'.tag = main.tag /\ image' \in {image, NoTag}
        /\ main'.rolledBack # main.rolledBack => image # NoTag /\ image = main.tag
    BY <1>a, <1>3, VerdictWritten
  <2>2. ASSUME Unattended, rollout.phase = "Promoting"
        PROVE  /\ PairStands \/ Arrived(rollout.tag)'
               /\ image # NoTag => stable = NoTag
    BY <1>1, <1>a, <2>1, <2>2 DEF Arrived
  <2>3. pc' \notin {"service", "judge", "route"}
    BY <1>a
  <2> QED BY <1>a, <2>1, <2>2, <2>3
<1> QED BY <1>2, <1>3

LEMMA PInvHolds == Spec => []PInv
<1>1. Init => PairKnown
  BY DEF Init, PairKnown, NoRamp
<1>2. PInv /\ [Next]_vars => PairKnown'
  <2> SUFFICES ASSUME PInv, [Next]_vars
               PROVE  PairKnown'
    OBVIOUS
  <2>1. CASE RampStep
    BY <2>1, RampParts, PlanPair, TrialPair
  <2>2. CASE GatePass
    BY <2>2, GatePair
  <2>3. CASE Environment
    <3>1. /\ UNCHANGED <<stable, rollout, pc, image, weight, then>>
          /\ main'.tag = main.tag /\ main'.rolledBack = main.rolledBack
          /\ next'.dep = next.dep /\ next'.svc = next.svc
      BY <2>3, EnvironmentFrame, PodsFrame, PFacts
    <3> QED BY <3>1 DEF PInv, PairKnown, PairStands, Arrived
  <2>4. CASE Abandon
    BY <2>4 DEF Abandon, objects, PInv, PairKnown, PairStands, Arrived, Planned
  <2>5. CASE UNCHANGED vars
    BY <2>5 DEF vars, PInv, PairKnown, PairStands, Arrived
  <2> QED BY <2>1, <2>2, <2>3, <2>4, <2>5 DEF Next, Pass
<1>3. VInv /\ Judging /\ PairKnown => PInv
  BY DEF PInv
<1> QED BY <1>1, <1>2, <1>3, VInvHolds, JudgingHolds, PTL DEF Spec

LEMMA WeightsAreNat == \A w \in Weights : w \in Nat
<1>1. DOMAIN Steps = 1..Len(Steps)
  BY StepsAssumption
<1>2. \A i \in 1..Len(Steps) : Steps[i] \in 1..99
  BY StepsFacts
<1>3. \A w \in Weights : \E i \in 1..Len(Steps) : w = Steps[i]
  BY Zenon, <1>1 DEF Weights
<1>4. 1..99 \subseteq Nat
  OBVIOUS
<1> QED BY <1>2, <1>3, <1>4

(* A share is raised only while the pair for the ramp's own tag stands, or   *)
(* by a promotion; and where nobody overrides the ramp, by a promotion that  *)
(* lost the pair only if the instance has the version.  However often passes *)
(* are cut short.                                                            *)
THEOREM ShareNeedsPair == Spec => WeightNeedsPair
<1>1. PInv /\ [Next]_vars =>
        (route' > route =>
           PairStands \/ (rollout.phase = "Promoting" /\ (Unattended => main.tag = rollout.tag)))
  <2> SUFFICES ASSUME PInv, [Next]_vars, route' > route
               PROVE  \/ PairStands
                      \/ rollout.phase = "Promoting" /\ (Unattended => main.tag = rollout.tag)
    OBVIOUS
  <2>1. route \in Nat /\ route' # route
    <3>1. route \in Weights \cup {0} /\ weight \in Weights \cup {0}
      BY PFacts DEF TypeOK
    <3>2. route \in Nat /\ weight \in Nat
      BY <3>1, WeightsAreNat
    <3>3. route' = route \/ route' = weight
      BY RouteFrame, PFacts DEF vars
    <3>4. route' # route
      BY <3>2, <3>3
    <3> QED BY <3>2, <3>4
  <2>2. pc = "route" /\ route' = weight
    BY <2>1, RouteFrame DEF vars
  <2>3. weight # 0
    BY <2>1, <2>2
  <2> QED BY <2>2, <2>3, PFacts DEF PairKnown
<1> QED BY <1>1, PInvHolds, PTL DEF Spec, WeightNeedsPair
=============================================================================
