----------------------------- MODULE VerdictProofs -----------------------------
(***************************************************************************)
(* A verdict stands: for a progressive service fed by a pipeline, with     *)
(* nobody overriding it, a version the ramp condemned never serves as the  *)
(* instance again.                                                         *)
(***************************************************************************)
EXTENDS ReconcileProofs

(* There is something to serve instead: either the instance is pinned, and   *)
(* neither the recorded healthy tag nor the pods to fall back to are of the  *)
(* condemned version, or the gate has it in quarantine.                      *)
Replaced(t) ==
  /\ main.healthy # t
  /\ IF stable = NoTag THEN main.rolledBack = t /\ main.healthy # NoTag
                       ELSE main.healthy = NoTag => t \notin main.ready

(* A ramp for another tag than the newest is restarted before anything is    *)
(* written, and a promotion that the gate reverted has left the instance.    *)
Settling == {"command", "apply", "revision", "dropsvc", "dropdep", "settle"}
VerdictStands == Unattended =>
  /\ stable # NoTag \/ rollout.phase # "None" => main.tag # NoTag
  /\ rollout.phase # "None" /\ rollout.tag # build =>
       pc \in {"idle", "plan", "start"} /\ main.tag # build
  /\ pc \in Settling /\ rollout.phase = "Promoting" /\ main.rolledBack = rollout.tag =>
       main.tag # rollout.tag
  /\ then = "revert" => main.rolledBack = rollout.tag
  /\ rollout.phase = "RolledBack" => main.tag # rollout.tag /\ Replaced(rollout.tag)

VInv == TInv /\ QuarantineHasFallback /\ VerdictStands

-----------------------------------------------------------------------------
LEMMA Unattendedly ==
  ASSUME VInv, Unattended
  PROVE  /\ mode = "progressive" /\ Wanted /\ ~Canary /\ pc \notin {"forget", "apply"}
         /\ command = "none" /\ cmd = "none"
         /\ NoTag \notin Tags /\ build \in Tags /\ build \in Nat /\ stable \in Nat
         /\ main \in MainType /\ main.tag \in Nat /\ main.tag <= build
         /\ stable < build /\ RampingTag = build
         /\ rollout.phase \in {"None", "Progressing", "Promoting", "Held", "RolledBack"}
         /\ rollout.phase = "None" <=> rollout = NoRamp
         /\ rollout.tag \in Nat /\ rollout.tag <= build
  <1>1. TypeOK /\ RampShape /\ PassKnows /\ OnlyForward  BY DEF VInv, TInv, RInv
  <1>2. mode = "progressive" /\ pc # "forget"
    BY <1>1 DEF Unattended, Forward, TypeOK, OnlyForward
  <1>3. command = "none" /\ cmd = "none" /\ pc # "apply"
    BY <1>1 DEF Unattended, TypeOK, PassKnows
  <1>4. /\ NoTag \notin Tags /\ build \in Tags /\ build \in Nat /\ stable \in Nat
        /\ main \in MainType /\ main.tag \in Nat /\ main.tag <= build /\ stable < build
    BY <1>1, Shape DEF VInv, TInv, TypeOK, OnlyForward, Unattended
  <1>5. rollout.tag \in Nat /\ rollout.tag <= build
    BY Shape DEF VInv, TInv, TrialBehind, Unattended
  <1>6. RampingTag = build  BY <1>4 DEF RampingTag
  <1>7. rollout.phase \in {"None", "Progressing", "Promoting", "Held", "RolledBack"}
    BY <1>1 DEF TypeOK, RolloutType
  <1>8. rollout.phase = "None" <=> rollout = NoRamp  BY <1>1 DEF RampShape
  <1> QED  BY <1>2, <1>3, <1>4, <1>5, <1>6, <1>7, <1>8 DEF Wanted, Canary

LEMMA PlanKeepsVerdict ==
  ASSUME VInv, Unattended,
         SyncStableTag \/ PlanStandDown \/ PlanNothingToRamp \/ PlanKeepVerdict
           \/ PlanKeepRamping \/ PlanPin \/ StartRamp \/ ForgetRamp
  PROVE  VerdictStands'
  <1>0. /\ Wanted /\ ~Canary /\ pc # "forget" /\ RampingTag = build /\ stable < build
        /\ build # NoTag /\ stable \in Nat /\ build \in Nat
        /\ rollout.phase = "None" <=> rollout = NoRamp
    BY Unattendedly
  <1>a. UNCHANGED <<build, main>> /\ then = "none" /\ then' = "none"
    <2>1. pc \in {"idle", "plan", "start", "forget"}
      BY DEF SyncStableTag, PlanStandDown, PlanNothingToRamp, PlanKeepVerdict,
             PlanKeepRamping, PlanPin, StartRamp, ForgetRamp, Plan, Ramping
    <2>2. then = "none"  BY <2>1 DEF VInv, TInv, RInv, PassKnows
    <2> QED
      BY <2>2 DEF SyncStableTag, PlanStandDown, PlanNothingToRamp, PlanKeepVerdict,
                  PlanKeepRamping, PlanPin, StartRamp, ForgetRamp, PlanOnly, Plan, Ramping,
                  SetRollout
  <1>b. VerdictStands  BY DEF VInv
  <1> USE DEF VerdictStands, Replaced, Settling
  <1>1. CASE SyncStableTag
    <2>1. /\ pc = "idle" /\ pc' = "plan" /\ UNCHANGED rollout
          /\ stable' = IF HoldsImage THEN stable ELSE NoTag
      BY <1>0, <1>1 DEF SyncStableTag
    <2>2. rollout.phase = "RolledBack" => stable' = stable  BY <2>1 DEF HoldsImage
    <2> QED  BY <1>a, <1>b, <2>1, <2>2
  <1>2. CASE PlanStandDown \/ PlanNothingToRamp \/ ForgetRamp
    BY <1>0, <1>2 DEF PlanStandDown, PlanNothingToRamp, ForgetRamp, Ramping
  <1>3. CASE PlanKeepVerdict
    <2>1. /\ pc' = "deploy" /\ UNCHANGED rollout /\ rollout.tag = build
          /\ stable' = IF rollout.phase = "RolledBack" THEN stable ELSE NoTag
          /\ rollout.phase \in {"RolledBack", "Promoting"}
      BY <1>0, <1>3 DEF PlanKeepVerdict, PlanOnly, Deploy
    <2> QED  BY <1>a, <1>b, <2>1
  <1>4. CASE PlanKeepRamping
    <2>1. pc' = "deploy" /\ UNCHANGED <<rollout, stable>> /\ rollout.tag = build /\ RampInFlight
      BY <1>0, <1>4 DEF PlanKeepRamping, PlanOnly, Deploy
    <2> QED  BY <1>a, <1>b, <2>1 DEF RampInFlight
  <1>5. CASE PlanPin
    <2>1. /\ rollout.tag # build /\ stable = NoTag /\ UNCHANGED rollout /\ pc = "plan"
      BY <1>0, <1>5 DEF PlanPin, PlanOnly, Ramping, Plan
    <2>2. \/ stable' = NoTag /\ pc' = "deploy" /\ main.tag \in {build, NoTag}
          \/ stable' = main.tag /\ pc' = "start" /\ main.tag # NoTag
      BY <1>0, <1>5 DEF PlanPin, PlanOnly, Deploy, RunningInstanceTag
    <2>3. rollout.phase # "None" => main.tag \notin {build, NoTag}
      BY <1>b, <2>1
    <2>4. rollout.phase = "RolledBack" => main.tag # rollout.tag /\ main.healthy \notin {NoTag, rollout.tag}
      BY <1>b, <2>1
    <2>5. CASE rollout.phase = "None"  BY <1>a, <1>b, <2>1, <2>2, <2>5
    <2>6. CASE rollout.phase # "None"
      <3>1. stable' = main.tag /\ pc' = "start" /\ main.tag # NoTag  BY <2>2, <2>3, <2>6
      <3> QED  BY <1>a, <1>b, <2>1, <2>3, <2>4, <3>1
    <2> QED  BY <2>5, <2>6
  <1>6. CASE StartRamp
    <2>1. /\ rollout'.phase = "Progressing" /\ rollout'.tag = build /\ pc' = "deploy"
          /\ UNCHANGED stable
      BY <1>0, <1>6 DEF StartRamp, RampFrom, Deploy
    <2>2. stable # NoTag
      BY <1>6 DEF StartRamp, VInv, TInv, TrialBehind, Unattended
    <2> QED  BY <1>a, <1>b, <2>1, <2>2
  <1> QED  BY <1>1, <1>2, <1>3, <1>4, <1>5, <1>6

LEMMA RampKeepsVerdict ==
  ASSUME VInv, Unattended,
         ConsumeCommand \/ ApplyCommand \/ ReleasePair \/ AwaitPromotion
           \/ UpsertNextRevision \/ UpsertNextRevisionService \/ HoldUntilReady
           \/ KeepSoaking \/ AbortOnBreach \/ AwaitSignal \/ CommitRolloutAdvance
           \/ DropService \/ DropDeployment \/ SettlePromotion
  PROVE  VerdictStands'
  <1>0. cmd = "none" /\ pc # "apply" /\ build # NoTag
    BY Unattendedly
  <1>a. UNCHANGED <<build, main, stable>>
    BY DEF ConsumeCommand, ApplyCommand, ReleasePair, AwaitPromotion, UpsertNextRevision,
           UpsertNextRevisionService, HoldUntilReady, KeepSoaking, AbortOnBreach, AwaitSignal,
           CommitRolloutAdvance, DropService, DropDeployment, SettlePromotion, Revision,
           ToRoute, Judge
  <1>b. VerdictStands /\ PassKnows /\ TypeOK  BY DEF VInv, TInv, RInv
  <1>c. pc \notin {"idle", "plan", "start"} => (rollout.phase # "None" => rollout.tag = build)
    BY <1>b DEF VerdictStands
  <1> USE DEF VerdictStands, Replaced, Settling
  <1>1. CASE ConsumeCommand
    <2>1. UNCHANGED <<rollout, then>> /\ pc = "command" /\ pc' = "revision"
      BY <1>0, <1>1 DEF ConsumeCommand
    <2> QED  BY <1>a, <1>b, <2>1
  <1>2. CASE ApplyCommand  BY <1>0, <1>2 DEF ApplyCommand
  <1>3. CASE ReleasePair
    <2>1. /\ UNCHANGED <<rollout, then>> /\ pc = "revision" /\ pc' = "dropsvc"
      BY <1>3 DEF ReleasePair, Revision
    <2> QED  BY <1>a, <1>b, <2>1
  <1>4. CASE AwaitPromotion
    <2>1. /\ UNCHANGED rollout /\ pc = "revision" /\ rollout.phase = "Promoting"
          /\ \/ pc' = "dropsvc" /\ then' = "revert" /\ main.rolledBack = rollout.tag
             \/ pc' = "dropsvc" /\ then' = "done"
             \/ pc' = "route" /\ then' = then
      BY <1>4 DEF AwaitPromotion, Revision, ToRoute, TagWasQuarantined
    <2> QED  BY <1>a, <1>b, <1>c, <2>1
  <1>5. CASE UpsertNextRevision \/ UpsertNextRevisionService \/ HoldUntilReady \/ KeepSoaking
    <2>1. /\ UNCHANGED <<rollout, then>> /\ pc \in {"revision", "service", "judge"}
          /\ pc' \in {"service", "judge", "route"}
      BY <1>5 DEF UpsertNextRevision, UpsertNextRevisionService, HoldUntilReady, KeepSoaking,
                  Judge, ToRoute, Revision
    <2> QED  BY <1>a, <1>b, <1>c, <2>1
  <1>6. CASE AbortOnBreach
    <2>1. /\ pc = "judge" /\ pc' = "route" /\ then' = then
          /\ rollout' = RolledBack(rollout)
      BY <1>6 DEF AbortOnBreach, Judge, ToRoute, Revision
    <2>2. RampInFlight /\ then = "none"  BY <1>b, <2>1 DEF PassKnows
    <2>3. rollout'.phase = "RolledBack" /\ rollout'.tag = rollout.tag /\ rollout.tag = build
      BY <1>b, <1>c, <2>1, <2>2 DEF RolledBack, RampInFlight, TypeOK, RolloutType
    <2>4. stable # NoTag /\ Behind(rollout.tag)
      BY <2>2 DEF VInv, TInv, TrialBehind, Unattended
    <2>5. /\ main.tag \in Nat /\ main.healthy \in Nat /\ rollout.tag \in Nat
          /\ \A t \in main.ready : t \in Nat
      BY Shape, TagAssumption DEF VInv, TInv, RInv, TypeOK, MainType, Tags
    <2>6. main.tag # rollout.tag /\ main.healthy # rollout.tag
          /\ (main.healthy = NoTag => rollout.tag \notin main.ready)
      BY <2>4, <2>5 DEF Behind
    <2> QED  BY <1>a, <1>b, <2>1, <2>2, <2>3, <2>4, <2>6
  <1>7. CASE AwaitSignal \/ CommitRolloutAdvance
    <2>1. pc = "judge" /\ pc' = "route" /\ then' = then
      BY <1>7 DEF AwaitSignal, CommitRolloutAdvance, Judge, ToRoute, Revision
    <2>2. RampInFlight /\ then = "none"  BY <1>b, <2>1 DEF PassKnows
    <2>3. rollout'.tag = rollout.tag /\ rollout'.phase \in {"Held", "Progressing", "Promoting"}
      BY <1>7, <2>2, Shape
         DEF AwaitSignal, CommitRolloutAdvance, Advanced, RampInFlight, VInv, TInv
    <2> QED  BY <1>a, <1>b, <1>c, <2>1, <2>2, <2>3 DEF RampInFlight
  <1>8. CASE DropService \/ DropDeployment
    <2>1. /\ UNCHANGED <<rollout, then>> /\ pc \in {"dropsvc", "dropdep"}
          /\ pc' \in {"dropdep", "settle", "route"}
      BY <1>8 DEF DropService, DropDeployment, Revision
    <2> QED  BY <1>a, <1>b, <1>c, <2>1
  <1>9. CASE SettlePromotion
    <2>1. /\ pc = "settle" /\ pc' = "route" /\ then' = "none" /\ rollout' = Settled(rollout)
      BY <1>9 DEF SettlePromotion, Revision
    <2>2. CASE then = "revert"
      <3>1. /\ rollout.phase = "Promoting" /\ main.rolledBack = rollout.tag
            /\ main.tag # rollout.tag
        BY <1>b, <2>1, <2>2 DEF PassKnows
      <3>2. rollout'.phase = "RolledBack" /\ rollout'.tag = rollout.tag /\ rollout.tag = build
        BY <1>b, <1>c, <2>1, <2>2, <3>1 DEF Settled, RolledBack, TypeOK, RolloutType
      <3>3. main.healthy \notin {NoTag, rollout.tag}
        BY <1>0, <3>1, <3>2 DEF VInv, QuarantineHasFallback
      <3> QED  BY <1>a, <1>b, <2>1, <3>1, <3>2, <3>3
    <2>3. CASE then # "revert"
      <3>1. rollout'.phase = "None"  BY <2>1, <2>3 DEF Settled, NoRamp
      <3> QED  BY <1>a, <1>b, <2>1, <3>1
    <2> QED  BY <2>2, <2>3
  <1> QED  BY <1>1, <1>2, <1>3, <1>4, <1>5, <1>6, <1>7, <1>8, <1>9

LEMMA GateKeepsVerdict ==
  ASSUME VInv, Unattended, GatePass
  PROVE  VerdictStands'
  <1>0. /\ Wanted /\ ~Canary /\ build # NoTag /\ main \in MainType /\ stable < build
        /\ stable \in Nat /\ build \in Nat
    BY Unattendedly
  <1>a. /\ UNCHANGED <<build, stable, rollout, then>>
        /\ pc \in {"deploy", "route", "gate"} /\ pc' \in {"command", "gate", "idle"}
        /\ pc # "deploy" => pc' # "command"
    BY GateFrame
  <1>b. VerdictStands  BY DEF VInv
  <1>c. rollout.phase # "None" => rollout.tag = build  BY <1>a, <1>b DEF VerdictStands
  <1>d. then = "none"  BY <1>a DEF VInv, TInv, RInv, PassKnows
  <1> USE DEF VerdictStands, Replaced, Settling
  <1>1. CASE UNCHANGED main /\ pc # "deploy"
    BY <1>1, <1>a, <1>b, <1>c, <1>d
  <1>2. CASE WriteInstance
    <2>1. /\ pc = "deploy" /\ main'.tag = EffectiveTag(image)
          /\ main'.healthy = main.healthy /\ main'.rolledBack = main.rolledBack
          /\ main'.ready = main.ready
      BY <1>0, <1>2 DEF WriteInstance, MainType
    <2>2. image = (IF stable = NoTag THEN build ELSE stable) /\ image # NoTag
      BY <2>1 DEF VInv, TInv, TrialBehind, Desired, Unattended
    <2>3. EffectiveTag(image) # NoTag  BY <2>2 DEF EffectiveTag
    <2>4. ASSUME rollout.phase \in {"Promoting", "RolledBack"}, main.rolledBack = rollout.tag
          PROVE  EffectiveTag(image) # rollout.tag
      <3>1. AutoRollback  BY <1>0, <2>4 DEF AutoRollback, OwnsRollbackDecision
      <3>2. rollout.tag = build /\ main.healthy \notin {NoTag, build}
        BY <1>0, <1>c, <2>4 DEF VInv, QuarantineHasFallback
      <3>3. CASE image = build  BY <2>4, <3>1, <3>2, <3>3 DEF EffectiveTag
      <3>4. CASE image # build  BY <2>4, <3>1, <3>2, <3>4 DEF EffectiveTag
      <3> QED  BY <3>3, <3>4
    <2>5. ASSUME rollout.phase = "RolledBack"
          PROVE  EffectiveTag(image) # rollout.tag
      <3>1. CASE stable = NoTag  BY <1>b, <2>4, <2>5, <3>1
      <3>2. CASE stable # NoTag
        <4>1. image # rollout.tag  BY <1>0, <1>c, <2>2, <2>5, <3>2
        <4> QED  BY <1>b, <2>5, <4>1 DEF EffectiveTag
      <3> QED  BY <3>1, <3>2
    <2> QED  BY <1>a, <1>b, <1>c, <1>d, <2>1, <2>3, <2>4, <2>5
  <1>3. CASE GateStep /\ GateJudges /\ (QuarantineTag(image) \/ RecordHealthy)
    <2>1. pc = "gate" /\ pc' = "idle" /\ image # NoTag /\ image = main.tag
      BY <1>3 DEF GateStep, GateJudges
    <2>2. image = (IF stable = NoTag THEN build ELSE stable)
      BY <2>1 DEF VInv, TInv, TrialBehind, Desired, Unattended
    <2>3. ASSUME rollout.phase = "RolledBack"
          PROVE  main'.tag = main.tag /\ Replaced(rollout.tag)'
      <3>1. rollout.tag = build /\ main.tag # build /\ stable # NoTag
        BY <1>b, <1>c, <2>1, <2>2, <2>3
      <3>2. main.healthy # build /\ (main.healthy = NoTag => build \notin main.ready)
        BY <1>b, <2>3, <3>1
      <3>3. CASE QuarantineTag(image)
        <4>1. CASE main' = main  BY <1>a, <1>b, <2>3, <4>1
        <4>2. CASE main' # main
          <5>1. PICK t \in Fallbacks(image) :
                       main' = [main EXCEPT !.healthy = t, !.rolledBack = image]
            BY <3>3, <4>2 DEF QuarantineTag
          <5>2. t # build /\ t # NoTag
            <6>1. (t = main.healthy /\ t # NoTag) \/ (main.healthy = NoTag /\ t \in main.ready)
              BY DEF Fallbacks
            <6>2. NoTag \notin main.ready  BY <1>0, Unattendedly DEF MainType
            <6> QED  BY <3>2, <6>1, <6>2
          <5>3. main'.tag = main.tag /\ main'.healthy = t  BY <1>0, <5>1 DEF MainType
          <5> QED  BY <1>a, <3>1, <5>2, <5>3
        <4> QED  BY <4>1, <4>2
      <3>4. CASE RecordHealthy
        <4>1. main'.tag = main.tag /\ main'.healthy = image
          BY <1>0, <3>4 DEF RecordHealthy, MainType
        <4> QED  BY <1>a, <2>1, <3>1, <4>1
      <3> QED  BY <1>3, <3>3, <3>4
    <2>4. main'.tag = main.tag
      BY <1>0, <1>3 DEF QuarantineTag, RecordHealthy, MainType
    <2> QED  BY <1>a, <1>b, <1>c, <1>d, <2>1, <2>3, <2>4
  <1>4. WriteRoute \/ GateStandsDown \/ KeepWatching => UNCHANGED main /\ pc # "deploy"
    BY DEF WriteRoute, GateStandsDown, KeepWatching, GateStep
  <1>5. CondemnCrash \/ CondemnBreach \/ RecordHealthy =>
          GateStep /\ GateJudges /\ (QuarantineTag(image) \/ RecordHealthy)
    BY DEF CondemnCrash, CondemnBreach, RecordHealthy
  <1> QED  BY <1>1, <1>2, <1>3, <1>4, <1>5 DEF GatePass

LEMMA EnvironmentKeepsVerdict ==
  ASSUME VInv, Unattended, Environment
  PROVE  VerdictStands'
  <1>0. /\ main \in MainType /\ main.tag \in Nat /\ build \in Nat /\ main.tag <= build
        /\ rollout.tag \in Nat /\ rollout.tag <= build
    BY Unattendedly
  <1>a. /\ UNCHANGED <<stable, rollout, pc, then>>
        /\ main'.tag = main.tag /\ main'.healthy = main.healthy
        /\ main'.rolledBack = main.rolledBack
        /\ main'.ready \subseteq main.ready \cup {main.tag}
        /\ build' = build \/ (build' = build + 1 /\ pc = "idle")
    BY <1>0, EnvironmentFrame
       DEF Environment, NewBuild, EditSpec, GiveCommand, Tick, MainPodsReady, MainCompletes,
           MainCrashes, MainDegrades, NextPodsReady, NextPodsFail, MainStep, NextStep,
           MainType, Unattended, Forward
  <1> QED
    BY <1>0, <1>a DEF VInv, VerdictStands, Replaced, Settling

LEMMA VInvHolds == Spec => []VInv
  <1>1. Init => VerdictStands
    BY DEF Init, VerdictStands, NoRamp
  <1>2. VInv /\ [Next]_vars => VerdictStands'
    <2> SUFFICES ASSUME VInv, [Next]_vars, Unattended PROVE VerdictStands'
      BY DEF VerdictStands, Unattended, Forward
    <2>1. CASE RampStep
      BY <2>1, PlanKeepsVerdict, RampKeepsVerdict DEF RampStep
    <2>2. CASE GatePass  BY <2>2, GateKeepsVerdict
    <2>3. CASE Environment  BY <2>3, EnvironmentKeepsVerdict
    <2>4. CASE Abandon
      BY <2>4 DEF Abandon, objects, VInv, VerdictStands, Replaced, Settling
    <2>5. CASE UNCHANGED vars
      BY <2>5 DEF vars, objects, locals, VInv, VerdictStands, Replaced, Settling
    <2> QED  BY <2>1, <2>2, <2>3, <2>4, <2>5 DEF Next, Pass
  <1>3. TInv /\ QuarantineHasFallback /\ VerdictStands => VInv  BY DEF VInv
  <1> QED  BY <1>1, <1>2, <1>3, TInvHolds, QuarantineSafe, PTL DEF Spec

(* With versions that come from a pipeline and nobody overriding the ramp, a *)
(* version it condemned is not on the instance, then or later.               *)
THEOREM VerdictHolds == Spec => [](Unattended => CondemnedOffInstance)
  <1>1. VInv => (Unattended => CondemnedOffInstance)
    BY DEF VInv, VerdictStands, CondemnedOffInstance
  <1> QED  BY <1>1, VInvHolds, PTL
=============================================================================
