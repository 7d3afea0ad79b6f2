--------------------------- MODULE ReconcileProofs ---------------------------
(***************************************************************************)
(* Theorems about Reconcile, for every number of tags, every list of       *)
(* steps, every budget of the environment and every combination of modes,  *)
(* commands and SLO settings.                                              *)
(***************************************************************************)
EXTENDS Reconcile, SequenceTheorems, TLAPS

(* What the ramp's status may look like between any two API calls: the       *)
(* weight is nothing or what the step allows, and nothing once aborted.      *)
RampShape ==
  /\ rollout.phase = "None" <=> rollout = NoRamp
  /\ rollout.weight \in {0, Steps[rollout.step + 1]}
  /\ rollout.phase = "RolledBack" => rollout.weight = 0

(* What each point of the pass knows about the ramp's status.                *)
PassKnows ==
  /\ pc = "start" => build \notin {stable, rollout.tag}
  /\ pc = "apply" => rollout # NoRamp /\ cmd # "none"
  /\ pc \in {"service", "judge"} => RampInFlight
  /\ pc \in {"dropsvc", "dropdep", "settle"} =>
       IF then = "none" THEN pc # "settle" /\ rollout.phase \in {"None", "RolledBack"}
       ELSE rollout.phase = "Promoting"
  /\ pc \notin {"dropsvc", "dropdep", "settle"} => then = "none"
  /\ IF pc = "route" THEN weight \in {0, rollout.weight} ELSE weight = 0

(* A pipeline only moves forward: every tag seen anywhere was built no later *)
(* than the newest, and an instance is pinned to an older one.               *)
OnlyForward == Forward =>
  /\ main.tag <= build /\ main.healthy <= build /\ \A t \in main.ready : t <= build
  /\ image <= build /\ stable < build
  /\ pc = "forget" => FALSE

(* Once planned, a pass that does not want the ramp has none.                *)
StandingDown ==
  ~Wanted /\ pc \notin {"idle", "plan", "forget", "gate"} =>
    rollout = NoRamp /\ pc \in {"deploy", "command", "revision", "dropsvc", "dropdep", "route"}

(* Under a pipeline, too: a pin means that everything the instance runs, may *)
(* fall back to or has Ready is behind the newest build, and behind the      *)
(* version on trial while there is one; and only the instance's own tag can  *)
(* be recorded healthy, or found Ready, at the newest build.                 *)
Behind(t) ==
  /\ stable < t /\ main.tag < t /\ main.healthy < t
  /\ main.healthy = NoTag => \A r \in main.ready : r < t
Desired == IF stable = NoTag THEN build ELSE stable
TrialBehind == Forward =>
  /\ stable # NoTag => Behind(build)
  /\ RampInFlight => stable # NoTag /\ Behind(rollout.tag)
  /\ rollout.tag <= build
  /\ main.healthy = build => main.tag = build
  /\ main.healthy = NoTag /\ build \in main.ready => main.tag = build
  /\ pc \in {"idle", "plan", "start", "forget"} => image = NoTag
  /\ pc = "deploy" => image # NoTag
  /\ image # NoTag => image = Desired
  /\ pc = "start" => stable # NoTag

RInv == TypeOK /\ RampShape /\ PassKnows /\ OnlyForward /\ StandingDown
-----------------------------------------------------------------------------
(* Facts about the list of steps and the records built from it.              *)
LEMMA StepsFacts ==
  /\ Len(Steps) \in Nat \ {0}
  /\ \A i \in 1..Len(Steps) : Steps[i] \in Weights /\ Steps[i] \in 1..99
<1>1. Len(Steps) \in Nat \ {0} /\ DOMAIN Steps = 1..Len(Steps)
  BY StepsAssumption
<1>2. \A i \in 1..Len(Steps) : Steps[i] \in 1..99
  BY StepsAssumption, ElementOfSeq
<1> QED BY <1>1, <1>2 DEF Weights

LEMMA NoRampType == NoRamp \in RolloutType
BY StepsFacts DEF NoRamp, RolloutType, NoTag

LEMMA AdvancedType ==
  ASSUME NEW st \in RolloutType
  PROVE  Advanced(st) \in RolloutType
<1>1. CASE LastStep(st)
  BY <1>1 DEF Advanced, RolloutType
<1>2. CASE ~LastStep(st)
  <2>1. st.step + 1 \in 0..(Len(Steps) - 1)
    BY <1>2, StepsFacts DEF LastStep, RolloutType
  <2>2. Steps[st.step + 2] \in Weights
    BY <2>1, StepsFacts DEF RolloutType
  <2> QED BY <1>2, <2>1, <2>2 DEF Advanced, RolloutType
<1> QED BY <1>1, <1>2

LEMMA RampFromType == \A t \in Tags \cup {NoTag} : RampFrom(t) \in RolloutType
<1>1. Steps[1] \in Weights
  BY StepsFacts
<1> QED BY <1>1, StepsFacts DEF RampFrom, RolloutType
-----------------------------------------------------------------------------
(* Type correctness, module by module.                                       *)
LEMMA SpendType ==
  ASSUME TypeOK, NEW k \in Kinds, Spend(k)
  PROVE  spent' \in [Kinds -> Nat]
BY DEF TypeOK, Spend

LEMMA EnvironmentTypes == TypeOK /\ Environment => TypeOK'
<1> SUFFICES ASSUME TypeOK, Environment
             PROVE  TypeOK'
  OBVIOUS
<1> USE DEF TypeOK, objects, locals
<1>1. CASE NewBuild
  BY <1>1, SpendType DEF NewBuild, Kinds
<1>2. CASE EditSpec
  BY <1>2, SpendType DEF EditSpec, Kinds
<1>3. CASE GiveCommand
  BY <1>3, SpendType DEF GiveCommand, Kinds
<1>4. CASE Tick
  BY <1>4 DEF Tick
<1>5. CASE MainPodsReady
  BY <1>5 DEF MainPodsReady, MainStep, MainType
<1>6. CASE MainCompletes
  BY <1>6 DEF MainCompletes, MainStep, MainType
<1>7. CASE MainCrashes
  BY <1>7, SpendType DEF MainCrashes, MainStep, MainType, Kinds
<1>8. CASE MainDegrades
  BY <1>8, SpendType DEF MainDegrades, MainStep, MainType, Kinds
<1>9. CASE NextPodsReady
  BY <1>9 DEF NextPodsReady, NextStep, NextType
<1>10. CASE NextPodsFail
  BY <1>10, SpendType DEF NextPodsFail, NextStep, NextType, Kinds
<1> QED BY <1>1, <1>2, <1>3, <1>4, <1>5, <1>6, <1>7, <1>8, <1>9, <1>10 DEF Environment

(* A decision to deploy a pin, or the newest build, names a tag.             *)
LEMMA DeployType ==
  ASSUME TypeOK, NEW holds \in BOOLEAN, NEW pin \in Tags \cup {NoTag}, Deploy(holds, pin)
  PROVE  pc' = "deploy" /\ image' \in Tags \cup {NoTag} /\ weight' = weight
BY DEF Deploy, TypeOK

LEMMA PlanTypes ==
  TypeOK /\ (SyncStableTag \/ PlanStandDown \/ PlanNothingToRamp \/ PlanKeepVerdict
               \/ PlanKeepRamping \/ PlanPin \/ StartRamp \/ ForgetRamp) => TypeOK'
<1> SUFFICES ASSUME TypeOK,
                    SyncStableTag \/ PlanStandDown \/ PlanNothingToRamp \/ PlanKeepVerdict
                      \/ PlanKeepRamping \/ PlanPin \/ StartRamp \/ ForgetRamp
             PROVE  TypeOK'
  OBVIOUS
<1> USE DEF TypeOK, Labels
<1>1. CASE SyncStableTag
  BY <1>1 DEF SyncStableTag
<1>2. CASE PlanStandDown
  BY <1>2 DEF PlanStandDown, PlanOnly, Plan
<1>3. CASE PlanNothingToRamp
  BY <1>3 DEF PlanNothingToRamp, PlanOnly, Plan
<1>4. CASE PlanKeepVerdict
  BY <1>4, DeployType DEF PlanKeepVerdict, PlanOnly, Plan, Ramping
<1>5. CASE PlanKeepRamping
  <2>1. HoldsImage \in BOOLEAN
    BY DEF HoldsImage
  <2> QED BY <1>5, <2>1, DeployType DEF PlanKeepRamping, PlanOnly, Plan, Ramping
<1>6. CASE PlanPin
  <2>1. RunningInstanceTag \in Tags \cup {NoTag}
    BY DEF RunningInstanceTag, MainType
  <2>2. CASE RunningInstanceTag \in {RampingTag, NoTag}
    BY <1>6, <2>2, DeployType DEF PlanPin, PlanOnly, Plan, Ramping
  <2>3. CASE RunningInstanceTag \notin {RampingTag, NoTag}
    BY <1>6, <2>1, <2>3 DEF PlanPin, PlanOnly, Plan, Ramping
  <2> QED BY <2>2, <2>3
<1>7. CASE StartRamp
  <2>1. RampingTag \in Tags \/ RampingTag = NoTag
    BY DEF RampingTag
  <2>2. rollout' \in RolloutType
    BY <1>7, <2>1, RampFromType DEF StartRamp, Ramping
  <2> QED BY <1>7, <2>2, DeployType DEF StartRamp
<1>8. CASE ForgetRamp
  BY <1>8, DeployType, NoRampType DEF ForgetRamp, SetRollout
<1> QED BY <1>1, <1>2, <1>3, <1>4, <1>5, <1>6, <1>7, <1>8

LEMMA RampTypes ==
  TypeOK /\ (ConsumeCommand \/ ApplyCommand \/ ReleasePair \/ AwaitPromotion
               \/ UpsertNextRevision \/ UpsertNextRevisionService \/ HoldUntilReady
               \/ KeepSoaking \/ AbortOnBreach \/ AwaitSignal \/ CommitRolloutAdvance
               \/ DropService \/ DropDeployment \/ SettlePromotion) => TypeOK'
<1> SUFFICES ASSUME TypeOK,
                    ConsumeCommand \/ ApplyCommand \/ ReleasePair \/ AwaitPromotion
                      \/ UpsertNextRevision \/ UpsertNextRevisionService \/ HoldUntilReady
                      \/ KeepSoaking \/ AbortOnBreach \/ AwaitSignal \/ CommitRolloutAdvance
                      \/ DropService \/ DropDeployment \/ SettlePromotion
             PROVE  TypeOK'
  OBVIOUS
<1> USE DEF TypeOK, Labels
<1>a. \A st \in RolloutType : RolledBack(st) \in RolloutType /\ Commanded(st) \in RolloutType
  BY DEF RolledBack, Commanded, RolloutType
<1>b. rollout.weight \in Weights \cup {0}
  BY DEF RolloutType
<1>1. CASE ConsumeCommand
  BY <1>1 DEF ConsumeCommand
<1>2. CASE ApplyCommand
  BY <1>2, <1>a DEF ApplyCommand
<1>3. CASE ReleasePair
  BY <1>3 DEF ReleasePair, Revision
<1>4. CASE AwaitPromotion
  BY <1>4, <1>b DEF AwaitPromotion, Revision, ToRoute
<1>5. CASE UpsertNextRevision
  <2>1. rollout.tag \in Tags \cup {NoTag}
    BY DEF RolloutType
  <2>2. \A r \in Tags \cup {NoTag} :
          [next EXCEPT !.dep = rollout.tag, !.ready = r, !.sized = rollout.weight] \in NextType
    BY <1>b, <2>1 DEF NextType
  <2>3. next.ready \in Tags \cup {NoTag}
    BY DEF NextType
  <2>4. next' \in NextType
    BY <1>5, <2>2, <2>3 DEF UpsertNextRevision
  <2> QED BY <1>5, <2>4 DEF UpsertNextRevision, Revision
<1>6. CASE UpsertNextRevisionService
  BY <1>6 DEF UpsertNextRevisionService, Revision, NextType
<1>7. CASE HoldUntilReady
  BY <1>7 DEF HoldUntilReady, Revision, ToRoute
<1>8. CASE KeepSoaking
  BY <1>8, <1>b DEF KeepSoaking, Judge, Revision, ToRoute
<1>9. CASE AbortOnBreach
  BY <1>9, <1>a DEF AbortOnBreach, Judge, Revision, ToRoute
<1>10. CASE AwaitSignal
  <2>1. [rollout EXCEPT !.phase = "Held"] \in RolloutType
    BY DEF RolloutType
  <2> QED BY <1>10, <1>b, <2>1 DEF AwaitSignal, Judge, Revision, ToRoute
<1>11. CASE CommitRolloutAdvance
  <2>1. rollout' \in RolloutType /\ rollout'.weight \in Weights \cup {0}
    BY <1>11, AdvancedType DEF CommitRolloutAdvance, RolloutType
  <2> QED BY <1>11, <2>1 DEF CommitRolloutAdvance, Judge, Revision, ToRoute
<1>12. CASE DropService
  BY <1>12 DEF DropService, Revision, NextType
<1>13. CASE DropDeployment
  BY <1>13 DEF DropDeployment, Revision, NextType, NoPair
<1>14. CASE SettlePromotion
  BY <1>14, <1>a, NoRampType DEF SettlePromotion, Settled, Revision
<1> QED BY <1>1, <1>2, <1>3, <1>4, <1>5, <1>6, <1>7, <1>8, <1>9, <1>10, <1>11, <1>12,
          <1>13, <1>14

LEMMA GateTypes == TypeOK /\ GatePass => TypeOK'
<1> SUFFICES ASSUME TypeOK, GatePass
             PROVE  TypeOK'
  OBVIOUS
<1> USE DEF TypeOK, Labels
<1>a. main \in MainType /\ NoTag \notin Tags /\ image \in Tags \cup {NoTag}
  BY TagAssumption DEF Tags, NoTag
<1>b. QuarantineTag(image) => main' \in MainType
  BY <1>a DEF QuarantineTag, Fallbacks, MainType
<1>1. CASE WriteInstance
  <2>1. EffectiveTag(image) \in Tags \cup {NoTag}
    BY DEF EffectiveTag, MainType
  <2> QED BY <1>1, <2>1 DEF WriteInstance, MainType
<1>2. CASE WriteRoute
  BY <1>2 DEF WriteRoute
<1>3. CASE GateStandsDown
  BY <1>3 DEF GateStandsDown, GateStep
<1>4. CASE CondemnCrash
  BY <1>4, <1>b DEF CondemnCrash, GateStep
<1>5. CASE CondemnBreach
  BY <1>5, <1>b DEF CondemnBreach, GateStep
<1>6. CASE RecordHealthy
  <2>1. main' \in MainType
    BY <1>6, <1>a DEF RecordHealthy, MainType
  <2> QED BY <1>6, <2>1 DEF RecordHealthy, GateStep
<1>7. CASE KeepWatching
  BY <1>7 DEF KeepWatching, GateStep
<1> QED BY <1>1, <1>2, <1>3, <1>4, <1>5, <1>6, <1>7 DEF GatePass

(* Every reachable state is well typed: no weight outside the configured     *)
(* steps, no phase, label or tag the code does not know.                     *)
THEOREM TypeCorrect == Spec => []TypeOK
<1>1. Init => TypeOK
  <2> SUFFICES ASSUME Init
               PROVE  TypeOK
    OBVIOUS
  <2>1. 1 \in Tags
    BY TagAssumption DEF Tags
  <2> QED BY <2>1, NoRampType, LimitAssumption
          DEF Init, TypeOK, NewMain, RunningMain, NoPair, MainType, NextType, Labels
<1>2. TypeOK /\ [Next]_vars => TypeOK'
  <2> SUFFICES ASSUME TypeOK, [Next]_vars
               PROVE  TypeOK'
    OBVIOUS
  <2>1. CASE RampStep
    BY <2>1, PlanTypes, RampTypes DEF RampStep
  <2>2. CASE GatePass
    BY <2>2, GateTypes
  <2>3. CASE Abandon
    BY <2>3, SpendType DEF Abandon, TypeOK, objects, Labels, Kinds
  <2>4. CASE Environment
    BY <2>4, EnvironmentTypes
  <2>5. CASE UNCHANGED vars
    BY <2>5 DEF TypeOK, vars
  <2> QED BY <2>1, <2>2, <2>3, <2>4, <2>5 DEF Next, Pass
<1> QED BY <1>1, <1>2, PTL DEF Spec
-----------------------------------------------------------------------------
(* The gate never quarantines a tag without a different one to serve in its  *)
(* place: for every budget of crashes, and humans, edits and faults at will. *)
THEOREM QuarantineSafe == Spec => []QuarantineHasFallback
<1>1. Init => QuarantineHasFallback
  BY DEF Init, QuarantineHasFallback, NewMain, RunningMain
<1>2. TypeOK /\ QuarantineHasFallback /\ [Next]_vars => QuarantineHasFallback'
  <2> SUFFICES ASSUME TypeOK, QuarantineHasFallback, [Next]_vars
               PROVE  QuarantineHasFallback'
    OBVIOUS
  <2> USE DEF QuarantineHasFallback
  <2>a. main \in MainType /\ NoTag \notin Tags
    BY TagAssumption DEF TypeOK, Tags, NoTag
  <2>1. CASE RampStep
    <3>1. UNCHANGED main
      BY <2>1 DEF RampStep, SyncStableTag, PlanStandDown, PlanNothingToRamp, PlanKeepVerdict,
           PlanKeepRamping, PlanPin, StartRamp, ForgetRamp, ConsumeCommand, ApplyCommand,
           ReleasePair, AwaitPromotion, UpsertNextRevision, UpsertNextRevisionService,
           HoldUntilReady, KeepSoaking, AbortOnBreach, AwaitSignal, CommitRolloutAdvance,
           DropService, DropDeployment, SettlePromotion, PlanOnly, SetRollout, Revision,
           ToRoute, Judge
    <3> QED BY <3>1
  <2>2. CASE GatePass
    <3>1. CASE WriteInstance
      BY <2>a, <3>1 DEF WriteInstance, MainType
    <3>2. CASE WriteRoute \/ GateStandsDown \/ KeepWatching
      BY <3>2 DEF WriteRoute, GateStandsDown, KeepWatching
    <3>3. CASE QuarantineTag(image)
      <4>1. \A t \in Fallbacks(image) : t \notin {NoTag, image}
        BY <2>a DEF Fallbacks, MainType
      <4> QED BY <2>a, <3>3, <4>1 DEF QuarantineTag, MainType
    <3>4. CASE RecordHealthy
      BY <2>a, <3>4 DEF RecordHealthy, GateJudges, MainType
    <3> QED BY <2>2, <3>1, <3>2, <3>3, <3>4 DEF GatePass, CondemnCrash, CondemnBreach
  <2>3. CASE Abandon \/ UNCHANGED vars
    BY <2>3 DEF Abandon, objects, vars
  <2>4. CASE Environment
    <3>1. main'.rolledBack = main.rolledBack /\ main'.healthy = main.healthy
      BY <2>4, <2>a DEF Environment, NewBuild, EditSpec, GiveCommand, Tick, MainPodsReady,
           MainCompletes, MainCrashes, MainDegrades, NextPodsReady, NextPodsFail, MainStep,
           NextStep, MainType
    <3> QED BY <3>1
  <2> QED BY <2>1, <2>2, <2>3, <2>4 DEF Next, Pass
<1> QED BY <1>1, <1>2, TypeCorrect, PTL DEF Spec
-----------------------------------------------------------------------------
(* RInv is inductive.  The environment and the gate leave the ramp's status  *)
(* alone, so most of the work is in the ramp's own actions.                  *)
LEMMA EnvironmentFrame ==
  Environment => /\ UNCHANGED <<stable, rollout, route, pc, image, cmd, weight, then>>
                 /\ pc # "idle" => UNCHANGED <<build, mode>>
BY DEF Environment, NewBuild, EditSpec, GiveCommand, Tick, MainPodsReady, MainCompletes,
   MainCrashes, MainDegrades, NextPodsReady, NextPodsFail, MainStep, NextStep, objects, locals

LEMMA GateFrame ==
  GatePass => /\ UNCHANGED <<build, mode, command, stable, rollout, soak, next, cmd, then>>
              /\ pc \in {"deploy", "route", "gate"}
              /\ pc' = CASE pc = "deploy" -> "command" [] pc = "route" -> "gate" [] OTHER -> "idle"
              /\ weight' = IF pc = "route" THEN 0 ELSE weight
BY DEF GatePass, WriteInstance, WriteRoute, GateStandsDown, CondemnCrash, CondemnBreach,
   RecordHealthy, KeepWatching, GateStep

LEMMA Shape ==
  ASSUME RInv
  PROVE  /\ rollout.step \in 0..(Len(Steps) - 1) /\ rollout.tag \in Tags \cup {NoTag}
         /\ rollout = [phase |-> rollout.phase, tag |-> rollout.tag,
                       step |-> rollout.step, weight |-> rollout.weight]
         /\ NoTag \notin Tags /\ build \in Tags
         /\ build \in Nat /\ stable \in Nat /\ main.tag \in Nat /\ main.healthy \in Nat
         /\ image \in Nat /\ rollout.tag \in Nat
BY TagAssumption DEF RInv, TypeOK, RolloutType, MainType, Tags, NoTag

LEMMA PlanRInv ==
  RInv /\ (SyncStableTag \/ PlanStandDown \/ PlanNothingToRamp \/ PlanKeepVerdict
             \/ PlanKeepRamping \/ PlanPin \/ StartRamp \/ ForgetRamp) => RInv'
<1> SUFFICES ASSUME RInv,
                    SyncStableTag \/ PlanStandDown \/ PlanNothingToRamp \/ PlanKeepVerdict
                      \/ PlanKeepRamping \/ PlanPin \/ StartRamp \/ ForgetRamp
             PROVE  RampShape' /\ PassKnows' /\ OnlyForward' /\ StandingDown'
  BY PlanTypes DEF RInv
<1>a. mode \in Modes
  BY DEF RInv, TypeOK
<1> USE Shape DEF RInv, RampShape, PassKnows, OnlyForward, StandingDown, Forward, Wanted
<1>1. CASE SyncStableTag
  <2>1. 0 < build
    BY TagAssumption DEF Tags, NoTag
  <2> QED BY <1>1, <1>a, <2>1 DEF SyncStableTag, Canary, RampInFlight, NoTag
<1>2. CASE PlanStandDown
  BY <1>2, <1>a DEF PlanStandDown, PlanOnly, Plan, RampInFlight
<1>3. CASE PlanNothingToRamp
  BY <1>3, <1>a DEF PlanNothingToRamp, PlanOnly, Plan, RampInFlight, RampingTag
<1>4. CASE PlanKeepVerdict
  <2>1. /\ UNCHANGED <<build, mode, rollout, main, weight, then>> /\ Wanted /\ pc = "plan"
        /\ pc' = "deploy" /\ stable' \in {stable, NoTag} /\ image' \in {stable, build}
    BY <1>4 DEF PlanKeepVerdict, PlanOnly, Plan, Ramping, Deploy
  <2>2. RampShape' /\ StandingDown' /\ PassKnows'
    BY <2>1 DEF RampInFlight
  <2>3. OnlyForward'
    BY <2>1, TagAssumption DEF Tags, NoTag
  <2> QED BY <2>2, <2>3
<1>5. CASE PlanKeepRamping
  BY <1>5, <1>a DEF PlanKeepRamping, PlanOnly, Plan, Ramping, Deploy, RampInFlight
<1>6. CASE PlanPin
  BY <1>6, <1>a DEF PlanPin, PlanOnly, Plan, Ramping, Deploy, RampInFlight, RampingTag,
     RunningInstanceTag
<1>7. CASE StartRamp
  <2>1. /\ UNCHANGED <<build, mode, stable, main, weight, then>> /\ Wanted
        /\ pc' = "deploy" /\ image' \in {stable, build} /\ pc \in {"plan", "start"}
    BY <1>7 DEF StartRamp, Plan, Ramping, Deploy
  <2>2. RampShape'
    BY <1>7, StepsFacts DEF StartRamp, RampFrom, NoRamp
  <2>3. StandingDown' /\ PassKnows'
    BY <2>1 DEF RampInFlight
  <2>4. OnlyForward'
    BY <2>1, TagAssumption DEF Tags, NoTag
  <2> QED BY <2>2, <2>3, <2>4
<1>8. CASE ForgetRamp
  BY <1>8, <1>a DEF ForgetRamp, SetRollout, Deploy, NoRamp, RampInFlight
<1> QED BY <1>1, <1>2, <1>3, <1>4, <1>5, <1>6, <1>7, <1>8

LEMMA RampRInv ==
  RInv /\ (ConsumeCommand \/ ApplyCommand \/ ReleasePair \/ AwaitPromotion
             \/ UpsertNextRevision \/ UpsertNextRevisionService \/ HoldUntilReady
             \/ KeepSoaking \/ AbortOnBreach \/ AwaitSignal \/ CommitRolloutAdvance
             \/ DropService \/ DropDeployment \/ SettlePromotion) => RInv'
<1> SUFFICES ASSUME RInv,
                    ConsumeCommand \/ ApplyCommand \/ ReleasePair \/ AwaitPromotion
                      \/ UpsertNextRevision \/ UpsertNextRevisionService \/ HoldUntilReady
                      \/ KeepSoaking \/ AbortOnBreach \/ AwaitSignal \/ CommitRolloutAdvance
                      \/ DropService \/ DropDeployment \/ SettlePromotion
             PROVE  RampShape' /\ PassKnows' /\ OnlyForward' /\ StandingDown'
  BY RampTypes DEF RInv
<1>a. /\ UNCHANGED <<build, mode, stable, main, image>>
      /\ pc' \in {"apply", "revision", "service", "judge", "dropsvc", "dropdep", "settle", "route"}
  BY DEF ConsumeCommand, ApplyCommand, ReleasePair, AwaitPromotion, UpsertNextRevision,
     UpsertNextRevisionService, HoldUntilReady, KeepSoaking, AbortOnBreach, AwaitSignal,
     CommitRolloutAdvance, DropService, DropDeployment, SettlePromotion, Revision, ToRoute, Judge
<1>b. OnlyForward'
  BY <1>a DEF RInv, OnlyForward, Forward
<1> USE Shape DEF RInv, RampShape, PassKnows, StandingDown, Wanted, NoRamp, RampInFlight
<1>1. CASE ConsumeCommand
  BY <1>1, <1>b DEF ConsumeCommand
<1>2. CASE ApplyCommand
  BY <1>2, <1>b DEF ApplyCommand, Commanded, RolledBack
<1>3. CASE ReleasePair
  BY <1>3, <1>b DEF ReleasePair, Revision
<1>4. CASE AwaitPromotion
  BY <1>4, <1>b DEF AwaitPromotion, Revision, ToRoute
<1>5. CASE UpsertNextRevision
  BY <1>5, <1>b DEF UpsertNextRevision, Revision
<1>6. CASE UpsertNextRevisionService
  BY <1>6, <1>b DEF UpsertNextRevisionService, Revision
<1>7. CASE HoldUntilReady
  BY <1>7, <1>b DEF HoldUntilReady, Revision, ToRoute
<1>8. CASE KeepSoaking
  BY <1>8, <1>b DEF KeepSoaking, Judge, Revision, ToRoute
<1>9. CASE AbortOnBreach
  BY <1>9, <1>b DEF AbortOnBreach, Judge, Revision, ToRoute, RolledBack
<1>10. CASE AwaitSignal
  BY <1>10, <1>b DEF AwaitSignal, Judge, Revision, ToRoute
<1>11. CASE CommitRolloutAdvance
  <2>1. rollout' = Advanced(rollout) /\ weight' = rollout'.weight /\ UNCHANGED <<mode, then>>
        /\ pc = "judge" /\ pc' = "route"
    BY <1>11 DEF CommitRolloutAdvance, Judge, Revision, ToRoute
  <2>2. CASE LastStep(rollout)
    BY <1>b, <2>1, <2>2 DEF Advanced
  <2>3. CASE ~LastStep(rollout)
    <3>1. /\ rollout'.phase = "Progressing" /\ rollout'.step = rollout.step + 1
          /\ rollout'.weight = Steps[rollout.step + 2]
      BY <2>1, <2>3 DEF Advanced
    <3>2. rollout.step + 2 = rollout'.step + 1
      BY <3>1
    <3> QED BY <1>b, <2>1, <3>1, <3>2
  <2> QED BY <2>2, <2>3
<1>12. CASE DropService
  BY <1>12, <1>b DEF DropService, Revision
<1>13. CASE DropDeployment
  BY <1>13, <1>b DEF DropDeployment, Revision
<1>14. CASE SettlePromotion
  BY <1>14, <1>b, StepsFacts DEF SettlePromotion, Settled, RolledBack, Revision
<1> QED BY <1>1, <1>2, <1>3, <1>4, <1>5, <1>6, <1>7, <1>8, <1>9, <1>10, <1>11, <1>12,
          <1>13, <1>14

LEMMA GateRInv == RInv /\ GatePass => RInv'
<1> SUFFICES ASSUME RInv, GatePass
             PROVE  RampShape' /\ PassKnows' /\ OnlyForward' /\ StandingDown'
  BY GateTypes DEF RInv
<1>1. RampShape'
  BY GateFrame DEF RInv, RampShape
<1>2. PassKnows'
  BY GateFrame DEF RInv, PassKnows, RampInFlight
<1>3. OnlyForward'
  <2> SUFFICES ASSUME Forward
               PROVE  /\ main'.tag <= build /\ main'.healthy <= build
                      /\ \A t \in main'.ready : t <= build
                      /\ image' <= build /\ stable < build /\ pc' # "forget"
    BY GateFrame DEF OnlyForward, Forward
  <2>a. /\ main.tag <= build /\ main.healthy <= build /\ image <= build
        /\ \A t \in main.ready : t <= build
        /\ stable < build /\ pc' # "forget" /\ build \in Nat /\ main \in MainType /\ 0 <= build
    BY Shape, GateFrame DEF RInv, OnlyForward, TypeOK
  <2>1. CASE WriteInstance
    BY <2>a, <2>1 DEF WriteInstance, EffectiveTag, NoTag, MainType
  <2>2. CASE WriteRoute
    BY <2>a, <2>2 DEF WriteRoute
  <2>3. CASE GateStep /\ UNCHANGED main
    BY <2>a, <2>3 DEF GateStep, NoTag
  <2>4. CASE GateStep /\ QuarantineTag(image)
    <3>1. \A t \in Fallbacks(image) : t <= build
      BY <2>a DEF Fallbacks
    <3> QED BY <2>a, <2>4, <3>1 DEF GateStep, QuarantineTag, NoTag, MainType
  <2>5. CASE RecordHealthy
    BY <2>a, <2>5 DEF RecordHealthy, GateStep, NoTag, MainType
  <2> QED BY <2>1, <2>2, <2>3, <2>4, <2>5
          DEF GatePass, GateStandsDown, CondemnCrash, CondemnBreach, KeepWatching
<1>4. StandingDown'
  BY GateFrame DEF RInv, StandingDown, Wanted
<1> QED BY <1>1, <1>2, <1>3, <1>4

LEMMA EnvironmentRInv == RInv /\ Environment => RInv'
<1> SUFFICES ASSUME RInv, Environment
             PROVE  RampShape' /\ PassKnows' /\ OnlyForward' /\ StandingDown'
  BY EnvironmentTypes DEF RInv
<1>1. RampShape' /\ PassKnows' /\ StandingDown'
  BY EnvironmentFrame DEF RInv, RampShape, PassKnows, StandingDown, RampInFlight, Wanted
<1>2. OnlyForward'
  <2> SUFFICES ASSUME Forward
               PROVE  /\ main'.tag <= build' /\ main'.healthy <= build'
                      /\ \A t \in main'.ready : t <= build'
                      /\ image <= build' /\ stable < build' /\ pc # "forget"
    BY EnvironmentFrame DEF OnlyForward, Forward
  <2>a. /\ main.tag <= build /\ main.healthy <= build /\ image <= build
        /\ \A t \in main.ready : t <= build
        /\ stable < build /\ pc # "forget" /\ main \in MainType /\ build \in Nat
        /\ stable \in Nat /\ image \in Nat
    BY Shape DEF RInv, OnlyForward, TypeOK
  <2>b. \A t \in main.ready : t \in Nat
    BY <2>a DEF MainType, Tags
  <2>1. build' \in {build, build + 1}
    BY DEF Environment, NewBuild, EditSpec, GiveCommand, Tick, MainPodsReady, MainCompletes,
       MainCrashes, MainDegrades, NextPodsReady, NextPodsFail, MainStep, NextStep, Forward
  <2>2. /\ main'.tag = main.tag /\ main'.healthy = main.healthy
        /\ main'.ready \subseteq main.ready \cup {main.tag}
    BY <2>a DEF Environment, NewBuild, EditSpec, GiveCommand, Tick, MainPodsReady, MainCompletes,
       MainCrashes, MainDegrades, NextPodsReady, NextPodsFail, MainStep, NextStep, MainType
  <2> QED BY Shape, <2>a, <2>b, <2>1, <2>2
<1> QED BY <1>1, <1>2

LEMMA RInvHolds == Spec => []RInv
<1>1. Init => RInv
  <2> SUFFICES ASSUME Init
               PROVE  RInv
    OBVIOUS
  <2>1. TypeOK
    <3>1. 1 \in Tags
      BY TagAssumption DEF Tags
    <3> QED BY <3>1, NoRampType, LimitAssumption
            DEF Init, TypeOK, NewMain, RunningMain, NoPair, MainType, NextType, Labels
  <2> QED BY <2>1 DEF Init, RInv, RampShape, PassKnows, OnlyForward, StandingDown, NewMain,
             RunningMain, NoRamp, NoTag
<1>2. RInv /\ [Next]_vars => RInv'
  <2> SUFFICES ASSUME RInv, [Next]_vars
               PROVE  RInv'
    OBVIOUS
  <2>1. CASE RampStep
    BY <2>1, PlanRInv, RampRInv DEF RampStep
  <2>2. CASE GatePass
    BY <2>2, GateRInv
  <2>3. CASE Environment
    BY <2>3, EnvironmentRInv
  <2>4. CASE Abandon
    <3>1. TypeOK'
      BY <2>4, SpendType DEF Abandon, RInv, TypeOK, objects, Labels, Kinds
    <3> QED BY <2>4, <3>1, Shape DEF Abandon, objects, RInv, RampShape, PassKnows, OnlyForward,
               StandingDown, Forward, NoTag
  <2>5. CASE UNCHANGED vars
    BY <2>5 DEF vars, RInv, TypeOK, RampShape, PassKnows, OnlyForward, StandingDown, Forward,
       RampInFlight, Wanted
  <2> QED BY <2>1, <2>2, <2>3, <2>4, <2>5 DEF Next, Pass
<1> QED BY <1>1, <1>2, PTL DEF Spec
-----------------------------------------------------------------------------
(* Only WriteRoute writes the route, with the weight the pass carries.       *)
LEMMA RouteFrame ==
  Next => route' = route \/ (WriteRoute /\ pc = "route" /\ route' = weight)
<1> SUFFICES ASSUME Next
             PROVE  route' = route \/ (WriteRoute /\ pc = "route" /\ route' = weight)
  OBVIOUS
<1>1. CASE RampStep
  BY <1>1 DEF RampStep, SyncStableTag, PlanStandDown, PlanNothingToRamp, PlanKeepVerdict,
     PlanKeepRamping, PlanPin, StartRamp, ForgetRamp, ConsumeCommand, ApplyCommand,
     ReleasePair, AwaitPromotion, UpsertNextRevision, UpsertNextRevisionService,
     HoldUntilReady, KeepSoaking, AbortOnBreach, AwaitSignal, CommitRolloutAdvance,
     DropService, DropDeployment, SettlePromotion, PlanOnly, SetRollout, Revision, ToRoute, Judge
<1>2. CASE GatePass
  BY <1>2 DEF GatePass, WriteInstance, WriteRoute, GateStandsDown, CondemnCrash, CondemnBreach,
     RecordHealthy, KeepWatching, GateStep
<1>3. CASE Abandon
  BY <1>3 DEF Abandon, objects
<1>4. CASE Environment
  BY <1>4, EnvironmentFrame
<1> QED BY <1>1, <1>2, <1>3, <1>4 DEF Next, Pass

(* The ramp never writes a share into the route of a service that asks for   *)
(* a canary or for immediate rollouts.                                       *)
THEOREM SplitHasOneOwner == Spec => OneSplitOwner
<1>1. RInv /\ [Next]_vars => (route' # route /\ route' > 0 => mode = "progressive")
  <2> SUFFICES ASSUME RInv, [Next]_vars, route' # route, route' > 0
               PROVE  mode = "progressive"
    OBVIOUS
  <2>1. pc = "route" /\ route' = weight
    BY RouteFrame DEF vars
  <2> QED BY <2>1 DEF RInv, PassKnows, StandingDown, Wanted, NoRamp
<1> QED BY <1>1, RInvHolds, PTL DEF Spec, OneSplitOwner

-----------------------------------------------------------------------------
(* Refinement.                                                               *)
TrialBar == [phase |-> rollout.phase, version |-> rollout.tag, step |-> rollout.step]

LEMMA TrialUndecided ==
  ASSUME RInv, RampInFlight
  PROVE  TrialBar # Lifecycle!NoTrial /\ TrialBar.phase \in {"Progressing", "Held"}
BY DEF TrialBar, RampInFlight, Lifecycle!NoTrial

LEMMA SameTrial ==
  ASSUME UNCHANGED rollout, UNCHANGED route
  PROVE  UNCHANGED <<TrialBar, route>>
BY DEF TrialBar

(* A verdict on whatever ramp there is, as the lifecycle sees it.            *)
LEMMA VerdictSteps ==
  ASSUME RInv, rollout # NoRamp, UNCHANGED route
  PROVE  /\ rollout' = RolledBack(rollout) => Lifecycle!Abort
         /\ rollout'.phase = "Promoting" /\ rollout'.tag = rollout.tag
              /\ rollout'.step = rollout.step /\ (Commands # {} \/ (RampInFlight /\ LastStep(rollout)))
            => Lifecycle!Promote
<1>1. TrialBar # Lifecycle!NoTrial
  BY DEF TrialBar, Lifecycle!NoTrial, RInv, RampShape
<1>2. ASSUME rollout' = RolledBack(rollout)
      PROVE  Lifecycle!Abort
  <2>1. TrialBar' = [TrialBar EXCEPT !.phase = "RolledBack"]
    BY <1>2, Shape DEF TrialBar, RolledBack
  <2> QED BY <1>1, <2>1 DEF Lifecycle!Abort, Lifecycle!Become, TrialBar
<1>3. ASSUME rollout'.phase = "Promoting", rollout'.tag = rollout.tag,
             rollout'.step = rollout.step, Commands # {} \/ (RampInFlight /\ LastStep(rollout))
      PROVE  Lifecycle!Promote
  <2>1. TrialBar' = [TrialBar EXCEPT !.phase = "Promoting"]
    BY <1>3 DEF TrialBar
  <2>2. Commands # {} \/ (RampInFlight /\ rollout.step + 1 = Len(Steps))
    BY <1>3, Shape, StepsFacts DEF LastStep
  <2> QED BY <1>1, <2>1, <2>2
          DEF Lifecycle!Promote, Lifecycle!Undecided, Lifecycle!Become, TrialBar, RampInFlight
<1> QED BY <1>2, <1>3

LEMMA PlanRefines ==
  ASSUME RInv,
         SyncStableTag \/ PlanStandDown \/ PlanNothingToRamp \/ PlanKeepVerdict
           \/ PlanKeepRamping \/ PlanPin \/ StartRamp \/ ForgetRamp
  PROVE  Lifecycle!Next \/ UNCHANGED <<TrialBar, route>>
<1>1. CASE SyncStableTag \/ PlanStandDown \/ PlanNothingToRamp \/ PlanKeepVerdict
             \/ PlanKeepRamping \/ PlanPin
  BY <1>1, SameTrial DEF SyncStableTag, PlanStandDown, PlanNothingToRamp, PlanKeepVerdict,
     PlanKeepRamping, PlanPin, PlanOnly
<1>2. CASE StartRamp
  <2>1. RampingTag = build /\ build # rollout.tag
    BY <1>2, Shape DEF StartRamp, Ramping, RampingTag, RInv, PassKnows
  <2>2. TrialBar' = Lifecycle!Trial(build, 0) /\ UNCHANGED route
    BY <1>2, <2>1 DEF StartRamp, RampFrom, TrialBar, Lifecycle!Trial
  <2>3. Lifecycle!Begin(build)
    BY <2>1, <2>2 DEF Lifecycle!Begin, Lifecycle!Become, TrialBar
  <2> QED BY <2>3, Shape DEF Lifecycle!Next
<1>3. CASE ForgetRamp
  <2>1. TrialBar' = Lifecycle!NoTrial /\ UNCHANGED route
    BY <1>3 DEF ForgetRamp, SetRollout, NoRamp, TrialBar, Lifecycle!NoTrial
  <2>2. ~Forward
    BY <1>3 DEF ForgetRamp, RInv, OnlyForward
  <2>3. Lifecycle!Withdraw
    BY <2>1, <2>2 DEF Lifecycle!Withdraw, Lifecycle!Become, Forward, TrialBar
  <2> QED BY <2>3 DEF Lifecycle!Next
<1> QED BY <1>1, <1>2, <1>3

LEMMA RampRefines ==
  ASSUME RInv,
         ConsumeCommand \/ ApplyCommand \/ ReleasePair \/ AwaitPromotion
           \/ UpsertNextRevision \/ UpsertNextRevisionService \/ HoldUntilReady
           \/ KeepSoaking \/ AbortOnBreach \/ AwaitSignal \/ CommitRolloutAdvance
           \/ DropService \/ DropDeployment \/ SettlePromotion
  PROVE  Lifecycle!Next \/ UNCHANGED <<TrialBar, route>>
<1>a. UNCHANGED route
  BY DEF ConsumeCommand, ApplyCommand, ReleasePair, AwaitPromotion, UpsertNextRevision,
     UpsertNextRevisionService, HoldUntilReady, KeepSoaking, AbortOnBreach, AwaitSignal,
     CommitRolloutAdvance, DropService, DropDeployment, SettlePromotion, Revision, ToRoute, Judge
<1>1. CASE ConsumeCommand \/ ReleasePair \/ AwaitPromotion \/ UpsertNextRevision
             \/ UpsertNextRevisionService \/ HoldUntilReady \/ KeepSoaking \/ DropService
             \/ DropDeployment
  BY <1>1, <1>a, SameTrial DEF ConsumeCommand, ReleasePair, AwaitPromotion, UpsertNextRevision,
     UpsertNextRevisionService, HoldUntilReady, KeepSoaking, DropService, DropDeployment
<1>2. CASE ApplyCommand
  <2>1. /\ rollout # NoRamp /\ cmd \in Commands /\ rollout' = Commanded(rollout)
    BY <1>2 DEF ApplyCommand, RInv, PassKnows, TypeOK
  <2>2. CASE cmd = "promote"
    <3>1. /\ rollout'.phase = "Promoting" /\ rollout'.tag = rollout.tag
          /\ rollout'.step = rollout.step
      BY <2>1, <2>2, Shape DEF Commanded
    <3> QED BY <1>a, <2>1, <3>1, VerdictSteps DEF Lifecycle!Next
  <2>3. CASE cmd = "abort"
    BY <1>a, <2>1, <2>3, VerdictSteps DEF Commanded, Lifecycle!Next
  <2>4. CASE cmd \notin {"promote", "abort"}
    BY <1>a, <2>1, <2>4, SameTrial DEF Commanded
  <2> QED BY <2>2, <2>3, <2>4
<1>3. CASE AbortOnBreach
  <2>1. rollout' = RolledBack(rollout) /\ rollout # NoRamp
    BY <1>3 DEF AbortOnBreach, Judge, RInv, PassKnows, RampShape, RampInFlight
  <2> QED BY <1>a, <2>1, VerdictSteps DEF Lifecycle!Next
<1>4. CASE AwaitSignal
  <2>1. RampInFlight
    BY <1>4 DEF AwaitSignal, Judge, RInv, PassKnows
  <2>2. CASE rollout' = rollout
    BY <1>a, <2>2, SameTrial
  <2>3. CASE rollout' = [rollout EXCEPT !.phase = "Held"] /\ rollout.phase = "Progressing"
    <3>1. TrialBar' = [TrialBar EXCEPT !.phase = "Held"]
      BY <2>3, Shape DEF TrialBar
    <3> QED BY <1>a, <2>3, <3>1 DEF Lifecycle!Next, Lifecycle!Hold, Lifecycle!Become, TrialBar
  <2>4. CASE rollout' = [rollout EXCEPT !.phase = "Held"] /\ rollout.phase = "Held"
    <3>1. rollout' = rollout
      BY <2>4, Shape
    <3> QED BY <1>a, <3>1, SameTrial
  <2> QED BY <1>4, <2>1, <2>2, <2>3, <2>4 DEF AwaitSignal, RampInFlight
<1>5. CASE CommitRolloutAdvance
  <2>1. RampInFlight /\ rollout' = Advanced(rollout)
    BY <1>5 DEF CommitRolloutAdvance, Judge, RInv, PassKnows
  <2>2. CASE LastStep(rollout)
    <3>1. /\ rollout'.phase = "Promoting" /\ rollout'.tag = rollout.tag
          /\ rollout'.step = rollout.step /\ rollout # NoRamp
      BY <2>1, <2>2, Shape DEF Advanced, RInv, RampShape, RampInFlight
    <3> QED BY <1>a, <2>1, <2>2, <3>1, VerdictSteps DEF Lifecycle!Next
  <2>3. CASE ~LastStep(rollout)
    <3>1. TrialBar' = Lifecycle!Trial(rollout.tag, rollout.step + 1)
      BY <2>1, <2>3, Shape DEF Advanced, TrialBar, Lifecycle!Trial
    <3>2. TrialBar.step + 1 < Len(Steps)
      BY <2>3, Shape, StepsFacts DEF LastStep, TrialBar
    <3>3. Lifecycle!Advance
      BY <1>a, <2>1, <3>1, <3>2
         DEF Lifecycle!Advance, Lifecycle!Become, Lifecycle!Undecided, TrialBar, RampInFlight
    <3> QED BY <3>3 DEF Lifecycle!Next
  <2> QED BY <2>2, <2>3
<1>6. CASE SettlePromotion
  <2>1. rollout.phase = "Promoting"
    BY <1>6 DEF SettlePromotion, RInv, PassKnows
  <2>2. CASE then = "revert"
    <3>1. rollout # NoRamp /\ rollout' = RolledBack(rollout)
      BY <1>6, <2>1, <2>2 DEF SettlePromotion, Settled, NoRamp
    <3> QED BY <1>a, <3>1, VerdictSteps DEF Lifecycle!Next
  <2>3. CASE then # "revert"
    <3>1. TrialBar' = Lifecycle!NoTrial
      BY <1>6, <2>3 DEF SettlePromotion, Settled, NoRamp, TrialBar, Lifecycle!NoTrial
    <3> QED BY <1>a, <2>1, <3>1 DEF Lifecycle!Next, Lifecycle!Finish, Lifecycle!Become, TrialBar
  <2> QED BY <2>2, <2>3
<1> QED BY <1>1, <1>2, <1>3, <1>4, <1>5, <1>6

(* A split is written with nothing, or with the share of the current step.   *)
LEMMA RouteRefines ==
  ASSUME RInv, WriteRoute
  PROVE  Lifecycle!Expose
<1>1. route' = weight /\ weight \in {0, rollout.weight} /\ UNCHANGED rollout
  BY DEF WriteRoute, RInv, PassKnows
<1>2. CASE rollout.phase \in {"Progressing", "Held", "Promoting"}
  BY <1>1, <1>2 DEF RInv, RampShape, Lifecycle!Expose, Lifecycle!Allowed, Lifecycle!Undecided,
     TrialBar
<1>3. CASE rollout.phase \in {"None", "RolledBack"}
  <2>1. route' = 0
    BY <1>1, <1>3 DEF RInv, RampShape, NoRamp
  <2> QED BY <1>1, <2>1 DEF Lifecycle!Expose, Lifecycle!Allowed, TrialBar
<1> QED BY <1>2, <1>3 DEF RInv, TypeOK, RolloutType

(* The rollout code implements the lifecycle it promises: for every list of  *)
(* steps, with passes cut short at any API call, and humans, edits, builds   *)
(* and failures in between.                                                  *)
THEOREM ImplementsLifecycle == Spec => RampKeepsPromise
<1>1. Init => Lifecycle!Init
  BY DEF Init, NoRamp, Lifecycle!Init, Lifecycle!NoTrial
<1>2. RInv /\ [Next]_vars => [Lifecycle!Next]_<<TrialBar, route>>
  <2> SUFFICES ASSUME RInv, [Next]_vars
               PROVE  Lifecycle!Next \/ UNCHANGED <<TrialBar, route>>
    OBVIOUS
  <2>1. CASE RampStep
    BY <2>1, PlanRefines, RampRefines DEF RampStep
  <2>2. CASE GatePass
    <3>1. CASE WriteRoute
      BY <3>1, RouteRefines DEF Lifecycle!Next
    <3>2. CASE ~WriteRoute
      BY <2>2, <3>2, GateFrame, RouteFrame, SameTrial DEF Next, Pass
    <3> QED BY <3>1, <3>2
  <2>3. CASE Abandon \/ UNCHANGED vars
    BY <2>3, SameTrial DEF Abandon, objects, vars
  <2>4. CASE Environment
    BY <2>4, EnvironmentFrame, SameTrial
  <2> QED BY <2>1, <2>2, <2>3, <2>4 DEF Next, Pass
<1> QED BY <1>1, <1>2, RInvHolds, PTL DEF Spec, RampKeepsPromise, Lifecycle!Spec, TrialBar
-----------------------------------------------------------------------------
(* TrialBehind is inductive, given RInv.                                     *)
TInv == RInv /\ TrialBehind

LEMMA PlanTInv ==
  ASSUME TInv, RInv', Forward,
         SyncStableTag \/ PlanStandDown \/ PlanNothingToRamp \/ PlanKeepVerdict
           \/ PlanKeepRamping \/ PlanPin \/ StartRamp \/ ForgetRamp
  PROVE  TrialBehind'
<1>a. ~Canary /\ pc # "forget" /\ pc' # "forget"
  <2>1. mode = "progressive"
    BY DEF TInv, RInv, TypeOK, Forward
  <2> QED BY <2>1 DEF Canary, TInv, RInv, OnlyForward, Forward
<1>b. UNCHANGED <<build, main>>
  BY DEF SyncStableTag, PlanStandDown, PlanNothingToRamp, PlanKeepVerdict, PlanKeepRamping,
     PlanPin, StartRamp, ForgetRamp, PlanOnly, Plan, Ramping, SetRollout
<1>c. /\ build \in Nat \ {0} /\ main.tag \in Nat /\ main.healthy \in Nat
      /\ \A t \in main.ready : t \in Nat
      /\ main.tag <= build /\ main.healthy <= build /\ \A t \in main.ready : t <= build
  <2>1. \A t \in Tags : t \in Nat \ {0}
    BY TagAssumption DEF Tags
  <2> QED BY Shape, <2>1 DEF TInv, RInv, OnlyForward, TypeOK, MainType
<1> USE DEF TInv, TrialBehind, Desired, Behind, NoTag
<1>1. CASE SyncStableTag
  BY <1>1, <1>a, <1>b, Shape DEF SyncStableTag, HoldsImage, RampInFlight
<1>2. CASE PlanStandDown \/ PlanNothingToRamp \/ ForgetRamp
  BY <1>2, <1>a DEF PlanStandDown, PlanNothingToRamp, ForgetRamp
<1>3. CASE PlanKeepVerdict
  <2>1. /\ UNCHANGED rollout /\ pc' = "deploy" /\ ~RampInFlight
        /\ image' = IF stable' = NoTag THEN build ELSE stable'
        /\ stable' \in {stable, NoTag}
    BY <1>3, <1>a, <1>b
       DEF PlanKeepVerdict, PlanOnly, Plan, Ramping, Deploy, RampInFlight
  <2> QED BY <1>b, <1>c, <2>1 DEF RampInFlight
<1>4. CASE PlanKeepRamping
  <2>1. /\ UNCHANGED <<rollout, stable>> /\ pc' = "deploy" /\ RampInFlight /\ HoldsImage
        /\ image' = IF stable = NoTag THEN build ELSE stable
    BY <1>4, <1>a, <1>b
       DEF PlanKeepRamping, PlanOnly, Plan, Ramping, Deploy, RampInFlight, HoldsImage
  <2> QED BY <1>b, <1>c, <2>1 DEF RampInFlight
<1>5. CASE PlanPin
  <2>1. ~RampInFlight /\ stable = NoTag /\ UNCHANGED rollout
    BY <1>5 DEF PlanPin, PlanOnly
  <2>2. RampingTag = build
    BY <1>5 DEF PlanPin, Ramping, RampingTag
  <2>3. CASE main.tag \in {build, NoTag}
    BY <1>5, <1>b, <1>c, <2>1, <2>2, <2>3
       DEF PlanPin, PlanOnly, Ramping, Deploy, RunningInstanceTag, RampInFlight
  <2>4. CASE main.tag \notin {build, NoTag}
    <3>1. stable' = main.tag /\ pc' = "start" /\ UNCHANGED image /\ image = NoTag
      BY <1>5, <2>2, <2>4
         DEF PlanPin, PlanOnly, Ramping, Plan, RunningInstanceTag
    <3>2. /\ main.tag < build /\ main.healthy < build
          /\ main.healthy = NoTag => \A r \in main.ready : r < build
      BY <1>c, <2>4
    <3>3. Behind(build)' /\ ~RampInFlight' /\ rollout'.tag <= build'
      BY <1>b, <2>1, <3>1, <3>2 DEF RampInFlight
    <3>4. main.healthy # build /\ ~(main.healthy = NoTag /\ build \in main.ready)
      BY <1>c, <3>2
    <3> QED BY <1>b, <2>1, <2>4, <3>1, <3>3, <3>4
  <2> QED BY <2>3, <2>4
<1>6. CASE StartRamp
  <2>1. RampingTag = build /\ stable # NoTag /\ stable # build
    BY <1>6, Shape DEF StartRamp, Ramping, RampingTag, RInv, PassKnows
  <2>2. /\ rollout'.tag = build /\ UNCHANGED stable /\ pc' = "deploy" /\ image' = stable
    BY <1>6, <2>1 DEF StartRamp, RampFrom, Deploy
  <2> QED BY <1>b, <1>c, <2>1, <2>2
<1> QED BY <1>1, <1>2, <1>3, <1>4, <1>5, <1>6

(* Once the instance has been written a pass begins no trial, and leaves the *)
(* pin and the instance as they are.                                         *)
LEMMA TrialFrame ==
  ASSUME RInv,
         ConsumeCommand \/ ApplyCommand \/ ReleasePair \/ AwaitPromotion
           \/ UpsertNextRevision \/ UpsertNextRevisionService \/ HoldUntilReady
           \/ KeepSoaking \/ AbortOnBreach \/ AwaitSignal \/ CommitRolloutAdvance
           \/ DropService \/ DropDeployment \/ SettlePromotion
  PROVE  /\ UNCHANGED <<build, mode, stable, main, image, route>>
         /\ pc \notin {"idle", "plan", "start", "forget", "deploy", "route", "gate"}
         /\ pc' \notin {"idle", "plan", "start", "forget", "deploy", "gate"}
         /\ rollout'.tag \in {rollout.tag, NoTag}
         /\ RampInFlight' => RampInFlight /\ rollout'.tag = rollout.tag
<1>1. /\ UNCHANGED <<build, mode, stable, main, image, route>>
      /\ pc \notin {"idle", "plan", "start", "forget", "deploy", "route", "gate"}
      /\ pc' \notin {"idle", "plan", "start", "forget", "deploy", "gate"}
  BY DEF ConsumeCommand, ApplyCommand, ReleasePair, AwaitPromotion, UpsertNextRevision,
     UpsertNextRevisionService, HoldUntilReady, KeepSoaking, AbortOnBreach, AwaitSignal,
     CommitRolloutAdvance, DropService, DropDeployment, SettlePromotion, Revision, ToRoute, Judge
<1>2. /\ rollout'.tag \in {rollout.tag, NoTag}
      /\ RampInFlight' => RampInFlight /\ rollout'.tag = rollout.tag
  <2>1. CASE ConsumeCommand \/ ReleasePair \/ AwaitPromotion \/ UpsertNextRevision
               \/ UpsertNextRevisionService \/ HoldUntilReady \/ KeepSoaking \/ DropService
               \/ DropDeployment
    BY <2>1 DEF ConsumeCommand, ReleasePair, AwaitPromotion, UpsertNextRevision,
       UpsertNextRevisionService, HoldUntilReady, KeepSoaking, DropService, DropDeployment,
       RampInFlight
  <2>2. CASE ApplyCommand
    BY <2>2, Shape DEF ApplyCommand, Commanded, RolledBack, RampInFlight
  <2>3. CASE AbortOnBreach
    BY <2>3, Shape DEF AbortOnBreach, Judge, RolledBack, RampInFlight
  <2>4. CASE AwaitSignal \/ CommitRolloutAdvance
    <3>1. RampInFlight
      BY <2>4 DEF AwaitSignal, CommitRolloutAdvance, Judge, RInv, PassKnows
    <3>2. rollout'.tag = rollout.tag
      BY <2>4, Shape DEF AwaitSignal, CommitRolloutAdvance, Advanced
    <3> QED BY <3>1, <3>2
  <2>5. CASE SettlePromotion
    BY <2>5, Shape DEF SettlePromotion, Settled, RolledBack, NoRamp, RampInFlight
  <2> QED BY <2>1, <2>2, <2>3, <2>4, <2>5
<1> QED BY <1>1, <1>2

LEMMA RampTInv ==
  ASSUME TInv, Forward,
         ConsumeCommand \/ ApplyCommand \/ ReleasePair \/ AwaitPromotion
           \/ UpsertNextRevision \/ UpsertNextRevisionService \/ HoldUntilReady
           \/ KeepSoaking \/ AbortOnBreach \/ AwaitSignal \/ CommitRolloutAdvance
           \/ DropService \/ DropDeployment \/ SettlePromotion
  PROVE  TrialBehind'
<1>1. RInv
  BY DEF TInv
<1> QED BY <1>1, TrialFrame, Shape DEF TInv, TrialBehind, Behind, Desired, Forward, NoTag

(* What the gate may do to the instance keeps everything behind that was.    *)
LEMMA GateTInv ==
  ASSUME TInv, Forward, GatePass
  PROVE  TrialBehind'
<1>a. /\ UNCHANGED <<build, stable, rollout>>
      /\ pc \in {"deploy", "route", "gate"} /\ pc' \in {"command", "gate", "idle"}
      /\ pc # "gate" => pc' # "idle"
  BY GateFrame
<1>b. /\ build \in Nat \ {0} /\ main \in MainType /\ image \in Nat /\ stable \in Nat
      /\ rollout.tag \in Nat /\ main.tag \in Nat /\ main.healthy \in Nat
      /\ \A t \in main.ready : t \in Nat \ {0}
  <2>1. \A t \in Tags : t \in Nat \ {0}
    BY TagAssumption DEF Tags
  <2> QED BY Shape, <2>1 DEF TInv, RInv, TypeOK, MainType
<1> USE DEF TInv, TrialBehind, Desired, Behind, NoTag
<1>1. CASE WriteInstance
  <2>1. /\ pc = "deploy" /\ pc' = "command" /\ image' \in {image, 0}
        /\ main'.healthy = main.healthy /\ main'.ready = main.ready
        /\ main'.tag = EffectiveTag(image)
    BY <1>1, <1>b DEF WriteInstance, MainType
  <2>2. EffectiveTag(image) \in {image, main.healthy} /\ image = Desired
    BY <1>a, <2>1 DEF EffectiveTag
  <2>3. CASE stable # NoTag
    <3>1. main'.tag < build /\ (RampInFlight => main'.tag < rollout.tag)
      BY <2>1, <2>2, <2>3
    <3> QED BY <1>a, <1>b, <2>1, <2>2, <2>3, <3>1 DEF RampInFlight
  <2>4. CASE stable = NoTag
    <3>1. main.healthy \in {NoTag, build} => main'.tag = build
      BY <2>1, <2>2, <2>4 DEF EffectiveTag
    <3> QED BY <1>a, <1>b, <2>1, <2>2, <2>4, <3>1 DEF RampInFlight
  <2> QED BY <2>3, <2>4
<1>2. CASE WriteRoute
  BY <1>a, <1>2 DEF WriteRoute, RampInFlight
<1>3. CASE GateStep /\ UNCHANGED main
  BY <1>a, <1>3 DEF GateStep, RampInFlight
<1>4. CASE GateStep /\ GateJudges /\ QuarantineTag(image)
  <2>1. CASE UNCHANGED main
    BY <1>3, <1>4, <2>1
  <2>2. CASE \E t \in Fallbacks(image) :
               main' = [main EXCEPT !.healthy = t, !.rolledBack = image]
    <3>1. PICK t \in Fallbacks(image) :
                 main' = [main EXCEPT !.healthy = t, !.rolledBack = image]
      BY <2>2
    <3>2. /\ main'.tag = main.tag /\ main'.ready = main.ready /\ main'.healthy = t
      BY <1>b, <3>1 DEF MainType
    <3>3. /\ t # image /\ t \in Nat \ {0}
          /\ t = main.healthy \/ (main.healthy = NoTag /\ t \in main.ready)
      BY <1>b, <3>1 DEF Fallbacks
    <3>4. main.tag = image /\ image' = NoTag /\ pc' = "idle"
      BY <1>4 DEF GateStep, GateJudges
    <3>5. stable # NoTag => t < build
      BY <3>3
    <3>6. RampInFlight => t < rollout.tag
      BY <3>3
    <3>7. t = build => main.tag = build
      BY <3>3
    <3> QED BY <1>a, <1>b, <3>2, <3>3, <3>4, <3>5, <3>6, <3>7 DEF RampInFlight
  <2> QED BY <1>4, <2>1, <2>2 DEF QuarantineTag
<1>5. CASE RecordHealthy
  <2>1. /\ main'.tag = main.tag /\ main'.ready = main.ready /\ main'.healthy = image
        /\ image = main.tag /\ image # NoTag /\ image' = NoTag /\ pc' = "idle"
    BY <1>5, <1>b DEF RecordHealthy, GateStep, GateJudges, MainType
  <2> QED BY <1>a, <1>b, <2>1 DEF RampInFlight
<1> QED BY <1>1, <1>2, <1>3, <1>4, <1>5
        DEF GatePass, GateStandsDown, CondemnCrash, CondemnBreach, KeepWatching

LEMMA EnvironmentTInv ==
  ASSUME TInv, Forward, Environment
  PROVE  TrialBehind'
<1>a. /\ UNCHANGED <<stable, rollout, pc, image>>
      /\ main'.tag = main.tag /\ main'.healthy = main.healthy
      /\ main'.ready \subseteq main.ready \cup {main.tag}
      /\ build' = build \/ (build' = build + 1 /\ UNCHANGED main /\ pc = "idle")
  <2>1. main \in MainType
    BY DEF TInv, RInv, TypeOK
  <2> QED BY <2>1, EnvironmentFrame
          DEF Environment, NewBuild, EditSpec, GiveCommand, Tick, MainPodsReady, MainCompletes,
              MainCrashes, MainDegrades, NextPodsReady, NextPodsFail, MainStep, NextStep,
              MainType, Forward
<1>b. /\ build \in Nat /\ main.tag \in Nat /\ main.healthy \in Nat /\ stable \in Nat
      /\ rollout.tag \in Nat /\ \A t \in main.ready : t \in Nat
      /\ main.healthy <= build /\ \A t \in main.ready : t <= build
  BY Shape, TagAssumption DEF TInv, RInv, OnlyForward, TypeOK, MainType, Tags
<1> USE DEF TInv, TrialBehind, Desired, Behind, NoTag
<1>1. CASE build' = build
  BY <1>a, <1>b, <1>1 DEF RampInFlight
<1>2. CASE build' = build + 1 /\ UNCHANGED main /\ pc = "idle"
  BY <1>a, <1>b, <1>2 DEF RampInFlight
<1> QED BY <1>a, <1>1, <1>2

LEMMA TInvHolds == Spec => []TInv
<1>1. Init => TrialBehind
  <2>1. 0 < 1 /\ 1 # 0
    OBVIOUS
  <2> QED BY <2>1 DEF Init, TrialBehind, NewMain, RunningMain, NoRamp, NoTag, RampInFlight,
             Behind, Desired
<1>2. RInv /\ RInv' /\ TrialBehind /\ [Next]_vars => TrialBehind'
  <2> SUFFICES ASSUME RInv, RInv', TrialBehind, [Next]_vars, Forward
               PROVE  TrialBehind'
    BY DEF TrialBehind, Forward
  <2>1. CASE RampStep
    BY <2>1, PlanTInv, RampTInv DEF RampStep, TInv
  <2>2. CASE GatePass
    BY <2>2, GateTInv DEF TInv
  <2>3. CASE Environment
    BY <2>3, EnvironmentTInv DEF TInv
  <2>4. CASE Abandon
    BY <2>4 DEF Abandon, objects, TrialBehind, Behind, Desired, RampInFlight
  <2>5. CASE UNCHANGED vars
    BY <2>5 DEF vars, TrialBehind, Behind, Desired, RampInFlight
  <2> QED BY <2>1, <2>2, <2>3, <2>4, <2>5 DEF Next, Pass
<1> QED BY <1>1, <1>2, RInvHolds, PTL DEF TInv, Spec

(* With versions that come from a pipeline, the instance never runs the tag  *)
(* on trial beside it.                                                       *)
THEOREM InstanceHoldsStill == Spec => [](Forward => TrialOffInstance)
<1>1. TInv => (Forward => TrialOffInstance)
  <2> SUFFICES ASSUME TInv, Forward, RampInFlight
               PROVE  main.tag # rollout.tag
    BY DEF TrialOffInstance
  <2>1. main.tag < rollout.tag /\ main.tag \in Nat
    BY Shape DEF TInv, TrialBehind, Behind
  <2> QED BY <2>1
<1> QED BY <1>1, TInvHolds, PTL

(* And the version to fall back to is recorded and older, for as long as the *)
(* trial lasts.                                                              *)
THEOREM TrialHasFallback == Spec => [](Forward => TrialIsPinned)
<1>1. TInv => (Forward => TrialIsPinned)
  BY DEF TInv, TrialBehind, Behind, TrialIsPinned
<1> QED BY <1>1, TInvHolds, PTL
=============================================================================
