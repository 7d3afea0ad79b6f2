--------------------------- MODULE BuildFlowProofs ---------------------------
(***************************************************************************)
(* What the build flow guarantees for every set of refs and commits and    *)
(* every number of events: an image is deployed only if it was pushed.     *)
(***************************************************************************)
EXTENDS BuildFlow, TLAPS

(* The images the loop and the webhook hold in hand, or have written down,   *)
(* are pushed ones.                                                          *)
OnRecord ==
  /\ spec.pin \in registry \cup {None}
  /\ status.build = "Succeeded" => status.tag \in registry
  /\ ramp.pin \in registry \cup {None} /\ ramp.tag \in registry \cup {None}
OnTheirWay ==
  /\ calls \subseteq registry
  /\ \A p \in patches : p[2] \in registry
Built == \A t \in Tags : jobs[t] = "succeeded" => t \in registry
InHand ==
  /\ pc \in {"clean", "job", "Building", "Succeeded", "Failed"} => image \in Tags
  /\ pc \in {"Succeeded", "plan", "main"} => image \in registry
  /\ read.job = "succeeded" => image \in registry
Deployed ==
  \A d \in Deployments : /\ deps[d].image \in registry \cup {None}
                         /\ deps[d].label \in registry \cup {None}

Pushed == OnRecord /\ OnTheirWay /\ Built /\ InHand /\ Deployed
BInv == TypeOK /\ Pushed

-----------------------------------------------------------------------------
(* The tag a pass starts with is one of the repository's or the workflow's.  *)
LEMMA ImageTagTyped ==
  ASSUME BInv
  PROVE  /\ ImageTag \in Tags
         /\ status.build = "Succeeded" => ImageTag \in registry
BY TagsAssumption DEF BInv, TypeOK, Pushed, OnRecord, ImageTag, Tags

(* Recording an outcome writes a well-typed status.                          *)
LEMMA RecordedTyped ==
  ASSUME TypeOK, NEW b \in {"Building", "Succeeded", "Failed", "Error"},
         NEW t \in Tags \cup {None}
  PROVE  Recorded(b, t) \in [build : {"none", "Building", "Succeeded", "Failed", "Error"},
                             tag : Tags \cup {None}, last : Nat]
BY DEF TypeOK, Recorded

(* Spending an event keeps the counters numbers.                             *)
LEMMA SpendTyped ==
  ASSUME TypeOK, NEW k \in Kinds, Spend(k)
  PROVE  spent' \in [Kinds -> Nat]
BY DEF TypeOK, Spend

(* The steps of a pass that read and build.                                  *)
LEMMA BuildingKeeps ==
  ASSUME BInv,
         StartPass \/ DeleteOldBuildJobs \/ CreateBuildJob \/ JobDone \/ JobFailed \/ JobRunning
  PROVE  BInv'
<1> USE DEF BInv, Pushed, world, EndPass, NothingRead, JobStates
<1>1. CASE StartPass
  <2>1. image' \in Tags /\ (status.build = "Succeeded" => image' \in registry)
    BY <1>1, ImageTagTyped DEF StartPass
  <2>2. read'.job = "succeeded" => image' \in registry
    BY <1>1, <2>1, ImageTagTyped DEF StartPass, Built
  <2>3. TypeOK'
    BY <1>1, <2>1, ImageTagTyped DEF StartPass, TypeOK
  <2> QED
    BY <1>1, <2>1, <2>2, <2>3 DEF StartPass, OnRecord, OnTheirWay, Built, InHand, Deployed
<1>2. CASE DeleteOldBuildJobs
  BY <1>2 DEF DeleteOldBuildJobs, TypeOK, OnRecord, OnTheirWay, Built, InHand, Deployed
<1>3. CASE CreateBuildJob
  BY <1>3 DEF CreateBuildJob, TypeOK, OnRecord, OnTheirWay, Built, InHand, Deployed
<1>4. CASE JobDone
  <2>1. image \in registry
    BY <1>4 DEF JobDone, Done, Job, Built, InHand
  <2> QED
    BY <1>4, <2>1 DEF JobDone, Done, TypeOK, OnRecord, OnTheirWay, Built, InHand, Deployed
<1>5. CASE JobFailed
  BY <1>5 DEF JobFailed, TypeOK, OnRecord, OnTheirWay, Built, InHand, Deployed
<1>6. CASE JobRunning
  BY <1>6 DEF JobRunning, TypeOK, OnRecord, OnTheirWay, Built, InHand, Deployed
<1> QED
  BY <1>1, <1>2, <1>3, <1>4, <1>5, <1>6

(* The steps that record, plan and deploy, and the ways a pass is cut short. *)
LEMMA DeployingKeeps ==
  ASSUME BInv,
         UpdateBuildStatus \/ PlanRollout \/ WriteMain \/ WriteNext \/ BlockDeploy \/ Abandon
  PROVE  BInv'
<1> USE DEF BInv, Pushed, world, EndPass, NothingRead, JobStates, NoRamp, NoDep
<1>1. CASE UpdateBuildStatus
  <2>1. image \in Tags /\ pc \in {"Building", "Succeeded", "Failed"}
    BY <1>1 DEF UpdateBuildStatus, InHand
  <2>2. TypeOK'
    BY <1>1, <2>1, RecordedTyped DEF UpdateBuildStatus, TypeOK
  <2>3. OnRecord'
    BY <1>1, <2>1 DEF UpdateBuildStatus, Recorded, OnRecord, InHand
  <2> QED
    BY <1>1, <2>2, <2>3 DEF UpdateBuildStatus, OnTheirWay, Built, InHand, Deployed
<1>2. CASE PlanRollout
  <2>1. image \in registry /\ Pin \in registry \cup {None} /\ registry \subseteq Tags
    BY <1>2 DEF PlanRollout, RampTo, Pin, TypeOK, InHand, OnRecord, Deployed, Deployments,
                InstanceTag
  <2>2. PICK next \in {NoRamp, ramp, [pin |-> Pin, tag |-> image]} : RampTo(next)
    BY <1>2 DEF PlanRollout, ForgetRamp
  <2>3. /\ next \in {NoRamp} \cup [pin : Tags \cup {None}, tag : Tags]
        /\ next.pin \in registry \cup {None} /\ next.tag \in registry \cup {None}
    BY <2>1, <2>2 DEF TypeOK, OnRecord
  <2>4. image' \in registry /\ pc' = "main" /\ ramp' = next
    BY <2>1, <2>2, <2>3 DEF RampTo
  <2> QED
    BY <2>1, <2>2, <2>3, <2>4
       DEF RampTo, TypeOK, OnRecord, OnTheirWay, Built, InHand, Deployed
<1>3. CASE WriteMain
  <2>1. image \in registry /\ registry \subseteq Tags
    BY <1>3 DEF WriteMain, TypeOK, InHand
  <2> QED
    BY <1>3, <2>1
       DEF WriteMain, Write, Dep, Deployments, TypeOK, OnRecord, OnTheirWay, Built, InHand, Deployed
<1>4. CASE WriteNext
  <2>1. \E dep \in {NoDep, Dep(ramp.tag), deps["next"]} :
          /\ deps' = [deps EXCEPT !["next"] = dep]
          /\ dep \in [label : Tags \cup {None}, image : Tags \cup {None}]
          /\ dep.label \in registry \cup {None} /\ dep.image \in registry \cup {None}
    BY <1>4 DEF WriteNext, Write, Dep, Deployments, TypeOK, OnRecord, Deployed
  <2>2. deps' \in [Deployments -> [label : Tags \cup {None}, image : Tags \cup {None}]] /\ Deployed'
    BY <1>4, <2>1 DEF WriteNext, Write, Deployments, TypeOK, Deployed
  <2>3. ramp' \in {NoRamp, ramp}
    BY <1>4 DEF WriteNext
  <2>4. OnRecord'
    BY <1>4, <2>3 DEF WriteNext, Write, OnRecord
  <2> QED
    BY <1>4, <2>2, <2>3, <2>4 DEF WriteNext, Write, TypeOK, OnTheirWay, Built, InHand
<1>5. CASE BlockDeploy
  <2>1. spent' \in [Kinds -> Nat]
    BY <1>5, SpendTyped DEF BlockDeploy, Kinds
  <2>2. Recorded("Error", read.tag)
          \in [build : {"none", "Building", "Succeeded", "Failed", "Error"},
               tag : Tags \cup {None}, last : Nat]
    BY RecordedTyped DEF TypeOK
  <2>3. status'.build = "Error"
    BY <1>5 DEF BlockDeploy, Recorded
  <2> QED
    BY <1>5, <2>1, <2>2, <2>3
       DEF BlockDeploy, TypeOK, OnRecord, OnTheirWay, Built, InHand, Deployed
<1>6. CASE Abandon
  <2>1. spent' \in [Kinds -> Nat]
    BY <1>6, SpendTyped DEF Abandon, Kinds
  <2> QED
    BY <1>6, <2>1 DEF Abandon, TypeOK, OnRecord, OnTheirWay, Built, InHand, Deployed
<1> QED
  BY <1>1, <1>2, <1>3, <1>4, <1>5, <1>6

(* The webhooks, the developer, Kubernetes and the workflow.                 *)
LEMMA EnvironmentKeeps ==
  ASSUME BInv, Environment
  PROVE  BInv'
<1> USE DEF BInv, Pushed, JobStates, Deployments
<1>1. CASE PushWebhook
  <2>1. spent' \in [Kinds -> Nat]
    BY <1>1, SpendTyped DEF PushWebhook, Kinds
  <2> QED
    BY <1>1, <2>1 DEF PushWebhook, TypeOK, OnRecord, OnTheirWay, Built, InHand, Deployed
<1>2. CASE BuildComplete
  <2>1. spent' \in [Kinds -> Nat]
    BY <1>2, SpendTyped DEF BuildComplete, Kinds, TypeOK
  <2>2. PICK t \in calls : /\ calls' = calls \ {t}
                           /\ \/ status' = [status EXCEPT !.build = "Succeeded", !.tag = t]
                              \/ status' = status
                           /\ patches' = patches \cup
                                {<<d, t>> : d \in {e \in Deployments : deps[e] # NoDep}}
    BY <1>2 DEF BuildComplete
  <2>3. t \in Shas /\ t \in registry /\ Shas \subseteq Tags
    BY <2>2 DEF TypeOK, OnTheirWay, Tags
  <2>4. /\ status' \in [build : {"none", "Building", "Succeeded", "Failed", "Error"},
                         tag : Tags \cup {None}, last : Nat]
        /\ status'.build = "Succeeded" => status'.tag \in registry
    BY <2>2, <2>3 DEF TypeOK, OnRecord
  <2>5. patches' \subseteq Deployments \X Shas /\ \A p \in patches' : p[2] \in registry
    BY <2>2, <2>3 DEF TypeOK, OnTheirWay
  <2> QED
    BY <1>2, <2>1, <2>2, <2>4, <2>5
       DEF BuildComplete, TypeOK, OnRecord, OnTheirWay, Built, InHand, Deployed
<1>3. CASE PatchDeployment
  <2>1. PICK p \in patches : /\ patches' = patches \ {p}
                             /\ deps' = [deps EXCEPT ![p[1]] = Patched(@, p[2])]
    BY <1>3 DEF PatchDeployment
  <2>2. p[1] \in Deployments /\ p[2] \in Tags /\ p[2] \in registry
    BY <2>1 DEF TypeOK, OnTheirWay, Tags
  <2>3. /\ deps' \in [Deployments -> [label : Tags \cup {None}, image : Tags \cup {None}]]
        /\ Deployed'
    BY <1>3, <2>1, <2>2 DEF PatchDeployment, Patched, TypeOK, Deployed
  <2> QED
    BY <1>3, <2>1, <2>3 DEF PatchDeployment, TypeOK, OnRecord, OnTheirWay, Built, InHand
<1>4. CASE WorkflowBuilds
  <2>1. spent' \in [Kinds -> Nat]
    BY <1>4, SpendTyped DEF WorkflowBuilds, Kinds
  <2>2. PICK t \in Shas : registry' = registry \cup {t} /\ calls' \in {calls, calls \cup {t}}
    BY <1>4 DEF WorkflowBuilds
  <2> QED
    BY <1>4, <2>1, <2>2
       DEF WorkflowBuilds, TypeOK, Tags, OnRecord, OnTheirWay, Built, InHand, Deployed
<1>5. CASE EditSpec
  <2>1. spent' \in [Kinds -> Nat]
    BY <1>5, SpendTyped DEF EditSpec, Kinds
  <2> QED
    BY <1>5, <2>1 DEF EditSpec, TypeOK, OnRecord, OnTheirWay, Built, InHand, Deployed
<1>6. CASE JobSucceeds
  BY <1>6 DEF JobSucceeds, JobStep, TypeOK, OnRecord, OnTheirWay, Built, InHand, Deployed
<1>7. CASE JobPodFails
  <2>1. spent' \in [Kinds -> Nat]
    BY <1>7, SpendTyped DEF JobPodFails, Kinds
  <2> QED
    BY <1>7, <2>1
       DEF JobPodFails, JobStep, TypeOK, OnRecord, OnTheirWay, Built, InHand, Deployed
<1>8. CASE RampPasses
  BY <1>8 DEF RampPasses, NoRamp, TypeOK, OnRecord, OnTheirWay, Built, InHand, Deployed
<1> QED
  BY <1>1, <1>2, <1>3, <1>4, <1>5, <1>6, <1>7, <1>8 DEF Environment

-----------------------------------------------------------------------------
(* The invariant holds for ever.                                             *)
LEMMA Invariant == Spec => []BInv
<1>1. Init => BInv
  BY TagsAssumption
     DEF Init, BInv, TypeOK, Pushed, OnRecord, OnTheirWay, Built, InHand, Deployed,
         Tags, Deployments, JobStates, NoDep, NoRamp, NothingRead
<1>2. BInv /\ [Next]_vars => BInv'
  <2> SUFFICES ASSUME BInv, [Next]_vars PROVE BInv'
    OBVIOUS
  <2>1. CASE Next
    BY <2>1, BuildingKeeps, DeployingKeeps, EnvironmentKeeps DEF Next, Pass
  <2>2. CASE UNCHANGED vars
    BY <2>2 DEF vars, BInv, TypeOK, Pushed, OnRecord, OnTheirWay, Built, InHand, Deployed
  <2> QED
    BY <2>1, <2>2
<1> QED
  BY <1>1, <1>2, PTL DEF Spec

(* Every variable keeps its type, whatever the refs, the commits and the     *)
(* number of events.                                                         *)
THEOREM BuildTypeCorrect == Spec => []TypeOK
<1>1. BInv => TypeOK
  BY DEF BInv
<1> QED
  BY <1>1, Invariant, PTL

(* A Deployment is never given an image that nobody has pushed: neither by   *)
(* reconcileDeployment nor by the build-complete webhook, whatever they      *)
(* write over each other.                                                    *)
THEOREM OnlyPushedIsDeployed == Spec => []DeployedIsPushed
<1>1. BInv => DeployedIsPushed
  BY DEF BInv, Pushed, Deployed, DeployedIsPushed
<1> QED
  BY <1>1, Invariant, PTL
=============================================================================
