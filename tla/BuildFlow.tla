------------------------------ MODULE BuildFlow ------------------------------
(***************************************************************************)
(* How a service built from a Git repository gets its version: Kaniko Jobs *)
(* run by the reconcile loop for the first build (reconcileBuild), and a   *)
(* GitHub workflow that builds every later push and calls the operator's   *)
(* build-complete webhook.  The webhook writes the same status and the     *)
(* same Deployments as the loop, from its own goroutine.  A progressive    *)
(* rollout is here only as far as it decides which tag the instance is     *)
(* given; Ramp models the rest.                                            *)
(***************************************************************************)
EXTENDS Naturals

CONSTANTS
  Refs,         \* values of spec.tag: branches and tags of the repository
  Latest,       \* the image tag used when spec.tag is empty
  Shas,         \* the image tags the workflow pushes
  None,         \* no tag
  Progressive,  \* whether spec.rollout.strategy is progressive
  Limit,        \* how often each kind of event may happen
  Total         \* and how many events there may be

Kinds == {"push", "build", "edit", "fault"}
Tags == Refs \cup Shas

ASSUME TagsAssumption ==
  Latest \in Refs /\ Refs \cap Shas = {} /\ None \notin Refs \cup Shas
ASSUME BuildLimitAssumption ==
  /\ Progressive \in BOOLEAN /\ Limit \in [Kinds -> Nat]
  /\ Total \in Nat

VARIABLES
  spec,      \* [ref, pin]: spec.tag and spec.imageTag
  asked,     \* annotation deploy.easydeploy.io/rebuild, 0 when absent
  status,    \* [build, tag, last]: status.buildStatus, buildTag and lastRebuild
  jobs,      \* the Kaniko Job of each image tag
  registry,  \* the image tags that have been pushed
  calls,     \* build-complete calls on their way
  patches,   \* Deployments a build-complete handler has yet to patch
  deps,      \* the main and the temporary Deployment
  ramp,      \* [pin, tag]: status.stableTag and status.rollout.tag
  spent,     \* events so far, by kind
  pc,        \* what the running reconcile does next
  image,     \* its image tag
  read       \* what it read: status.buildTag, and the Job in the informer's cache

Deployments == {"main", "next"}

world == <<spec, asked, jobs, registry, calls, patches, ramp, spent>>
vars == <<spec, asked, status, jobs, registry, calls, patches, deps, ramp, spent,
          pc, image, read>>

NoDep == [label |-> None, image |-> None]
Dep(tag) == [label |-> tag, image |-> tag]
JobStates == {"none", "running", "retrying", "succeeded", "failed"}
NoRamp == [pin |-> None, tag |-> None]
NothingRead == [tag |-> None, job |-> "none"]

(* Every variable has its type.                                              *)
TypeOK ==
  /\ spec \in [ref : Refs, pin : Shas \cup {None}] /\ asked \in Nat
  /\ status \in [build : {"none", "Building", "Succeeded", "Failed", "Error"},
                 tag : Tags \cup {None}, last : Nat]
  /\ jobs \in [Tags -> JobStates] /\ registry \subseteq Tags
  /\ calls \subseteq Shas /\ patches \subseteq Deployments \X Shas
  /\ deps \in [Deployments -> [label : Tags \cup {None}, image : Tags \cup {None}]]
  /\ ramp \in {NoRamp} \cup [pin : Tags \cup {None}, tag : Tags]
  /\ spent \in [Kinds -> Nat]
  /\ pc \in {"idle", "clean", "job", "Building", "Succeeded", "Failed", "plan", "main", "next"}
  /\ image \in Tags \cup {None}
  /\ read \in [tag : Tags \cup {None}, job : JobStates]

Init ==
  /\ spec \in [ref : Refs, pin : {None}] /\ asked = 0
  /\ status = [build |-> "none", tag |-> None, last |-> 0]
  /\ jobs = [t \in Tags |-> "none"] /\ registry = {} /\ calls = {} /\ patches = {}
  /\ deps = [d \in Deployments |-> NoDep] /\ ramp = NoRamp
  /\ spent = [k \in Kinds |-> 0]
  /\ pc = "idle" /\ image = None /\ read = NothingRead

-----------------------------------------------------------------------------
(* The reconcile loop.                                                       *)

(* spec.imageTag, else the last build that is known to have succeeded, else  *)
(* spec.tag.  Mutants: the recorded build is not looked at; or it counts     *)
(* whatever became of it.                                                    *)
ImageTagOfSpec == IF spec.pin # None THEN spec.pin ELSE spec.ref
ImageTagOfBuild ==
  IF spec.pin # None THEN spec.pin
  ELSE IF status.tag # None THEN status.tag ELSE spec.ref
ImageTag ==
  IF spec.pin # None THEN spec.pin
  ELSE IF status.build = "Succeeded" THEN status.tag ELSE spec.ref

NeedsRebuild(tag) ==
  \/ status.tag \notin {None, tag}
  \/ asked \notin {0, status.last}

EndPass == pc' = "idle" /\ image' = None /\ read' = NothingRead

(* A pass reads the BirService once.  After a success it never builds again. *)
StartPass ==
  /\ pc = "idle"
  /\ image' = ImageTag
  /\ \/ /\ status.build = "Succeeded" /\ pc' = "plan"
        /\ read' = [tag |-> status.tag, job |-> "none"]
     \/ /\ status.build # "Succeeded"
        /\ pc' = IF NeedsRebuild(ImageTag) THEN "clean" ELSE "job"
        /\ read' = [tag |-> status.tag, job |-> jobs[ImageTag]]
  /\ UNCHANGED <<world, status, deps>>

DeleteOldBuildJobs ==
  /\ pc = "clean" /\ pc' = "job"
  /\ jobs' = [t \in Tags |-> "none"]
  /\ UNCHANGED <<spec, asked, status, registry, calls, patches, deps, ramp, spent, image, read>>

(* The Job is read through the informer's cache, which may still hold one    *)
(* that was just deleted, and not yet one's progress.                        *)
Job == {read.job, jobs[image]}
(* Mutant: a Job that runs is taken for one that is done.                    *)
DoneOnceStarted == pc = "job" /\ Job \cap {"running", "succeeded"} # {}
Done == pc = "job" /\ "succeeded" \in Job

CreateBuildJob ==
  /\ pc = "job" /\ jobs[image] = "none" /\ pc' = "Building"
  /\ jobs' = [jobs EXCEPT ![image] = "running"]
  /\ UNCHANGED <<spec, asked, status, registry, calls, patches, deps, ramp, spent, image, read>>

JobDone ==
  /\ Done /\ pc' = "Succeeded" /\ read' = [read EXCEPT !.job = "none"]
  /\ UNCHANGED <<world, status, deps, image>>
(* One failed pod is enough, though the Job tries again (backoffLimit).      *)
JobFailed ==
  /\ pc = "job" /\ Job \cap {"retrying", "failed"} # {}
  /\ pc' = "Failed" /\ UNCHANGED <<world, status, deps, image, read>>
JobRunning ==
  /\ pc = "job" /\ "running" \in Job
  /\ EndPass /\ UNCHANGED <<world, status, deps>>

(* The status is written over whatever it is by now, and the annotation that *)
(* is there by now counts as served.                                         *)
Recorded(build, tag) ==
  [build |-> build, tag |-> tag, last |-> IF asked # 0 THEN asked ELSE status.last]
UpdateBuildStatus ==
  /\ pc \in {"Building", "Succeeded", "Failed"}
  /\ status' = Recorded(pc, image)
  /\ \/ pc = "Succeeded" /\ pc' = "plan" /\ UNCHANGED <<image, read>>
     \/ pc # "Succeeded" /\ EndPass
  /\ UNCHANGED <<world, deps>>

(* What the ramp makes of the image: the instance is pinned to the version   *)
(* it runs while another is on trial, and follows once the pin is gone.      *)
Ramping == Progressive /\ image \notin {Latest, ramp.pin}
InstanceTag == deps["main"].label
(* Mutant: the pin is forgotten.                                             *)
ForgetRampOnly == [ramp EXCEPT !.tag = None]
ForgetRamp == NoRamp
Pin == IF ramp.pin = None THEN InstanceTag ELSE ramp.pin
RampTo(next) ==
  /\ pc = "plan" /\ pc' = "main"
  /\ ramp' = next /\ image' = IF next.pin = None THEN image ELSE next.pin
  /\ UNCHANGED <<spec, asked, status, jobs, registry, calls, patches, deps, spent, read>>
StartsRamp == Ramping /\ ramp.tag # image /\ Pin \notin {None, image}
PlanRollout ==
  \/ ~Ramping /\ RampTo(ForgetRamp)
  \/ StartsRamp /\ RampTo([pin |-> Pin, tag |-> image])
  \/ Ramping /\ ~StartsRamp /\ RampTo(ramp)

Write(d, dep) ==
  /\ deps' = [deps EXCEPT ![d] = dep]
  /\ UNCHANGED <<spec, asked, status, jobs, registry, calls, patches, spent>>

(* The main Deployment is given its label and its image together.  Mutant:   *)
(* it is left alone when its label is right.                                 *)
WriteMainByLabel ==
  /\ pc = "main" /\ pc' = "next"
  /\ Write("main", IF InstanceTag = image THEN deps["main"] ELSE Dep(image))
  /\ UNCHANGED <<ramp, image, read>>
WriteMain ==
  /\ pc = "main" /\ pc' = "next"
  /\ Write("main", Dep(image)) /\ UNCHANGED <<ramp, image, read>>

(* The temporary one is kept in step with the ramp, and left alone while the *)
(* instance is promoted, until its rollout is complete.                      *)
WriteNext ==
  /\ pc = "next" /\ EndPass
  /\ \/ ramp.tag = None /\ Write("next", NoDep) /\ UNCHANGED ramp
     \/ ramp.pin # None /\ Write("next", Dep(ramp.tag)) /\ UNCHANGED ramp
     \/ /\ ramp.tag # None /\ ramp.pin = None
        /\ \/ Write("next", deps["next"]) /\ UNCHANGED ramp
           \/ InstanceTag = ramp.tag /\ Write("next", NoDep) /\ ramp' = NoRamp

(* The node pool cannot be resolved, or the HPA window is malformed: the     *)
(* error is recorded where the outcome of the build was.                     *)
Events == spent["push"] + spent["build"] + spent["edit"] + spent["fault"]
Spend(kind) ==
  spent[kind] < Limit[kind] /\ Events < Total /\ spent' = [spent EXCEPT ![kind] = @ + 1]
BlockDeploy ==
  /\ pc = "main" /\ Spend("fault") /\ EndPass
  /\ status' = Recorded("Error", read.tag)
  /\ UNCHANGED <<spec, asked, jobs, registry, calls, patches, deps, ramp>>

(* Any other error, or the operator's death.                                 *)
Abandon ==
  /\ pc # "idle" /\ Spend("fault") /\ EndPass
  /\ UNCHANGED <<spec, asked, status, jobs, registry, calls, patches, deps, ramp>>

Pass ==
  \/ StartPass \/ DeleteOldBuildJobs \/ CreateBuildJob \/ JobDone \/ JobFailed \/ JobRunning
  \/ UpdateBuildStatus \/ PlanRollout \/ WriteMain \/ WriteNext

-----------------------------------------------------------------------------
(* The webhooks.                                                             *)

(* A push annotates the BirService.  (A conflicting update is only logged:   *)
(* as if there had been no push.)                                            *)
PushWebhook ==
  /\ Spend("push") /\ asked' = asked + 1
  /\ UNCHANGED <<spec, status, jobs, registry, calls, patches, deps, ramp, pc, image, read>>

(* A build-complete call records the build, then patches the image of every  *)
(* Deployment of the app that there is.  A conflict on the status is only    *)
(* logged.                                                                   *)
BuildComplete ==
  \E t \in calls :
    /\ calls' = calls \ {t}
    /\ \/ status' = [status EXCEPT !.build = "Succeeded", !.tag = t] /\ UNCHANGED spent
       \/ Spend("fault") /\ UNCHANGED status
    /\ patches' = patches \cup {<<d, t>> : d \in {e \in Deployments : deps[e] # NoDep}}
    /\ UNCHANGED <<spec, asked, jobs, registry, deps, ramp, pc, image, read>>

Patched(dep, tag) == IF dep = NoDep THEN dep ELSE [dep EXCEPT !.image = tag]
PatchDeployment ==
  \E p \in patches :
    /\ patches' = patches \ {p}
    /\ deps' = [deps EXCEPT ![p[1]] = Patched(@, p[2])]
    /\ UNCHANGED <<spec, asked, status, jobs, registry, calls, ramp, spent, pc, image, read>>

-----------------------------------------------------------------------------
(* The rest of the world.                                                    *)

(* The workflow pushes an image and calls the webhook.  It may be run again  *)
(* for a commit, and calls may overtake each other or never arrive.          *)
WorkflowBuilds ==
  /\ Spend("build")
  /\ \E t \in Shas : registry' = registry \cup {t} /\ calls' \in {calls, calls \cup {t}}
  /\ UNCHANGED <<spec, asked, status, jobs, patches, deps, ramp, pc, image, read>>

(* The developer asks for another ref, or pins, or unpins, a pushed build.   *)
EditSpec ==
  /\ Spend("edit")
  /\ spec' \in [ref : Refs, pin : (registry \cap Shas) \cup {None}] \ {spec}
  /\ UNCHANGED <<asked, status, jobs, registry, calls, patches, deps, ramp, pc, image, read>>

JobStep(t, s) ==
  /\ jobs' = [jobs EXCEPT ![t] = s]
  /\ UNCHANGED <<spec, asked, status, calls, patches, deps, ramp, pc, image, read>>
JobSucceeds ==
  \E t \in Tags :
    /\ jobs[t] \in {"running", "retrying"} /\ JobStep(t, "succeeded")
    /\ registry' = registry \cup {t} /\ UNCHANGED spent
JobPodFails ==
  \E t \in Tags :
    /\ jobs[t] \in {"running", "retrying"} /\ Spend("fault")
    /\ JobStep(t, IF jobs[t] = "running" THEN "retrying" ELSE "failed")
    /\ UNCHANGED registry

(* The version on trial passes: its ramp takes the pin off the instance.     *)
RampPasses ==
  /\ pc = "idle" /\ ramp.pin # None /\ deps["next"].label = ramp.tag
  /\ ramp' = [ramp EXCEPT !.pin = None]
  /\ UNCHANGED <<spec, asked, status, jobs, registry, calls, patches, deps, spent, pc, image, read>>

Environment ==
  \/ PushWebhook \/ BuildComplete \/ PatchDeployment
  \/ WorkflowBuilds \/ EditSpec \/ JobSucceeds \/ JobPodFails \/ RampPasses

Next == Pass \/ BlockDeploy \/ Abandon \/ Environment

Spec == Init /\ [][Next]_vars

(* One pass follows another, as in Reconcile; nothing else is owed.          *)
FairSpec == Spec /\ WF_vars(Pass)

-----------------------------------------------------------------------------
(* No Deployment is ever given an image that nobody has pushed, whichever of *)
(* the loop and the webhook writes it last.                                  *)
DeployedIsPushed == \A d \in Deployments : deps[d].image \in registry \cup {None}

(* The webhook's patch, which may contradict a pin or a ramp, does not last: *)
(* the image comes back to its label.  It stays where the loop has stopped   *)
(* deploying, and on a temporary Deployment whose ramp is over.              *)
PatchIsUndone ==
  \A d \in Deployments :
    deps[d].image # deps[d].label ~>
      \/ deps[d].image = deps[d].label
      \/ status.build # "Succeeded"
      \/ d = "next" /\ ramp.pin = None

(* A recorded build reaches the instance, or its trial, unless it is         *)
(* replaced or the developer pins another.                                   *)
BuildIsServed ==
  \A t \in Shas :
    status.build = "Succeeded" /\ status.tag = t /\ spec.pin = None ~>
      \/ status.build # "Succeeded" \/ status.tag # t \/ spec.pin # None
      \/ deps["main"] = Dep(t) \/ deps["next"] = Dep(t)

(* After a failed build, correcting spec.tag starts another one.             *)
CorrectedTagIsBuilt ==
  status.build = "Failed" /\ spec.pin = None /\ status.tag # spec.ref ~>
    status.build # "Failed" \/ spec.pin # None \/ status.tag = spec.ref

-----------------------------------------------------------------------------
(* What the source says of itself and the runs refute.                       *)

(* "the main Deployment is not touched for the entire ramp": once the trial  *)
(* stands beside it, its pods are not given the image on trial.              *)
HeldIsUntouched ==
  /\ pc = "idle" /\ ramp.pin # None
  /\ InstanceTag = ramp.pin /\ deps["next"] = Dep(ramp.tag)
  => deps["main"].image # ramp.tag

(* "the pipeline pushes immutable SHA tags": no Kaniko Job writes one.       *)
ShaIsImmutable == \A t \in Shas : jobs[t] = "none"
=============================================================================
