# A TLA+ model of the Easy-Deploy operator

Easy-Deploy (BasePlate) is a Kubernetes operator. A developer describes a service with one
`BirService` object; the operator keeps the Deployment, the Services, the HTTPRoute and the mesh
objects that serve it, and delivers new versions of it, either at once, beside a manual canary, or by
a *progressive rollout* that shifts requests step by step and judges each step by its metrics.

The controller is a level-triggered loop: a *pass* (`Reconcile`) reads the object, makes a series of
API calls, each of which may fail, and returns. Nothing is kept in memory between two passes. What a
pass may rely on is therefore only what earlier passes, possibly cut short, wrote to the API server,
and what humans, pipelines, webhooks and pods did in the meantime. That is where the hard behaviour
of this code is, and what the modules here are about.

## Inventory

| Part | Source | State it keeps | Interacts with | What makes it correct |
|---|---|---|---|---|
| Progressive rollout | `internal/controller/progressive_rollout.go` | `status.rollout` (phase, tag, step, weight, stepStartedAt), `status.stableTag`, the temporary `-next` Deployment and `-next-svc` Service, the `rollout-action` annotation | decides the main Deployment's image; returns the route's split; asks the SLO gate's queries; learns of a failed promotion from the crash gate's annotation | the instance does not run a version on trial; steps in order; a verdict stands; nothing is sent to a Service that is not there; an abort cuts the traffic |
| Rollback gate | `birservice_controller.go:189-213, 502-510, 559-864`, `slo_rollback.go` | annotations `healthy-tag`, `rolled-back-tag` on the main Deployment | stands down for a canary and a stepping ramp; swaps the image at the next pass | a tag is quarantined only if another is known to work; the two mechanisms do not undo each other |
| Stable pin, manual canary | `syncStableTag`, `canary.go` | `status.stableTag`, the canary Deployment and Service | shares the pin and the route's weight with the ramp | one owner of the pin and of the split at a time |
| Reconcile pass | `Reconcile`, `reconcileDeployment` | none of its own | composes all of the above in a fixed order of API calls | any prefix of a pass leaves a state from which the next one continues |
| Build flow | `reconcileBuild`, `webhook/github.go`, `injector/github.go` | `status.buildStatus/buildTag/buildImage/lastRebuild`, the rebuild annotation, Kaniko Jobs | two webhooks write the same status and Deployments as the controller | the newest build is delivered, once |
| HTTPRoute and pools | `reconcileHTTPRoute`, `buildHTTPRouteRules`, `resolveRouteBackends`, `reconcilePoolService`, `deleteOwnedService` | the HTTPRoutes; pool, member and canary Services and who controls each | several BirServices share one pool; its primary owns the pool's Service and writes the routes, naming the other members' Services | weights keep the declared proportions; no backend without a Service; nobody loses a Service to another's pass |
| Namespace injection, waypoint | `namespace_istio.go` | the namespace's labels, the waypoint Gateway and its options | shared by every service of a namespace, written by whoever passes | stands just while some service needs it, with room for all |
| Autoscaling, disruption budgets | `reconcileHPA`, `hpaMetrics`, `reconcilePDB`, `reconcileAdapterConfig` | replica count, HPA, PDB; a ConfigMap and an adapter shared by all services | the HPA controller writes the same replica count; a ramp's fallback size | one writer of the count; a budget that binds; every window served |
| Mesh policies, pod template, registry inspection, injector, credentials, metrics, command lines | the remaining files | none | | rendering and I/O |

What is hard in it: passes cut short between two writes; builds, edits and commands that arrive in
any phase; two mechanisms (ramp and crash gate) that decide the same image from different evidence;
a pin shared by two features; pods that come up, crash and recover on their own; a monitoring system
that may answer, be silent, or answer late; objects that several services share, written by whoever
passes while the others are created, edited or deleted. Every place where this bites is listed, with its line and
the properties that watch it, under `hazards` in `PROJECT.json`.

## Modules

| Module | Models |
|---|---|
| `Service` | The API server's view of one service and the environment that changes it |
| `Ramp` | `progressive_rollout.go`: `planProgressiveRollout`, `consumeRolloutAction`, `reconcileNextRevision`, `advanceRolloutStep`, `deleteNextRevision`; and `syncStableTag` |
| `RollbackGate` | the choice of the effective tag, the write of the main Deployment and of the route, `evaluateAutoRollback` |
| `Reconcile` | a pass as a sequence of those actions, cut anywhere; fairness; the properties |
| `RampLifecycle` | the abstract specification of a progressive rollout |
| `MCReconcile` | constants for TLC |
| `ReconcileProofs` | the theorems about `Reconcile` |
| `BuildFlow` | `reconcileBuild` with its Kaniko Jobs, `webhook/github.go`, and what both make of the Deployments |
| `MCBuildFlow` | constants for TLC |
| `BuildFlowProofs` | the theorems about `BuildFlow` |
| `VerdictProofs` | one more theorem about `Reconcile`: a condemned version stays off the instance |
| `PromotionProofs` | theorems about `Reconcile`'s steps: when the gate may judge, how the instance moves, when a share is raised |
| `Sizes` | the numbers derived from a spec: windows, steps, durations, the size of the temporary Deployment, budgets, the waypoint's ceiling |
| `SizesProofs` | the theorems about `Sizes` |
| `Namespace` | the BirServices of a namespace, all they share or own, and their environment |
| `Waypoint`, `Sizing`, `Pools` | the parts of a pass that concern the mesh, the number of pods, and the Services and routes |
| `NamespacePass` | the passes over all services of a namespace; fairness; the properties |
| `MCNamespace` | constants for TLC |
| `NamespaceProofs` | the theorems about `NamespacePass`: types, routes, owners |
| `RestProofs` | two more: a pass delivers, and what is delivered is left alone |

`Service ← Ramp ← RollbackGate ← Reconcile` and `Sizes ← Namespace ← (Waypoint, Sizing ← Pools) ←
NamespacePass` extend each other in that order: the first chain follows one service through its versions, the second
several services through their topology. They meet in two places. `RampTurn` of `Pools` gives the ramp's
share any value the steps allow, as `Reconcile` lets it; and `StepsClimb` of `SizesProofs` proves of
every spec what `Service` assumes of `Steps`.

## One service and its versions

**State.** `build` is the tag of the resolved image (`status.buildTag` in the pipeline flow,
`spec.image` otherwise). `mode` stands for `spec.rollout.strategy` and `spec.canary.enabled`.
`stable` and `rollout` are the two status fields. `main` is the instance: the tag of the pod
template's `build-tag` label, the gate's two annotations, the tags that have Ready pods, and how the
rolling update is doing. The label is written by the operator only, and it is what the ramp and the
gate read; the container image beside it follows it except for the build-complete webhook's direct patch,
which is in `BuildFlow`. `next` is the temporary pair, `route` the
percentage the HTTPRoute gives it, `soak` how long ago the current step began, against the two step
durations. `pc`, `image`, `cmd`, `weight` and `then` are the local variables of the running pass.

**Actions.** A pass is the path
`idle → plan → (start | forget) → deploy → command → (apply) → revision → … → route → gate → idle`.
Each action ends with at most one write to the API server, in the order of the code, so `Abandon` (an
error, an early return, the operator's death) can cut a pass between any two writes. Decisions that
the code takes without a write are folded into the next write. The branches of
`planProgressiveRollout` are the `Plan…` actions, those of `reconcileNextRevision` and
`advanceRolloutStep` the ones from `ReleasePair` to `CommitRolloutAdvance`, and the cases of
`evaluateAutoRollback` the ones from `GateStandsDown` to `KeepWatching`. `map` in `PROJECT.json`
gives the lines of each.

**Environment.** Builds, edits, commands, failures and faults may happen at any time, as often as
`Limit` allows. A push or edit *during* a pass has the same effect as one right after it, because the
object is read once, at the start; a command does not, because its annotation is deleted from a fresh
read, so `GiveCommand` may happen in the middle of a pass. A Prometheus query may answer anything
the configuration allows: nothing, no breach, a breach.

**Abstractions.** Tags are numbers in the order they were first built. `Pipeline = TRUE` is a
pipeline that only ever adds newer tags; `FALSE` lets the image go back to an older one. Replica
counts are abstracted to "as many Ready pods as asked for", and growing the temporary Deployment may
make it short of them. The pods of one tag in the instance share their fate. Reads are current: the
informer cache's delay is not modelled.

## The build flow

`BuildFlow` is the same operator seen from another side: where the tag comes from that `Reconcile`
takes as given. `status` holds `buildStatus` (the two error texts that `reconcileDeployment` writes
into it are `"Error"`), `buildTag` and `lastRebuild`; `spec` holds `spec.tag` and `spec.imageTag`;
`asked` is the rebuild annotation. `deps` has, for the main and the temporary Deployment, the
`build-tag` label and the container image apart, because the webhook patches only the second. `jobs`
and `registry` are the cluster's; `calls` are build-complete requests on their way (a request may
be lost, repeated or overtaken) and `patches` the Deployments that a handler has listed and not yet
patched. `image` and `read` are what a pass remembers; a Job may be seen in the state it had when the pass
began, as the informer's cache does.

A pass is `StartPass → (DeleteOldBuildJobs) → CreateBuildJob | JobDone | JobFailed | JobRunning →
UpdateBuildStatus → PlanRollout → WriteMain → WriteNext`; `BlockDeploy` is a node pool that cannot be
resolved or a malformed HPA window, and `Abandon` any other error. A handler runs between any two of these.
Of the ramp only what decides a tag is here: `ramp` is the pin and the tag on trial, and a
trial can only pass (`RampPasses`); the rest is in `Ramp`. Deleting a Job stops it; several services
of one repository, ports and registry secrets are left out.

## The services of a namespace

`Namespace` is a third view: several BirServices, each with a spec that a human may create, edit or delete.
`services` says for each Service who controls it and whether it sends its callers through the waypoint;
`routes` what the gateway's and the mesh's HTTPRoute of each service name, with which weights; `pods`, `hpa`,
`pdb` and `canary` are the workload's objects; `ambient`, `options` and `gateway` the mesh
objects of the namespace; `rules` and `loaded` the adapter's ConfigMap and what the adapter that runs has read.
`seen`, `ready` and `todo` are what a pass remembers: the spec as it read it, the members whose Services
it found, the routes it has yet to write.

A pass is `StartPass → (LabelNamespace) → UpsertOptions → UpsertGateway (or DeleteOptions → DeleteGateway) →
ReconcileDeployment → (PoolService) → MemberService → (LegacyService) → (ReconcileAdapterConfig →
RolloutAdapter) → ReconcileHPA → ReconcilePDB → (ReconcileCanary → CanaryService) → RampTurn →
ResolveRouteBackends → PruneRoutes → WriteRoute …`, one API write each, so that `Abandon` may cut it anywhere; a
`SetControllerReference` that fails ends it too. One pass runs at a time, as the controller has one worker, but specs
change, the garbage collector removes and autoscalers scale between any two of its steps, also for the service
it is about. Steps that would do nothing are skipped.

*Abstractions.* Deletion is in the foreground, the case the code has a guard for: the object goes after
what it owned. At most one live service is a pool's primary, as the chart arranges; two at a time, for the
moment of an edit of both objects, are left out. One gateway route stands for all route entries. Every
Service here was made by the operator (the `managed-by` label is always there). The list of siblings and the write that
follows from it are one step. The ramp is reduced to the share it has reached. An autoscaler
moves the count to the nearer bound when it is outside; what it does between the bounds concerns no property.
Rules of the adapter are those of this namespace's services.

## The abstract specification

`RampLifecycle` says what a user of progressive delivery may count on, in terms of a trial (phase,
version, step) and a share of requests: the version climbs one step at a time; holding, promoting
and aborting happen only where they may; and the share is nothing or exactly what the current step allows.
`Reconcile` implements it under the mapping `trial <- status.rollout`, `share <- route`
(`RampKeepsPromise`), checked by TLC in two runs (without
and with human commands, edits and older images) and proved for every value of the constants.

## Runs

| Run | Question | Bounds |
|---|---|---|
| `pipeline` | Do the safety properties survive crash loops, SLO breaches and cut passes? | 4 tags (3 builds: enough for a ramp, its restart by a newer build, and a fix after an abort), 2 steps (a first and a last one), 2 failures, 2 faults |
| `modes` | Under fairness, with the strategy edited, images that go back and humans who promote or abort at any moment of a pass (a mistyped command is covered by the proofs): the ramp's order, one owner of the split, one judge of a version at a time, abort cuts traffic, stand-down, delivery | 2 tags that may go back and forth, 1 edit among three modes, 1 command, 1 fault: any of them beside any other |
| `dangling`, `late_abort`, `revert`, `rejudged`, `credit` | Does the code do what its comments say? No: see findings | the smallest budget that shows it |
| `build` | Under fairness, with Jobs that fail, calls that are lost, repeated or overtaken, pins and edits: is what is deployed pushed, is the webhook's patch put right, is a recorded build served? | 2 refs, 2 commits, any 3 events out of 1 push, 2 workflow builds, 1 edit and 1 fault (two builds, so that one can overtake the other or end up beside a fault or an edit) |
| `patched`, `overwritten` | Does the code do what its comments say? No: see findings | the smallest budget that shows it |
| `namespace` | Under fairness, with two services that form a weighted pool in the mesh, stand alone with a canary and autoscalers, or take the pool over: who owns which Service, what routes name, what waypoint, sizes, budgets and metrics settle on | 2 services with 2 and 3 specs, every initial combination of them (there or not), then any 2 events out of a creation, an edit, a deletion, a move of the ramp and a fault |
| `handover` | Is a pool passed on from a primary that lives on? No: see findings | 2 edits |

A cut loses only the locals of a pass, and every cut point is explored from every reachable state, so one fault is
enough for most of it. Two matter for what a write means that two passes failed to make. The first form of
`WeightNeedsPair` (a share is only ever raised for a pair that stands) holds with one fault and falls with two: the
first cuts the pass that records the promotion before it writes the last step's share, the second the clean-up after
the temporary Service is deleted; when the instance's pods fail right then, the promotion counts as unfinished again
and that share is written for a Service that is gone. Two failures allow a promotion that crashes and a pod that fails
afterwards. Two steps distinguish first, next and last. Two services are a pool's primary and one other member, or two
pools; every shared object of the code is read through "some other service" or a count, whose floor of 4 two services
reach and three would pass (`WaypointMax` is compared in every state). Two events are enough for an edit that
overtakes a running pass, a deletion in the middle of one, a creation under the name of a deleted service, and a fault
beside any of them. The proofs remove the bounds for the properties they cover.

**Properties.** `TrialOffInstance`: while a version is on trial the instance never carries it. `TrialIsPinned`: a
trial always has an older version pinned. `CondemnedOffInstance`: a version the ramp condemned is not on the instance
(without human commands: see `late_abort`). `QuarantineHasFallback`: what the gate condemned has a replacement on
record. `MovesOnlyByPromotion`: the instance changes version only by promotion, to the pin or to the healthy tag.
`WeightNeedsPair`: a share is raised only for a pair that stands for the ramp's own tag, or by a promotion, whose
version the instance then has if no human interfered (why the exception: see above, and the findings about the ramp).
`OneJudge`: the gate condemns and acquits only while neither a ramp nor a canary is judged. `OneSplitOwner`: no share
for the temporary pair outside the progressive strategy. `RampKeepsPromise`: refinement of `RampLifecycle`.
`AbortCutsTraffic`, `StandsDown`, `Delivered`: what must eventually happen. `DeployedIsPushed`: no Deployment carries
an image nobody pushed. `PatchIsUndone`: an image the webhook patched under a pin or a ramp does not outlast the
loop's next pass, unless the loop has stopped deploying. `BuildIsServed`: a build on record reaches the instance or
its trial, unless replaced. `CorrectedTagIsBuilt`: after a failed build, another `spec.tag` is built.
`ForeignServicesStay`: a pass touches no Service of another living service. `WrittenRouteResolves`: until something is
deleted, a route is only written for Services that are there. `KeepsProportions`: a weighted route keeps the members'
declared proportions, ramp or not. `RestLasts`: once every object of the namespace is what the specs ask for, and the
running pass has read them, no pass of any service, complete or cut, changes an object until a spec, a life or a ramp
changes: no two services undo each other's writes. `PassDelivers`: as long as nothing is deleted, one pass that runs
to its end leaves every object of its service as the spec it read asks, but the replica count, which an autoscaler on
its way out may still move. `DeletionCompletes`: a deleted service goes, whatever passes do. `PrimaryOwnsAddress`,
`MembersAddressed`, `RoutesSettle`, `WaypointSettles`, `SizeSettles`, `BudgetBinds`, `MetricsServed`: once specs stop
changing, the pool's Service belongs to its primary; weighted members and no others have their own; routes are what
spec and existing members say; the waypoint is there just when needed and large enough; the count is what spec or
autoscaler say; no budget lets all pods go; every window scaled on is served.

**Fairness.** `WF(Pass)`: the work queue requeues a failed pass with backoff and a watch event or a
`RequeueAfter` starts the next one, so a pass that can go on does. `WF(Tick)`: time passes.
`WF` of pods becoming Ready and of the rolling update completing: Kubernetes retries. Failures,
builds, humans and answers of Prometheus have none; `Delivered` therefore excuses a ramp that is
held because a signal could still come.

In `NamespacePass`, `WF(Pass)` and `WF(Kubernetes)` are the same, and `SF(StartPass(n))` for each service is the queue:
it is first in, first out, and a change, a failed pass, a requeue and the periodic resync each put a
service into it, so none is passed over for ever. Strong fairness is needed because a pass over
another service disables it again and again. Humans and faults have none.

**Deadlock** is checked in the runs of one service: a pass can always begin. In `namespace` and `handover` it is not,
because a namespace whose services are all deleted has nothing left to do.

## Findings

Each of the eight violations is a comment of the source that the code does not keep.

* `dangling`: after a promotion (and after an abort by hand) the temporary Service is deleted before
  the HTTPRoute stops sending it its share; a failed call in between leaves it so until a later pass succeeds.
* `late_abort`: an abort during promotion leaves the instance on the aborted version for good: the
  pin is gone by then, and nothing condemns the tag for the gate.
* `revert`: when the desired image returns to what the instance runs while the ramp is promoting,
  the ramp is neither restarted nor cleared; the temporary pair keeps its share of requests for the superseded
  version indefinitely.
* `rejudged`: a version that the crash gate quarantined just after its promotion is ramped again.
* `credit`: after a restart by a newer build, the Ready pods of the old version count for the new one.
* `patched`: the build-complete webhook patches the image of every Deployment of the app, so an
  instance held by a ramp starts rolling onto the version on trial until a pass writes it back.
* `overwritten`: `spec.imageTag` set while `buildStatus` is not `Succeeded` makes the operator build
  the head of the branch and push it over the pinned commit's image.
* `handover`: when the catalog makes another member the pool's primary and the old one stays, the old one deletes its
  routes and keeps control of the pool's Service; every pass of the new one fails there, before it has written a route.

The model also shows behaviour that no run reports. About the ramp:

* A human who promotes on the first step, before the temporary pair was made, has the step's recorded weight written to the
  HTTPRoute for a Service that does not exist, until the instance has rolled out: the readiness guard
  (progressive_rollout.go:663-672) is not on that path (:626). `WeightNeedsPair` therefore excepts a human's promotion.
* The annotation of a command is deleted from a fresh read without looking at what it holds (:695-704); an abort given while a
  pass consumes a promote is deleted with it, and a command whose status write fails is lost.

About the build flow: after the first success, `reconcileBuild` never reaches
`needsRebuild`, so neither the push webhook's annotation nor a change of `spec.tag` builds anything,
although its own comment says "It detects tag changes and rebuild annotations to trigger new builds".
A pass that began before a build-complete call can record its older build over the newer one, and
a rebuild asked for while a build fails counts as served by it.

About the services of a namespace:

* A service that is not in a pool of its own name deletes `<name>-svc` in every pass (birservice_controller.go:392), and
  if another service is primary of a pool named like it, that is the pool's address. It is the case `ForeignServicesSafe` excludes by
  its assumption (`NamesakesStay`), and the run by `HandsOver`.
* `deleteCanaryResources` and `deleteNextRevision` delete by name without looking at the owner: a service `x-canary` or `x-next` collides
  with the temporary objects of `x`.
* A member that loses its weight, or a canary that is disabled, loses its Service earlier in the pass (:382, canary.go:177) than
  the route stops naming it (:452); `WrittenRouteResolves` is about routes as they are written, `RoutesSettle` about the end.
* With both `spec.replicas` and `spec.hpa`, the autoscaler is deleted and the count is not written either: the Deployment stays as
  it is. birservice_types.go:35 says the autoscaler wins, crd-reference.md:51 that the count does. `SizeSettles` excepts such a spec.
* With `spec.replicas` at 0 the autoscaler that replaces it later never scales: Kubernetes takes 0 for "off".
* The waypoint is not released when the last service that needs it is deleted and no service is left to pass
  (the `DeletionTimestamp` test of namespace_istio.go:154 is never reached), and its ceiling is only adjusted when a sibling passes.
* The waypoint's options are deleted before the Gateway that names them (namespace_istio.go:321-326).
* A restart that a newly labelled namespace calls for is lost when the pass is cut between :215 and :472.
* `resolveCanaryImage` cuts the image at its first colon, which is the port's in `host:5000/app:tag`.

## Proofs

`ReconcileProofs` proves, for all numbers of tags, all step lists, modes, commands and limits
allowed by the assumptions of `Service`:

| Theorem | Says |
|---|---|
| `TypeCorrect` | `Spec => []TypeOK` |
| `QuarantineSafe` | `Spec => []QuarantineHasFallback` |
| `SplitHasOneOwner` | `Spec => OneSplitOwner` |
| `ImplementsLifecycle` | `Spec => RampKeepsPromise` |
| `InstanceHoldsStill` | `Spec => [](Forward => TrialOffInstance)` |
| `TrialHasFallback` | `Spec => [](Forward => TrialIsPinned)` |

`Forward` is the setting these two are about: a pipeline that only moves forward and a service that stays
progressive (a human may still promote or abort). With tags that go back, or a strategy edited in
the middle, a pin may be newer than the trial, or be dropped by the stand-down before the ramp is.

*Argument.* `TypeOK` and the rest are not inductive alone. `RInv` adds what a pass knows in the
middle of its run: which labels are only reached with a ramp in flight or promoting, that the weight
it carries is the one of the current step or zero, that the ramp's recorded weight is the one of
its step (`RampShape`, `PassKnows`), that versions only move forward when the pipeline does
(`OnlyForward`), and that a pass that stands down carries no weight (`StandingDown`). From it follow the first
four theorems: every action leaves `RInv` true (`PlanRInv`, `RampRInv`, `GateRInv`,
`EnvironmentRInv`), and each is a step of the abstract specification or a stutter (`PlanRefines`, `RampRefines`,
`RouteRefines`; the gate and the environment stutter by `GateFrame`, `EnvironmentFrame`). The
last two need `TrialBehind`: while a tag is on trial, the pin, the instance's tag, the healthy tag and
every tag with Ready pods are all strictly older. A restart by a newer build only widens the gap,
the write of the instance can only choose among older tags, and a promotion ends the trial before the
instance moves. Both invariants were checked with TLC before they were proved.

`BuildFlowProofs` proves, for all refs, commits and numbers of events:

| Theorem | Says |
|---|---|
| `BuildTypeCorrect` | `Spec => []TypeOK` |
| `OnlyPushedIsDeployed` | `Spec => []DeployedIsPushed` |

The invariant is `BInv`: whatever is on record (a pin, a successful build, the ramp's two tags), on its
way (calls, patches), built, in the hand of a pass or deployed is in the registry. It is needed because a
Deployment's next image can come from any of these. It also rests on a modelling assumption: nothing
removes an image from the registry, and only a pushed commit is pinned.

`VerdictProofs` proves `Spec => [](Unattended => CondemnedOffInstance)`. `Unattended` is `Forward` without human
commands, which `late_abort` shows are to be excluded. A condemned version stays off the instance because
there is something to serve instead for as long as the verdict stands: the invariant adds (`VerdictStands`) that either the instance is
pinned and neither the gate's healthy tag nor the pods it may fall back to are of the condemned version (`Replaced`), or the gate has
quarantined it with another on record; and that a ramp for another tag than the newest is restarted before a pass writes anything.

`PromotionProofs` proves three properties of single steps:

| Theorem | Says |
|---|---|
| `GateJudgesAlone` | `Spec => OneJudge`, in every mode |
| `PromotionOnly` | `Spec => MovesOnlyByPromotion`, assuming `Forward` |
| `ShareNeedsPair` | `Spec => WeightNeedsPair`, in every mode, with any number of faults and commands |

Each is about what a pass decided some API calls before the step. For the first, `Judging`: a pass that will reach the
gate with an image deployed it when no ramp was in flight and no canary ran, and neither can begin before it ends. For
the second, `Promoted`: a pass only deploys the newest build without a pin when the build is what a promotion in
progress brings, or has come to the instance before. It needs the gate's verdict as well (`MInv`): what arrived may
have been condemned since. For the third, `PairKnown`: which halves of the pair a pass has made when it judges a step,
and that a promotion which finds its pair gone has its version on the instance. Humans are what the last needs
`Unattended` for; the theorem keeps the case of a human's promotion inside its statement and is about all modes.

`NamespaceProofs` proves, for all finite sets of services, all specs they may be given, and all budgets:

| Theorem | Says |
|---|---|
| `NamespaceTypeCorrect` | `Spec => []TypeOK` |
| `RoutesResolve` | `Spec => WrittenRouteResolves` |
| `ProportionsKept` | `Spec => KeepsProportions` |
| `ForeignServicesSafe` | `Spec => ForeignServicesStay`, assuming `NamesakesStay`: no service leaves a pool of its own name that another may lead |

The invariant is `Inv`: types; what each point of a pass knows (`PassKnows`: whom it is about, that the name it reclaims is not its
pool's, that the members found are in the split); and, until something is deleted, that every Service has a living
owner (`NothingCollected`) and that those the pass has already seen to exist (`AddressesMade`). The last is what a route
needs: the pass looked for the Services some calls before it names them, and nobody may have taken them away in between.
The proportions need only `PassKnows` and arithmetic (`SplitKeepsProportions`); that foreign Services stay needs that a name is only
reclaimed by the service that bears it.

`RestProofs` proves, under the assumptions of `Namespace` alone:

| Theorem | Says |
|---|---|
| `RestIsStable` | `Spec => RestLasts` |
| `OnePassDelivers` | `Spec => PassDelivers` |

`Settled` (all objects as asked) is not preserved alone: a pass that began before the last edit would still write the
old spec. `Current` adds what the running pass has read and where that has brought it; with it every step of a pass is
shown to write what is there already (`RestByWaypoint`, `RestBySizing`, `RestByAddresses`, `RestByRouting`), and the
garbage collector and the autoscaler to have nothing to do (`RestByEnvironment`). Delivery rests on `Progress`: at
each point of a pass, what the points before it wrote is still there. A step writes one Service and leaves the others
(`OneAddress`), and no two it writes have the same name; what humans, the garbage collector and autoscalers do in
between leaves what was written alone (`ProgressByEnvironment`). Together with the liveness properties of `namespace`,
which say of its parts that they are reached, the two are what level-triggered reconciliation promises.

`SizesProofs` proves of the arithmetic, for all specs: `TrialSizeBounded` (at least one temporary pod, at most as many
as the instance has), `TrialGrowsWithShare` (a larger share never gets fewer pods, which is why `Ramp` lets the
temporary Deployment grow only when the share does), `BalancedJustToHalf` (50% is exactly the share up to which they
carry no more per pod than the instance's), `ObservedPastWindow`, `SoakIsSound` (a defaulted soak outlasts the window
it is judged over; no step is given up before it has soaked), `StepsClimb`, `BudgetIsPartial`. They rest on
`CeilDivIsLeast`; durations and counts are integers here, and int32 overflow is out of reach of the values a cluster
has.

*Model-checked only.* Every invariant and action property that a passing run checks is proved; `MovesOnlyByPromotion`,
`TrialOffInstance`, `TrialIsPinned`, `CondemnedOffInstance` and `ForeignServicesStay` under the settings named above.
Not proved are the liveness properties (`AbortCutsTraffic`, `StandsDown`, `Delivered`, `PatchIsUndone`,
`BuildIsServed`, `CorrectedTagIsBuilt`, and those of `NamespacePass` from `DeletionCompletes` to `MetricsServed`):
liveness under fairness is out of the prover's reach.

## Plan

1. `Service`, `Ramp`, `RollbackGate`, `Reconcile`, `RampLifecycle` and their proofs: the core (done).
2. `BuildFlow` and its proofs (done).
3. `Sizes` and its proofs (done).
4. `Namespace`, `Waypoint`, `Sizing`, `Pools`, `NamespacePass` and their proofs (done).
5. `PromotionProofs` and `RestProofs` (done).
6. A refinement of `BuildFlow` against what a build promises; a variant of the pass with a stale informer cache; two primaries
   of one pool for the moment of an edit; several services built from one repository.

## Not modelled

The rendering of Kubernetes objects, HTTP and GitHub calls, registry inspection, metrics and the
command-line client: no state, or pure I/O. Mesh policies and the ServiceMonitor: one object each, written
from the spec and read by nobody here. The restart that a newly labelled namespace triggers, `status.canaryImage` and
`status.availableReplicas`: written, and never read by a decision. The arithmetic of an SLO verdict (ratios of what
Prometheus answers): the models let it answer anything. Staleness of the informer cache, except for Jobs.
