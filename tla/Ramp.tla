-------------------------------- MODULE Ramp --------------------------------
(***************************************************************************)
(* The progressive rollout of one service (progressive_rollout.go): the    *)
(* decision taken before the main Deployment is written, and the part of   *)
(* the pass that keeps the temporary revision in step with it.  Each       *)
(* action ends at one write to the API server, so a pass can be cut short  *)
(* between any two of them.  The parse error of stepStartedAt is left out: *)
(* the operator alone writes that field, always as RFC3339.                *)
(***************************************************************************)
EXTENDS Service

Canary == mode = "canary"

RampInFlight == rollout.phase \in {"Progressing", "Held"}

(* Mutant: an aborted ramp releases the image.                               *)
HoldsImageUntilVerdict == rollout.phase \in {"Progressing", "Held"}
HoldsImage == rollout.phase \in {"Progressing", "Held", "RolledBack"}

(* Mutant: a ramp on hold is not taken for a judge.                          *)
OwnsRollbackUnlessHeld == rollout.phase = "Progressing"
OwnsRollbackDecision == rollout.phase \in {"Progressing", "Held"}

RampingTag == IF build = stable THEN NoTag ELSE build

RunningInstanceTag == main.tag

SetRollout(st) == rollout' = st /\ UNCHANGED <<command, soak, main, next, route, cmd, then>>

(* The rollout is wanted: a canary that is enabled makes it stand down.      *)
(* Mutant: the canary is not looked at.                                      *)
WantedUnderCanary == mode \in {"progressive", "canary"}
Wanted == mode = "progressive"

(* The tag the pass will deploy: the pinned one while something else than    *)
(* the newest build owns the choice of version.  Mutant: only a canary's pin *)
(* is honoured.                                                              *)
DeployUnheld(holds, pin) ==
  /\ pc' = "deploy" /\ image' = IF pin # NoTag /\ Canary THEN pin ELSE build
  /\ UNCHANGED weight
Deploy(holds, pin) ==
  /\ pc' = "deploy"
  /\ image' = IF pin # NoTag /\ (Canary \/ holds) THEN pin ELSE build
  /\ UNCHANGED weight

-----------------------------------------------------------------------------
(* A pass reads the BirService, then settles who owns the stable pin: an     *)
(* enabled canary, a ramp that holds the image, or nobody.  The canary locks *)
(* status.buildTag, which only the pipeline sets.                            *)
(* Mutant: a pin without a canary is taken for a leftover.                   *)
SyncStableTagForCanary ==
  /\ pc = "idle" /\ pc' = "plan"
  /\ cmd' = command
  /\ stable' = IF Canary THEN stable ELSE NoTag
  /\ UNCHANGED <<build, mode, command, rollout, soak, main, next, route, spent,
                 image, weight, then>>
SyncStableTag ==
  /\ pc = "idle" /\ pc' = "plan"
  /\ cmd' = command
  /\ stable' = CASE Canary /\ stable = NoTag /\ Pipeline -> build
                 [] ~Canary /\ ~HoldsImage                -> NoTag
                 [] OTHER                                 -> stable
  /\ UNCHANGED <<build, mode, command, rollout, soak, main, next, route, spent,
                 image, weight, then>>

Plan == pc = "plan" /\ UNCHANGED <<build, mode, spent>>
Ramping == Plan /\ Wanted /\ RampingTag # NoTag
PlanOnly(pin) == stable' = pin /\ UNCHANGED <<command, rollout, soak, main, next, route, cmd, then>>

(* The ramp is not wanted: drop the pin unless the canary owns it, then the  *)
(* ramp state.  Mutant: nothing is cleared when there is no pin to drop.     *)
PlanStandDownPinned ==
  /\ Plan /\ ~Wanted
  /\ IF stable = NoTag THEN PlanOnly(NoTag) /\ Deploy(FALSE, NoTag)
     ELSE /\ PlanOnly(IF Canary THEN stable ELSE NoTag)
          /\ pc' = "forget" /\ UNCHANGED <<image, weight>>
PlanStandDown ==
  /\ Plan /\ ~Wanted
  /\ PlanOnly(IF Canary THEN stable ELSE NoTag)
  /\ pc' = "forget" /\ UNCHANGED <<image, weight>>

(* The instance is pinned to the very tag that is desired.                   *)
PlanNothingToRamp ==
  /\ Plan /\ Wanted /\ RampingTag = NoTag
  /\ PlanOnly(IF rollout.phase = "Progressing" THEN stable ELSE NoTag)
  /\ pc' = "forget" /\ UNCHANGED <<image, weight>>

(* A verdict on this tag stands: stay pinned after an abort, unpin to        *)
(* promote.                                                                  *)
PlanKeepVerdict ==
  /\ Ramping /\ rollout.tag = RampingTag
  /\ \/ rollout.phase = "RolledBack" /\ PlanOnly(stable) /\ Deploy(TRUE, stable)
     \/ rollout.phase = "Promoting" /\ PlanOnly(NoTag) /\ Deploy(FALSE, NoTag)

PlanKeepRamping ==
  /\ Ramping /\ rollout.tag = RampingTag
  /\ RampInFlight
  /\ PlanOnly(stable) /\ Deploy(HoldsImage, stable)

(* A tag without a ramp of its own: pin the instance to what it runs today,  *)
(* unless it is pinned already, runs the tag, or runs nothing.               *)
PlanPin ==
  /\ Ramping /\ rollout.tag # RampingTag
  /\ stable = NoTag
  /\ IF RunningInstanceTag \in {RampingTag, NoTag}
       THEN PlanOnly(NoTag) /\ Deploy(FALSE, NoTag)
       ELSE PlanOnly(RunningInstanceTag) /\ pc' = "start" /\ UNCHANGED <<image, weight>>

RampFrom(tag) == [phase |-> "Progressing", tag |-> tag, step |-> 0, weight |-> Steps[1]]

StartRamp ==
  /\ \/ pc = "start"
     \/ Ramping /\ stable # NoTag /\ rollout.tag # RampingTag
  /\ rollout' = RampFrom(RampingTag) /\ soak' = "young"
  /\ Deploy(TRUE, stable)
  /\ UNCHANGED <<build, mode, command, stable, main, next, route, spent, cmd, then>>

(* clearRolloutState, second write.                                          *)
ForgetRamp ==
  /\ pc = "forget"
  /\ SetRollout(NoRamp) /\ Deploy(FALSE, stable)
  /\ UNCHANGED <<build, mode, stable, spent>>

-----------------------------------------------------------------------------
(* consumeRolloutAction deletes the annotation it read, whatever it says by  *)
(* now, and then writes what the command asks for.                           *)
ConsumeCommand ==
  /\ pc = "command"
  /\ IF cmd = "none" \/ rollout = NoRamp
       THEN pc' = "revision" /\ cmd' = "none" /\ UNCHANGED command
       ELSE pc' = "apply" /\ command' = "none" /\ UNCHANGED cmd
  /\ UNCHANGED <<build, mode, stable, rollout, soak, main, next, route, spent,
                 image, weight, then>>

RolledBack(st) == [st EXCEPT !.phase = "RolledBack", !.weight = 0]
Commanded(st) ==
  CASE cmd = "promote" -> [st EXCEPT !.phase = "Promoting"]
    [] cmd = "abort"   -> RolledBack(st)
    [] OTHER           -> st

ApplyCommand ==
  /\ pc = "apply" /\ pc' = "revision"
  /\ rollout' = Commanded(rollout) /\ cmd' = "none"
  /\ UNCHANGED <<build, mode, command, stable, soak, main, next, route, spent,
                 image, weight, then>>

-----------------------------------------------------------------------------
MainRolloutComplete(tag) == main.tag = tag /\ main.status \in {"complete", "flapping"}
TagWasQuarantined(tag) == tag # NoTag /\ main.rolledBack = tag
NextRevisionReady == next.ready # NoTag

Revision(label) ==
  /\ pc' = label
  /\ UNCHANGED <<build, mode, command, stable, route, main, spent, image, cmd>>
ToRoute(w) == weight' = w /\ Revision("route") /\ UNCHANGED <<next, then>>

(* No ramp needs the temporary pair.                                         *)
ReleasePair ==
  /\ pc = "revision" /\ rollout.phase \in {"None", "RolledBack"}
  /\ Revision("dropsvc") /\ UNCHANGED <<rollout, soak, next, weight, then>>

(* Promotion waits for the instance's own rolling update, which the          *)
(* crash-loop gate may have reverted.                                        *)
AwaitPromotion ==
  /\ pc = "revision" /\ rollout.phase = "Promoting"
  /\ UNCHANGED <<rollout, soak>>
  /\ CASE TagWasQuarantined(rollout.tag) ->
            Revision("dropsvc") /\ then' = "revert" /\ UNCHANGED <<next, weight>>
       [] ~TagWasQuarantined(rollout.tag) /\ MainRolloutComplete(rollout.tag) ->
            Revision("dropsvc") /\ then' = "done" /\ UNCHANGED <<next, weight>>
       [] OTHER -> ToRoute(rollout.weight)

(* The Deployment is sized for the step's weight: growing it may leave it    *)
(* short of Ready pods for a while.  Mutant: a Deployment that is there      *)
(* already keeps its template.                                               *)
UpsertNextRevisionOnce ==
  /\ pc = "revision" /\ RampInFlight
  /\ next' = [next EXCEPT !.dep = IF @ = NoTag THEN rollout.tag ELSE @,
                          !.sized = rollout.weight]
  /\ Revision("service") /\ UNCHANGED <<rollout, soak, weight, then>>
UpsertNextRevision ==
  /\ pc = "revision" /\ RampInFlight
  /\ \E ready \in {next.ready, IF next.sized < rollout.weight THEN NoTag ELSE next.ready} :
       next' = [next EXCEPT !.dep = rollout.tag, !.ready = ready, !.sized = rollout.weight]
  /\ Revision("service") /\ UNCHANGED <<rollout, soak, weight, then>>

UpsertNextRevisionService ==
  /\ pc = "service"
  /\ next' = [next EXCEPT !.svc = TRUE]
  /\ Revision("judge") /\ UNCHANGED <<rollout, soak, weight, then>>

(* What a Prometheus query can answer: nothing, no breach, a breach.         *)
Verdicts == IF SloMode = "off" THEN {"none"} ELSE {"none", "ok", "breach"}

SloAnalysisPossible == SloMode # "off"

HoldUntilReady ==
  /\ pc = "judge" /\ ~NextRevisionReady
  /\ ToRoute(0) /\ UNCHANGED <<rollout, soak>>

Judge == pc = "judge" /\ NextRevisionReady
SoakDone == soak # "young"

KeepSoaking ==
  /\ Judge /\ ~SoakDone
  /\ ToRoute(rollout.weight) /\ UNCHANGED <<rollout, soak>>

AbortOnBreach ==
  /\ Judge /\ SoakDone /\ RampEnforces /\ "breach" \in Verdicts
  /\ rollout' = RolledBack(rollout)
  /\ ToRoute(0) /\ UNCHANGED soak

(* No signal though there could be one: wait, and give up at maxStepDuration *)
(* by holding the weight where it is.                                        *)
AwaitSignal ==
  /\ Judge /\ SoakDone /\ SloAnalysisPossible
  /\ rollout' = IF soak = "over" THEN [rollout EXCEPT !.phase = "Held"] ELSE rollout
  /\ ToRoute(rollout.weight) /\ UNCHANGED soak

(* Mutants: the last step is skipped; the ramp ends at the last step without *)
(* handing over to promotion; promotion is recorded as 100%.                 *)
LastStepEarly(st) == st.step + 2 >= Len(Steps)
LastStep(st) == st.step + 1 >= Len(Steps)
AdvancedCapped(st) ==
  IF LastStep(st) THEN st
  ELSE [st EXCEPT !.phase = "Progressing", !.step = @ + 1, !.weight = Steps[st.step + 2]]
AdvancedToAll(st) ==
  IF LastStep(st) THEN [st EXCEPT !.phase = "Promoting", !.weight = 100]
  ELSE [st EXCEPT !.phase = "Progressing", !.step = @ + 1, !.weight = Steps[st.step + 2]]
Advanced(st) ==
  IF LastStep(st) THEN [st EXCEPT !.phase = "Promoting"]
  ELSE [st EXCEPT !.phase = "Progressing", !.step = @ + 1, !.weight = Steps[st.step + 2]]

(* The step passed, is only reported on, or can never be judged.             *)
CommitRolloutAdvance ==
  /\ Judge /\ SoakDone
  /\ \E v \in Verdicts :
       \/ v = "ok" \/ (v = "breach" /\ ~RampEnforces) \/ (v = "none" /\ ~SloAnalysisPossible)
  /\ rollout' = Advanced(rollout)
  /\ soak' = IF LastStep(rollout) THEN soak ELSE "young"
  /\ ToRoute(rollout'.weight)

-----------------------------------------------------------------------------
(* deleteNextRevision: the Service first, then the Deployment.  What made    *)
(* the pass delete them is recorded after both are gone.                     *)
DropService ==
  /\ pc = "dropsvc"
  /\ next' = [next EXCEPT !.svc = FALSE]
  /\ Revision("dropdep") /\ UNCHANGED <<rollout, soak, weight, then>>

DropDeployment ==
  /\ pc = "dropdep"
  /\ next' = [NoPair EXCEPT !.svc = next.svc]
  /\ Revision(IF then = "none" THEN "route" ELSE "settle")
  /\ UNCHANGED <<rollout, soak, weight, then>>

Settled(st) == IF then = "revert" THEN RolledBack(st) ELSE NoRamp
SettlePromotion ==
  /\ pc = "settle"
  /\ rollout' = Settled(rollout)
  /\ then' = "none" /\ Revision("route") /\ UNCHANGED <<soak, next, weight>>

RampStep ==
  \/ SyncStableTag \/ PlanStandDown \/ PlanNothingToRamp \/ PlanKeepVerdict
  \/ PlanKeepRamping \/ PlanPin \/ StartRamp \/ ForgetRamp
  \/ ConsumeCommand \/ ApplyCommand
  \/ ReleasePair \/ AwaitPromotion \/ UpsertNextRevision \/ UpsertNextRevisionService
  \/ HoldUntilReady \/ KeepSoaking \/ AbortOnBreach \/ AwaitSignal \/ CommitRolloutAdvance
  \/ DropService \/ DropDeployment \/ SettlePromotion
=============================================================================
