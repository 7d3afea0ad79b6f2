---------------------------- MODULE RollbackGate ----------------------------
(***************************************************************************)
(* The auto-rollback gate of the instance: which tag the main Deployment   *)
(* is given, and how a failing tag is condemned.  Its state is two         *)
(* annotations on that Deployment, healthy and rolledBack.                 *)
(***************************************************************************)
EXTENDS Ramp

(* A canary or a stepping ramp judges its own version: the gate stands down. *)
AutoRollback == ~Canary /\ ~OwnsRollbackDecision

EffectiveTag(desired) ==
  IF AutoRollback /\ desired = main.rolledBack /\ main.healthy \notin {NoTag, desired}
  THEN main.healthy
  ELSE desired

(* The main Deployment is written; a new template starts a rolling update.   *)
WriteInstance ==
  /\ pc = "deploy" /\ pc' = "command"
  /\ LET tag == EffectiveTag(image)
     IN main' = IF tag = main.tag THEN main
                ELSE [main EXCEPT !.tag = tag, !.status = "rolling"]
  /\ image' = IF AutoRollback THEN image ELSE NoTag
  /\ UNCHANGED <<build, mode, command, stable, rollout, soak, next, route, spent,
                 cmd, weight, then>>

(* The HTTPRoute is written with the split the ramp returned.  Mutant: a     *)
(* zero weight is taken for "no change".                                     *)
WriteRouteUnlessZero ==
  /\ pc = "route" /\ pc' = "gate"
  /\ route' = (IF weight = 0 THEN route ELSE weight) /\ weight' = 0
  /\ UNCHANGED <<build, mode, command, stable, rollout, soak, main, next, spent,
                 image, cmd, then>>
WriteRoute ==
  /\ pc = "route" /\ pc' = "gate"
  /\ route' = weight /\ weight' = 0
  /\ UNCHANGED <<build, mode, command, stable, rollout, soak, main, next, spent,
                 image, cmd, then>>

-----------------------------------------------------------------------------
(* A tag to fall back to: the recorded one, or else the tag of pods that are *)
(* Ready right now (the newest of them; which that is depends on when pods   *)
(* were created).                                                            *)
(* Mutant: the failing tag itself is not excluded.                           *)
AnyFallback(desired) == IF main.healthy # NoTag THEN {main.healthy} ELSE main.ready
Fallbacks(desired) ==
  IF main.healthy # NoTag THEN {main.healthy} \ {desired} ELSE main.ready \ {desired}

QuarantineTag(desired) ==
  IF Fallbacks(desired) = {} THEN main' = main
  ELSE \E t \in Fallbacks(desired) :
         main' = [main EXCEPT !.healthy = t, !.rolledBack = desired]

(* Pods of the deployed tag crash and none of them is Ready.                 *)
Crashing == main.status = "crashed"
RolledOut == main.status \in {"complete", "flapping"}

GateStep ==
  /\ pc = "gate" /\ pc' = "idle" /\ image' = NoTag
  /\ UNCHANGED <<build, mode, command, stable, rollout, soak, next, route, spent,
                 cmd, weight, then>>

(* The gate is off, or the desired tag is quarantined already.               *)
GateStandsDown ==
  /\ GateStep /\ (image = NoTag \/ image # main.tag)
  /\ UNCHANGED main

GateJudges == image # NoTag /\ image = main.tag

CondemnCrash ==
  /\ GateStep /\ GateJudges /\ Crashing
  /\ QuarantineTag(image)

CondemnBreach ==
  /\ GateStep /\ GateJudges /\ RolledOut /\ SloMode = "enforce"
  /\ QuarantineTag(image)

(* Every replica available, none restarted, and the observation period is    *)
(* over (at once when there is no SLO to observe).                           *)
RecordHealthy ==
  /\ GateStep /\ GateJudges /\ main.status = "complete"
  /\ main' = [main EXCEPT !.healthy = image,
                          !.rolledBack = IF @ = image THEN NoTag ELSE @]

(* Still rolling out, restarting, or inside the observation period.          *)
KeepWatching ==
  /\ GateStep /\ GateJudges /\ ~Crashing
  /\ (main.status = "complete" => SloMode # "off")
  /\ UNCHANGED main

GatePass ==
  \/ WriteInstance \/ WriteRoute
  \/ GateStandsDown \/ CondemnCrash \/ CondemnBreach \/ RecordHealthy \/ KeepWatching
=============================================================================
