---------------------------- MODULE RampLifecycle ----------------------------
(***************************************************************************)
(* What a progressive rollout promises, with no API calls, pods or passes: *)
(* a version on trial climbs the steps one at a time, and the share of     *)
(* requests it is given is nothing or exactly what its step allows.  A     *)
(* verdict ends the trial of that version.                                 *)
(***************************************************************************)
EXTENDS Naturals, Sequences

CONSTANTS
  Versions,     \* the versions that can be put on trial
  Nobody,       \* not a version: who is on trial when nobody is
  Shares,       \* the share each step allows, in percent: a non-empty sequence
  Overrides,    \* whether humans may promote or abort
  Withdrawals   \* whether a trial may be dropped without a verdict

VARIABLES
  trial,   \* [phase, version, step]: the version on trial and how far it got
  share    \* the percentage of requests sent to the trial's own pods

NoTrial == [phase |-> "None", version |-> Nobody, step |-> 0]
Trial(v, i) == [phase |-> "Progressing", version |-> v, step |-> i]

Init == trial = NoTrial /\ share = 0

Become(t) == trial' = t /\ UNCHANGED share
Undecided == trial.phase \in {"Progressing", "Held"}

(* A version other than the one on trial takes its place, from the first     *)
(* step.                                                                     *)
Begin(v) == v # trial.version /\ Become(Trial(v, 0))

Advance ==
  /\ Undecided /\ trial.step + 1 < Len(Shares)
  /\ Become(Trial(trial.version, trial.step + 1))

(* Nothing is known about the step: stop climbing.                           *)
Hold == trial.phase = "Progressing" /\ Become([trial EXCEPT !.phase = "Held"])

(* The last step passed, or a human says so.                                 *)
Promote ==
  /\ trial # NoTrial
  /\ Overrides \/ (Undecided /\ trial.step + 1 = Len(Shares))
  /\ Become([trial EXCEPT !.phase = "Promoting"])

(* A breach, a promotion that failed, or a human says so.                    *)
Abort == trial # NoTrial /\ Become([trial EXCEPT !.phase = "RolledBack"])

(* The instance runs the version.                                            *)
Finish == trial.phase = "Promoting" /\ Become(NoTrial)

Withdraw == Withdrawals /\ Become(NoTrial)

Allowed ==
  IF Undecided \/ trial.phase = "Promoting" THEN {0, Shares[trial.step + 1]} ELSE {0}

Expose == share' \in Allowed /\ UNCHANGED trial

Next ==
  \/ \E v \in Versions : Begin(v)
  \/ Advance \/ Hold \/ Promote \/ Abort \/ Finish \/ Withdraw \/ Expose

Spec == Init /\ [][Next]_<<trial, share>>
=============================================================================
