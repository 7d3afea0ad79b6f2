-------------------------------- MODULE Sizes --------------------------------
(***************************************************************************)
(* The numbers the operator derives from a spec: how long a step soaks and *)
(* how many pods serve it, how far a disruption may go, how much a         *)
(* namespace's waypoint may grow.  Durations are in seconds; a duration    *)
(* that is absent or malformed is 0, a count that is absent is Unset.      *)
(***************************************************************************)
EXTENDS Integers, Sequences

Unset == -1

(* The quotient rounded up, as math.Ceil rounds it: the float64 quotient of  *)
(* such numbers never rounds up to an integer it is not.                     *)
CeilDiv(a, b) == (a + b - 1) \div b

-----------------------------------------------------------------------------
(* The window an SLI is computed over, and how long a version is watched     *)
(* before it may become the version to fall back to.                         *)
MinSLOWindow == 60
DefaultSLOWindow == 120
SLOGracePeriod == 30

SLOWindow(declared) ==
  IF declared >= MinSLOWindow THEN declared ELSE DefaultSLOWindow
ObservationPeriod(window) ==
  SLOGracePeriod + (IF window <= 0 THEN MinSLOWindow ELSE window)

-----------------------------------------------------------------------------
(* The ramp's timing and steps.                                              *)
MinStepDuration == 120
DefaultMaxStepDuration == 600
DefaultSteps == <<5, 25, 50>>
MaxBalancedStep == 50

StepDurationFor(window) ==
  IF 2 * window < MinStepDuration THEN MinStepDuration ELSE 2 * window

SanitizeSteps(in) ==
  IF /\ \A i \in DOMAIN in : in[i] \in 1..99
     /\ \A i, j \in DOMAIN in : i < j => in[i] < in[j]
  THEN in ELSE << >>

(* What a spec declares about its ramp: the SLO window in force, the steps,  *)
(* and the two durations.                                                    *)
Declaration == [window : Nat, steps : Seq(Int), stepDuration : Nat, maxStepDuration : Nat]

ResolvedSteps(d) ==
  IF SanitizeSteps(d.steps) # << >> THEN SanitizeSteps(d.steps) ELSE DefaultSteps
ResolvedWindow(d) == IF d.window > 0 THEN d.window ELSE MinStepDuration \div 2
ResolvedSoak(d) ==
  IF d.stepDuration > 0 THEN d.stepDuration ELSE StepDurationFor(ResolvedWindow(d))
ResolvedPatience(d) ==
  LET max == IF d.maxStepDuration > 0 THEN d.maxStepDuration ELSE DefaultMaxStepDuration
  IN  IF max < ResolvedSoak(d) THEN ResolvedSoak(d) ELSE max
DilutedWindow(d) == ResolvedSoak(d) <= ResolvedWindow(d)
UnderProvisioned(d) ==
  {i \in DOMAIN ResolvedSteps(d) : ResolvedSteps(d)[i] > MaxBalancedStep}

(* Pods for a share of weight percent beside stable pods.                    *)
NextRevisionReplicas(stable, weight) ==
  LET s == IF stable < 1 THEN 1 ELSE stable
      n == CeilDiv(s * weight, 100 - weight)
  IN  IF weight >= 100 THEN s
      ELSE IF weight < 1 \/ n < 1 THEN 1
      ELSE IF n > s THEN s ELSE n

-----------------------------------------------------------------------------
(* How many pods may be down at once: a disruption budget's maxUnavailable,  *)
(* Unset when there is to be none.                                           *)
MaxDown(declared, effective) ==
  IF declared # Unset THEN (IF declared < 0 THEN 0 ELSE declared)
  ELSE IF effective \div 2 < 1 THEN 1 ELSE effective \div 2

Budget(singleton, effective, declared) ==
  IF singleton \/ effective < 2 \/ MaxDown(declared, effective) >= effective
  THEN Unset ELSE MaxDown(declared, effective)

(* The ceiling of the waypoint's autoscaler for that many services in the    *)
(* mesh.                                                                     *)
WaypointMax(services) == IF services * 2 < 4 THEN 4 ELSE services * 2
=============================================================================
