----------------------------- MODULE SizesProofs -----------------------------
(***************************************************************************)
(* What the numbers of Sizes promise, for every spec.                      *)
(***************************************************************************)
EXTENDS Sizes, SequenceTheorems, TLAPS

(* A quotient rounded up is the least count that suffices.                   *)
LEMMA CeilDivIsLeast ==
  ASSUME NEW a \in Int, NEW b \in Int, b > 0
  PROVE  /\ CeilDiv(a, b) \in Int
         /\ CeilDiv(a, b) * b >= a
         /\ (CeilDiv(a, b) - 1) * b < a
  <1> DEFINE n == a + b - 1
  <1>1. n \in Int /\ n \div b \in Int /\ n % b \in 0..(b - 1) OBVIOUS
  <1>2. n = b * (n \div b) + (n % b)  OBVIOUS
  <1>3. b * (n \div b) <= n /\ n < b * (n \div b) + b  BY <1>1, <1>2
  <1> QED  BY <1>1, <1>3 DEF CeilDiv

(* The version on trial has at least one pod and never more than the         *)
(* instance itself: the surge of a ramp is at most double.                   *)
THEOREM TrialSizeBounded ==
  ASSUME NEW stable \in Int, NEW weight \in Int
  PROVE  LET n == NextRevisionReplicas(stable, weight)
         IN  n \in Nat /\ n >= 1 /\ (n <= stable \/ n = 1)
  <1> DEFINE s == IF stable < 1 THEN 1 ELSE stable
  <1>1. CASE weight >= 100  BY <1>1 DEF NextRevisionReplicas
  <1>2. CASE weight < 100
    <2>1. 100 - weight \in Int /\ 100 - weight > 0 /\ s * weight \in Int  BY <1>2
    <2>2. CeilDiv(s * weight, 100 - weight) \in Int  BY <2>1, CeilDivIsLeast
    <2> QED  BY <1>2, <2>2 DEF NextRevisionReplicas
  <1> QED  BY <1>1, <1>2

(* Up to a share of 50% the temporary pods carry no more per pod than the    *)
(* instance's; above it, capped at the instance's own size, they always do.  *)
THEOREM BalancedJustToHalf ==
  ASSUME NEW stable \in Int, stable >= 1, NEW weight \in 1..99
  PROVE  NextRevisionReplicas(stable, weight) * (100 - weight) >= stable * weight
           <=> weight <= MaxBalancedStep
  <1> DEFINE b == 100 - weight
             n == CeilDiv(stable * weight, b)
  <1>1. b \in 1..99 /\ stable * weight \in Int  OBVIOUS
  <1>2. n \in Int /\ n * b >= stable * weight /\ (n - 1) * b < stable * weight
    BY <1>1, CeilDivIsLeast
  <1>3. NextRevisionReplicas(stable, weight) = IF n < 1 THEN 1 ELSE IF n > stable THEN stable ELSE n
    BY <1>2 DEF NextRevisionReplicas
  <1>4. stable * b >= stable * weight <=> weight <= 50
    <2>1. CASE weight <= 50  
      <3>1. b >= weight  BY <2>1
      <3> QED BY <3>1, <2>1
    <2>2. CASE weight > 50
      <3>1. b < weight  BY <2>2
      <3> QED BY <3>1, <2>2
    <2> QED  BY <2>1, <2>2
  <1>5. n >= 1
    <2>1. stable * weight >= 1  OBVIOUS
    <2> QED  BY <1>1, <1>2, <2>1
  <1> HIDE DEF n, b
  <1>6. CASE n > stable
    BY <1>2, <1>3, <1>4, <1>6 DEF MaxBalancedStep, b
  <1>7. CASE n <= stable
    <2>1. stable * b >= n * b  BY <1>1, <1>2, <1>7
    <2>2. weight <= 50  BY <1>1, <1>2, <1>4, <2>1
    <2> QED  BY <1>2, <1>3, <1>5, <1>7, <2>2 DEF MaxBalancedStep, b
  <1> QED  BY <1>2, <1>6, <1>7

(* A larger share never asks for fewer temporary pods: only a step up can    *)
(* leave the pods that are Ready too few, and a step that had enough of them *)
(* has enough when its share is lowered.                                     *)
THEOREM TrialGrowsWithShare ==
  ASSUME NEW stable \in Int, NEW w1 \in Int, NEW w2 \in Int, w1 <= w2
  PROVE  NextRevisionReplicas(stable, w1) <= NextRevisionReplicas(stable, w2)
  <1> DEFINE s == IF stable < 1 THEN 1 ELSE stable
  <1>1. s \in Int /\ s >= 1  OBVIOUS
  <1>2. CASE w1 < 1 \/ w2 >= 100
    <2> DEFINE m(w) == NextRevisionReplicas(stable, w)
    <2>1. ASSUME NEW w \in Int
          PROVE  m(w) \in Nat /\ m(w) >= 1 /\ m(w) <= s
      <3>1. m(w) \in Nat /\ m(w) >= 1 /\ (m(w) <= stable \/ m(w) = 1)
        BY TrialSizeBounded
      <3> HIDE DEF m
      <3> QED  BY <3>1
    <2>2. /\ w1 < 1 => NextRevisionReplicas(stable, w1) = 1
          /\ w2 >= 100 => NextRevisionReplicas(stable, w2) = s
      BY DEF NextRevisionReplicas
    <2> QED  BY <1>2, <2>1, <2>2
  <1>3. CASE w1 >= 1 /\ w2 < 100
    <2> DEFINE a(w) == s * w
               b(w) == 100 - w
               n(w) == CeilDiv(a(w), b(w))
    <2>1. b(w1) \in 1..99 /\ b(w2) \in 1..99 /\ b(w2) <= b(w1)  BY <1>3
    <2>2. a(w1) \in Int /\ a(w2) \in Int /\ a(w1) <= a(w2) /\ a(w1) >= 1
      BY <1>1, <1>3
    <2>3. \A w \in {w1, w2} : /\ NextRevisionReplicas(stable, w)
                                   = IF n(w) < 1 THEN 1 ELSE IF n(w) > s THEN s ELSE n(w)
      BY <1>3 DEF NextRevisionReplicas
    <2> HIDE DEF a, b, s
    <2>4. /\ n(w1) \in Int /\ (n(w1) - 1) * b(w1) < a(w1)
          /\ n(w2) \in Int /\ n(w2) * b(w2) >= a(w2)
      <3>1. \A w \in {w1, w2} : a(w) \in Int /\ b(w) \in Int /\ b(w) > 0  BY <2>1, <2>2
      <3> QED  BY <3>1, CeilDivIsLeast
    <2> HIDE DEF n
    <2>5. n(w2) >= 1  BY <2>1, <2>2, <2>4
    <2>6. n(w2) * b(w1) >= n(w2) * b(w2)  BY <2>1, <2>4, <2>5
    <2>7. (n(w1) - 1) * b(w1) < n(w2) * b(w1)  BY <2>1, <2>2, <2>4, <2>6
    <2>8. n(w1) - 1 < n(w2)  BY <2>1, <2>4, <2>7
    <2> QED  BY <1>1, <2>3, <2>4, <2>8
  <1> QED  BY <1>2, <1>3

(* An observation lasts longer than the window its SLIs look back on: the    *)
(* last of them is computed over nothing but the observed version.           *)
THEOREM ObservedPastWindow ==
  ASSUME NEW declared \in Nat
  PROVE  ObservationPeriod(SLOWindow(declared)) > SLOWindow(declared)
  BY DEF ObservationPeriod, SLOWindow, MinSLOWindow, DefaultSLOWindow, SLOGracePeriod

(* A step soaks for some time and is given up on no sooner; left to the      *)
(* operator, it soaks longer than the window it is judged over, so that no   *)
(* step is judged on the requests of the one before.                         *)
THEOREM SoakIsSound ==
  ASSUME NEW d \in Declaration
  PROVE  /\ ResolvedSoak(d) > 0 /\ ResolvedPatience(d) >= ResolvedSoak(d)
         /\ d.stepDuration = 0 => ~DilutedWindow(d)
  BY DEF Declaration, ResolvedSoak, ResolvedPatience, ResolvedWindow, DilutedWindow,
         StepDurationFor, MinStepDuration, DefaultMaxStepDuration

(* Whatever list a spec gives, the ramp has steps, between 1 and 99 percent, *)
(* each above the one before: what Ramp assumes of its Steps.                *)
THEOREM StepsClimb ==
  ASSUME NEW d \in Declaration
  PROVE  /\ ResolvedSteps(d) \in Seq(1..99) /\ Len(ResolvedSteps(d)) > 0
         /\ \A i, j \in DOMAIN ResolvedSteps(d) :
              i < j => ResolvedSteps(d)[i] < ResolvedSteps(d)[j]
  <1> DEFINE in == d.steps
  <1>1. in \in Seq(Int)  BY DEF Declaration
  <1>2. CASE SanitizeSteps(in) = << >>
    BY <1>2 DEF ResolvedSteps, DefaultSteps
  <1>3. CASE SanitizeSteps(in) # << >>
    <2>1. /\ SanitizeSteps(in) = in /\ in # << >>
          /\ \A i \in DOMAIN in : in[i] \in 1..99
          /\ \A i, j \in DOMAIN in : i < j => in[i] < in[j]
      BY <1>3 DEF SanitizeSteps
    <2>2. in \in Seq(1..99) /\ Len(in) > 0
      <3>1. Len(in) \in Nat /\ DOMAIN in = 1..Len(in) /\ in \in [1..Len(in) -> Int]
        BY <1>1, LenProperties
      <3>2. in \in [1..Len(in) -> 1..99]
        <4> HIDE DEF in
        <4> QED  BY <2>1, <3>1
      <3>3. in \in Seq(1..99)  BY <3>1, <3>2, SeqDef
      <3>4. Len(in) # 0  BY <1>1, <2>1, EmptySeq
      <3> QED  BY <3>1, <3>3, <3>4
    <2> QED  BY <1>3, <2>1, <2>2 DEF ResolvedSteps
  <1> QED  BY <1>2, <1>3

(* A disruption budget never lets every pod go, and one that nobody sized    *)
(* lets some go: a node can be drained.                                      *)
THEOREM BudgetIsPartial ==
  ASSUME NEW effective \in Nat, NEW declared \in Int, NEW singleton \in BOOLEAN,
         Budget(singleton, effective, declared) # Unset
  PROVE  /\ Budget(singleton, effective, declared) \in 0..(effective - 1)
         /\ declared = Unset => Budget(singleton, effective, declared) >= 1
  BY DEF Budget, MaxDown, Unset
=============================================================================
