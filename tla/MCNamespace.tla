----------------------------- MODULE MCNamespace -----------------------------
(* Values for NamespacePass's constants that a configuration file cannot     *)
(* write.                                                                    *)
EXTENDS NamespacePass, TLC

CONSTANTS a, b, oneMinute, fiveMinutes

Plain(n) == [Blank EXCEPT !.group = n, !.primary = TRUE, !.hosted = TRUE]
Split == (a :> 90) @@ (b :> 10)

(* Service a leads its pool: weighted and in the mesh, or alone with a       *)
(* canary and an autoscaler.                                                 *)
Weighted == [Plain(a) EXCEPT !.weighted = TRUE, !.backends = Split, !.mesh = TRUE,
                             !.replicas = 3]
Canaried == [Plain(a) EXCEPT !.canary = 20,
                             !.hpa = [min |-> 2, max |-> 3, window |-> fiveMinutes]]
(* Service b joins that pool, stands alone, or takes the pool over.          *)
Joined == [Blank EXCEPT !.group = a, !.weighted = TRUE, !.mesh = TRUE,
                        !.replicas = 2, !.maxDown = 2]
Alone == [Plain(b) EXCEPT !.mesh = TRUE,
                          !.hpa = [min |-> 1, max |-> 2, window |-> oneMinute]]
Successor == [Weighted EXCEPT !.replicas = 2, !.singleton = TRUE]
(* Service a stays in the pool and no longer leads it.                       *)
Demoted == [Weighted EXCEPT !.primary = FALSE, !.hosted = FALSE, !.backends = << >>]

MCSpecs == (a :> {Weighted, Canaried}) @@ (b :> {Joined, Alone, Successor})
HandoverSpecs == (a :> {Weighted, Demoted}) @@ (b :> {Joined, Successor})
Budgets(creates, edits, deletes, ramps, faults) ==
  [k \in Kinds |-> CASE k = "create" -> creates [] k = "edit" -> edits
                     [] k = "delete" -> deletes [] k = "ramp" -> ramps
                     [] OTHER -> faults]
MCLimit == Budgets(1, 1, 1, 1, 1)
HandoverLimit == Budgets(0, 2, 0, 0, 0)
=============================================================================
