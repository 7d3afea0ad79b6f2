----------------------------- MODULE MCReconcile -----------------------------
(* Values for Reconcile's constants that a configuration file cannot write.  *)
EXTENDS Reconcile

MCSteps == <<5, 50>>
Budget(builds, edits, commands, failures, faults) ==
  [k \in Kinds |-> CASE k = "build" -> builds [] k = "edit" -> edits
                     [] k = "command" -> commands [] k = "failure" -> failures
                     [] OTHER -> faults]

PipelineLimit == Budget(3, 0, 0, 2, 2)
ModeLimit == Budget(2, 1, 1, 0, 1)
BuildLimit == Budget(2, 0, 0, 0, 0)
AbortLimit == Budget(1, 0, 2, 0, 0)
CrashLimit == Budget(1, 0, 0, 1, 0)
=============================================================================
