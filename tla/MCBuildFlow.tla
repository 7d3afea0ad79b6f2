----------------------------- MODULE MCBuildFlow -----------------------------
(* Values for BuildFlow's constants that a configuration file cannot write.  *)
EXTENDS BuildFlow

Budget(pushes, builds, edits, faults) ==
  [k \in Kinds |-> CASE k = "push" -> pushes [] k = "build" -> builds
                     [] k = "edit" -> edits [] OTHER -> faults]

BuildLimit == Budget(1, 2, 1, 1)
PatchLimit == Budget(0, 2, 0, 0)
PinLimit == Budget(0, 1, 1, 1)
=============================================================================
