SPECIFICATION Spec
CONSTANTS
  MaxTag = 2
  Pipeline = TRUE
  Modes = {"progressive"}
  Commands = {}
  SloMode = "off"
  RampEnforces = TRUE
  Steps <- MCSteps
  Limit <- CrashLimit
PROPERTY NeverRerampQuarantined
