SPECIFICATION FairSpec
CONSTANTS
  MaxTag = 2
  Pipeline = TRUE
  Modes = {"progressive"}
  Commands = {"promote", "abort"}
  SloMode = "off"
  RampEnforces = TRUE
  Steps <- MCSteps
  Limit <- AbortLimit
PROPERTY AbortedLeavesInstance
