SPECIFICATION FairSpec
CONSTANTS
  MaxTag = 2
  Pipeline = FALSE
  Modes = {"progressive"}
  Commands = {}
  SloMode = "off"
  RampEnforces = TRUE
  Steps <- MCSteps
  Limit <- BuildLimit
PROPERTY SupersededIsDropped
