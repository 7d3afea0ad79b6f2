SPECIFICATION Spec
CONSTANTS
  MaxTag = 3
  Pipeline = TRUE
  Modes = {"progressive"}
  Commands = {}
  SloMode = "off"
  RampEnforces = TRUE
  Steps <- MCSteps
  Limit <- BuildLimit
PROPERTY StepsServedByTrial
