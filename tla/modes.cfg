SPECIFICATION FairSpec
CONSTANTS
  MaxTag = 2
  Pipeline = FALSE
  Modes = {"progressive", "immediate", "canary"}
  Commands = {"promote", "abort"}
  SloMode = "enforce"
  RampEnforces = TRUE
  Steps <- MCSteps
  Limit <- ModeLimit
INVARIANTS QuarantineHasFallback
PROPERTIES RampKeepsPromise OneSplitOwner OneJudge AbortCutsTraffic StandsDown Delivered
