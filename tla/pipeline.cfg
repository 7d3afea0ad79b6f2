SPECIFICATION Spec
CONSTANTS
  MaxTag = 4
  Pipeline = TRUE
  Modes = {"progressive"}
  Commands = {}
  SloMode = "enforce"
  RampEnforces = TRUE
  Steps <- MCSteps
  Limit <- PipelineLimit
INVARIANTS TypeOK TrialOffInstance TrialIsPinned CondemnedOffInstance QuarantineHasFallback
PROPERTIES MovesOnlyByPromotion WeightNeedsPair RampKeepsPromise
