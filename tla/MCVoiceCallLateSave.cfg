CONSTANTS
  Prewarm = TRUE
  MaxQueue = 8
  MaxToolRounds = 2
  Batches <- SaveBatches
  Faults = {}
  MaxUtterances = 1
SPECIFICATION Spec
CHECK_DEADLOCK FALSE
INVARIANT LastOutcomeIsStored
