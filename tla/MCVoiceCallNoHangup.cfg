CONSTANTS
  Prewarm = TRUE
  MaxQueue = 8
  MaxToolRounds = 2
  Batches <- SaveBatches
  Faults = {}
  MaxUtterances = 2
SPECIFICATION Spec
CHECK_DEADLOCK FALSE
INVARIANT SavedCallHangsUp
