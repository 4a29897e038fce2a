CONSTANTS
  Prewarm = TRUE
  MaxQueue = 8
  MaxToolRounds = 2
  Batches <- AllBatches
  Faults = {"tts", "line", "task", "shutdown"}
  MaxUtterances = 1
SPECIFICATION FairSpec
CHECK_DEADLOCK FALSE
PROPERTY CallCloses
PROPERTY OutcomePromise
INVARIANT EveryCallHasOutcome
