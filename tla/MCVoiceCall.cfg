CONSTANTS
  Prewarm = TRUE
  MaxQueue = 1
  MaxToolRounds = 2
  Batches <- AllBatches
  Faults = {"stt", "tts", "llm", "disk", "line", "shutdown"}
  MaxUtterances = 2
SPECIFICATION Spec
CHECK_DEADLOCK FALSE
INVARIANTS
  TypeOK
  SilentUntilAccepted
  HistoryWellFormed
  OwnTurnUninterrupted
  OutcomeToldIsStored
PROPERTIES
  AgentOutcomeKept
  CompletedCallTakesNoTurn
