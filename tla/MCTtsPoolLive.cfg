CONSTANTS
  Threads = {t1, t2, t3}
  Voices = {v1, v2, v3}
  Size = 2
  MaxJobs = 1
  NoVoice = NoVoice
SPECIFICATION FairSpec
CHECK_DEADLOCK FALSE
PROPERTY EveryPhraseEnds
