CONSTANTS
  Threads = {t1, t2, t3, t4}
  Voices = {v1, v2, v3}
  Size = 2
  MaxJobs = 2
  NoVoice = NoVoice
SPECIFICATION Spec
CHECK_DEADLOCK FALSE
SYMMETRY Symmetry
INVARIANTS
  TypeOK
  VoicesExclusive
  VoicesBounded
  NobodyStranded
