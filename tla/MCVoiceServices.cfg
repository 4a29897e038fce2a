SPECIFICATION MCSpec
CONSTANTS
  Requests = {r1, r2}
  MaxSwitches = 2
  CallJobs = {c1}
  OrderJobs = {o1, o2}
  Threads = 2
  Warm = TRUE
  None = None
  Warmup = Warmup
  MinSpeech = 2
  EndSilence = 2
  Preroll = 1
  MaxSegment = 4
  BargeIn = 3
  Window = 2
  QueueSize = 2
  Chunks = {3, 8, 11}
  MaxBytes = 33
  MaxTexts = 3
  MinChars = 2
  MaxChars = 5
  FirstChars = 3
  Intro = 2
  MaxText = 6
  Chats = {"chat"}
  Healths = {"health"}
  CacheTime = 2
  CallTime = 1
  MaxTime = 3
  MaxChanges = 1
CHECK_DEADLOCK FALSE
INVARIANTS
  TypesHold
  EngineSafe
  SpeechSafe
  HeardWhole
  SpokenWhole
PROPERTIES
  ServicesAnswer
