--------------------------- MODULE VoiceServices ---------------------------
(***************************************************************************)
(* What a voice call stands on: the engine of the language model, the      *)
(* transcriptions, the ear, the voice pipeline and the splitter; and what  *)
(* the chat routes know of the engine.                                     *)
(*                                                                         *)
(* The parts share no state: together they are the conjunction of their    *)
(* specifications.  InTurns is what the run checks: `part` is the one that *)
(* moves, the others stay in an initial state.                             *)
(***************************************************************************)
EXTENDS LlmEngine, SpeechService, Integers, SequencesExt

CONSTANTS
  MinSpeech, EndSilence, Preroll, MaxSegment, BargeIn, Window, QueueSize, Chunks, MaxBytes,
                                                                        \* of Listening
  MaxTexts,                                                             \* of VoicePipeline
  MinChars, MaxChars, FirstChars, Intro, MaxText,                       \* of Splitter
  Chats, Healths, CacheTime, CallTime, MaxTime, MaxChanges              \* of ModelStatus

VARIABLES
  part,
  accepted, ending, bytes, odd, pending, ear, classes, emitted, barge, queue, transcribing,
  failures, stats, shifted,
  stream, finish, texts, gen, buffer, q, busy, error, framework, completed, tools, turn, played, silent,
  text, cuts, first, flushed,
  now, model, changes, ticked, cache, cacheAt, asker

listenVars ==
  <<accepted, ending, bytes, odd, pending, ear, classes, emitted, barge, queue, transcribing,
    failures, stats, shifted>>
pipelineVars ==
  <<stream, finish, texts, gen, buffer, q, busy, error, framework, completed, tools, turn, played, silent>>
splitVars == <<text, cuts, first, flushed>>
statusVars == <<now, model, changes, ticked, cache, cacheAt, asker>>
allVars == <<part, vars, speechVars, listenVars, pipelineVars, splitVars, statusVars>>

Listen == INSTANCE Listening
Pipeline == INSTANCE VoicePipeline WITH caller <- turn
Split == INSTANCE Splitter
Status == INSTANCE ModelStatus WITH
  server <- model, last <- ticked, caller <- asker

ASSUME ServicesAssumption ==
  /\ Listen!ListeningAssumption /\ Pipeline!PipelineAssumption
  /\ Split!SplitterAssumption /\ Status!StatusAssumption

-----------------------------------------------------------------------------
\* A step of one part is no step of another.
Together == Spec /\ SpeechSpec /\ Listen!Spec /\ Pipeline!Spec /\ Split!Spec /\ Status!Spec

Parts == {"engine", "speech", "listen", "pipeline", "split", "status"}

TurnInit == part \in Parts /\ Init /\ SpeechInit /\ Listen!Init /\ Pipeline!Init /\ Split!Init /\ Status!Init

TurnNext ==
  /\ part' = part
  /\ IF part = "engine" THEN Next ELSE UNCHANGED vars
  /\ IF part = "speech" THEN SpeechNext ELSE UNCHANGED speechVars
  /\ IF part = "listen" THEN Listen!Next ELSE UNCHANGED listenVars
  /\ IF part = "pipeline" THEN Pipeline!Next ELSE UNCHANGED pipelineVars
  /\ IF part = "split" THEN Split!Next ELSE UNCHANGED splitVars
  /\ IF part = "status" THEN Status!Next ELSE UNCHANGED statusVars

\* The tasks of the engine run on the event loop, and a request ends by its timeout at the latest.
EngineFairness ==
  /\ WF_vars(part = "engine" /\ Start) /\ WF_vars(part = "engine" /\ Poll)
  /\ WF_vars(part = "engine" /\ PollAgain) /\ WF_vars(part = "engine" /\ WarmupLoads)
  /\ WF_vars(part = "engine" /\ StopPoller) /\ WF_vars(part = "engine" /\ CloseClient)
  /\ \A r \in Requests : WF_vars(part = "engine" /\ ServerEnds(r))

\* A thread that has the lock comes back, a free lock is taken, and timers run.
SpeechFairness ==
  /\ WF_speechVars(part = "speech" /\ (WarmLock \/ WarmStt \/ WarmTts))
  /\ \A j \in Jobs :
       /\ WF_speechVars(part = "speech" /\ (Begin(j) \/ Take(j) \/ LoadFirst(j) \/ Generate(j)))
       /\ WF_speechVars(part = "speech" /\ TimesOut(j))

\* The model sends or breaks off, and each processor has its task on the event loop.
PipelineFairness ==
  /\ WF_pipelineVars(part = "pipeline" /\ Pipeline!Read)
  /\ WF_pipelineVars(part = "pipeline" /\ Pipeline!Aggregate)
  /\ WF_pipelineVars(part = "pipeline" /\ Pipeline!Speak)
  /\ WF_pipelineVars(part = "pipeline" /\ Pipeline!Play)
  /\ WF_pipelineVars(part = "pipeline" /\ Pipeline!Completes)
  /\ WF_pipelineVars(part = "pipeline" /\ Pipeline!Leaves)

TurnFairness == EngineFairness /\ SpeechFairness /\ PipelineFairness

InTurns == TurnInit /\ [][TurnNext]_allVars /\ TurnFairness

-----------------------------------------------------------------------------
(* Properties: those of the parts, which say more of themselves in their modules. *)

\* Every part is in a state of its type, also when a counter or a queue is at its limit.
TypesHold ==
  TypeOK /\ SpeechTypeOK /\ Listen!TypeOK /\ Pipeline!TypeOK /\ Split!TypeOK /\ Status!TypeOK

\* The customer's speech reaches the transcription whole: each run of it is in a segment, no window
\* is in two, the first sound is not cut, and a failure is told (vad.py:224-298, call_stats.py:124-140).
HeardWhole ==
  /\ Listen!SegmentsAreWhole /\ Listen!SpeechIsKept /\ Listen!PrerollIsTaken
  /\ Listen!FailureIsNamed /\ Listen!SamplesAreAlignedLater

\* The reply reaches the customer whole: in its order, none of it twice, left behind or cut inside a
\* word, whether processors run ahead or fail (pipecat_voice.py:44-156, stream.py:200-234).
SpokenWhole ==
  /\ Pipeline!HeardInOrder /\ Pipeline!ReturnedIsWhole
  /\ Split!NothingIsHalved /\ Split!PhrasesFit /\ Split!AllIsSaid

\* Whatever fails: readiness follows the server, a chat is refused and the server called unhealthy only
\* for a state it was in, a request, a transcription and a turn come to their end, and after the end
\* nothing is begun: no late transcription and no phrase after an error (engine.py, model_status.py:87-94,
\* stt.py:88-127, pipecat_voice.py:44-156).
ServicesAnswer ==
  /\ ReadyFollows /\ RequestEnds
  /\ [](Status!RefusalIsRecent /\ Status!HealthIsCurrent)
  /\ ThreadsReturn /\ NoWorkBegunLate
  /\ (part = "pipeline" => Pipeline!TurnEnds) /\ Pipeline!NothingBegunAfterError
=============================================================================
