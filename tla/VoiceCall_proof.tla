-------------------------- MODULE VoiceCall_proof --------------------------
(***************************************************************************)
(* Proofs about VoiceCall, for every queue size, number of tool rounds,    *)
(* set of tool batches, set of faults and number of utterances, with the   *)
(* opening prewarmed or not.                                               *)
(*                                                                         *)
(* The invariant is CallInv, a conjunction of parts that are inductive     *)
(* together: TypeOK and RingingInv need SubmitInv, which says where a save *)
(* in flight is; TurnInv and CompletionInv need RingingInv, because the    *)
(* opening may be started by the acceptance itself.  Each part has one     *)
(* step lemma, with a step per action that writes a variable of the part   *)
(* and one step for all the others.                                        *)
(***************************************************************************)
EXTENDS VoiceCall, SequenceTheorems, TLAPS

-----------------------------------------------------------------------------
(* Types *)

\* While save_outcome is being submitted its response waits for it, its file is written,
\* and the call is not yet marked as saved.
SubmitInv ==
  submitting => /\ resp = "tools"
                /\ batch # <<>> /\ Head(batch) = "save"
                /\ ~saved /\ store = "agent"

LEMMA AskCancelTypes ==
  ASSUME RespTypes, AskCancel
  PROVE  resp' \in RespStates /\ cancelled' \in BOOLEAN
<1>1. resp' \in RespStates
  BY DEF AskCancel, AfterCancel, RespTypes, RespStates
<1>2. cancelled' \in BOOLEAN
  BY DEF AskCancel
<1> QED BY <1>1, <1>2

LEMMA NewResponseTypes ==
  ASSUME RespTypes, NEW k \in {"opening", "turn", "resume"}, NewResponse(k)
  PROVE  RespTypes'
<1>1. rounds' \in 0..MaxToolRounds
  BY CallAssumption DEF NewResponse
<1>2. resp' \in RespStates
  BY DEF NewResponse, RespStates
<1>3. cancelled' \in BOOLEAN /\ audioSent' \in BOOLEAN
  BY DEF NewResponse
<1> QED BY <1>1, <1>2, <1>3 DEF NewResponse, RespTypes

LEMMA StartResponseTypes ==
  ASSUME RespTypes, NEW k \in {"opening", "turn", "resume"}, NEW wait \in WorkerStates,
         StartResponse(k, wait)
  PROVE  RespTypes' /\ worker' \in WorkerStates
<1>1. CASE resp = "idle"
  BY <1>1, NewResponseTypes DEF StartResponse, WorkerStates
<1>2. CASE resp # "idle"
  BY <1>2, AskCancelTypes DEF StartResponse, RespTypes
<1> QED BY <1>1, <1>2

LEMMA AnswerTypes ==
  ASSUME RespTypes, WorkTypes, Answer
  PROVE  RespTypes' /\ worker' \in WorkerStates /\ pending' \in BOOLEAN
<1>1. CASE pending /\ CustomerQuiet
  BY <1>1, StartResponseTypes DEF Answer, WorkerStates
<1>2. CASE ~(pending /\ CustomerQuiet)
  <2>1. RespTypes'
    BY <1>2 DEF Answer, respVars, RespTypes
  <2>2. worker' \in WorkerStates /\ pending' \in BOOLEAN
    BY <1>2 DEF Answer, WorkTypes, WorkerStates
  <2> QED BY <2>1, <2>2
<1> QED BY <1>1, <1>2

LEMMA BargeInTypes ==
  ASSUME RespTypes, WorkTypes, BargeIn
  PROVE  RespTypes' /\ WorkTypes'
<1>1. playback' \in Playbacks
  BY DEF BargeIn, RespTypes, Playbacks
<1>2. RespTypes'
  BY <1>1, AskCancelTypes DEF BargeIn, RespTypes
<1>3. fresh' \in BOOLEAN /\ resumePending' \in BOOLEAN
  BY DEF BargeIn, Playing
<1> QED BY <1>2, <1>3 DEF BargeIn, WorkTypes

LEMMA TypeStep == TypeOK /\ SubmitInv /\ [Next]_vars => TypeOK'
<1> SUFFICES ASSUME TypeOK, SubmitInv, [Next]_vars PROVE TypeOK'
  OBVIOUS
<1> USE CallAssumption DEF TypeOK
<1>1. CASE Accept
  <2>1. EarTypes' /\ QueueTypes' /\ WorkTypes' /\ ToolTypes' /\ SentTypes'
    BY <1>1 DEF Accept, earVars, workVars, toolVars, sentVars, EarTypes, QueueTypes,
         WorkTypes, ToolTypes, SentTypes
  <2>2. CallTypes'
    BY <1>1 DEF Accept, CallTypes, StopReasons, ServerReasons
  <2>3. RespTypes'
    <3>1. CASE Prewarm
      BY <1>1, <3>1 DEF Accept, respVars, RespTypes
    <3>2. CASE ~Prewarm
      BY <1>1, <3>2, NewResponseTypes DEF Accept
    <3> QED BY <3>1, <3>2
  <2> QED BY <2>1, <2>2, <2>3
<1>2. CASE CustomerHangup
  <2>1. EarTypes' /\ QueueTypes' /\ WorkTypes' /\ RespTypes' /\ ToolTypes' /\ SentTypes'
    BY <1>2 DEF CustomerHangup, earVars, workVars, respVars, toolVars, sentVars,
         EarTypes, QueueTypes, WorkTypes, RespTypes, ToolTypes, SentTypes
  <2>2. CallTypes'
    BY <1>2 DEF CustomerHangup, Stop, CallTypes, StopReasons, ServerReasons
  <2> QED BY <2>1, <2>2
<1>3. CASE LineDrops
  <2>1. EarTypes' /\ QueueTypes' /\ WorkTypes' /\ RespTypes' /\ ToolTypes' /\ SentTypes'
    BY <1>3 DEF LineDrops, earVars, workVars, respVars, toolVars, sentVars, EarTypes,
         QueueTypes, WorkTypes, RespTypes, ToolTypes, SentTypes
  <2>2. CallTypes'
    BY <1>3 DEF LineDrops, Stop, CallTypes, StopReasons, ServerReasons
  <2> QED BY <2>1, <2>2
<1>4. CASE SpeechStart
  <2>1. CallTypes' /\ QueueTypes' /\ ToolTypes' /\ SentTypes'
    BY <1>4 DEF SpeechStart, callVars, toolVars, sentVars, CallTypes, QueueTypes,
         ToolTypes, SentTypes
  <2>2. EarTypes'
    <3>1. Audible \in BOOLEAN
      BY DEF Audible
    <3>2. utterances' \in 0..MaxUtterances
      BY <1>4 DEF SpeechStart, EarTypes
    <3>3. bargePending' \in BOOLEAN /\ inSpeech' \in BOOLEAN
      BY <1>4 DEF SpeechStart, EarTypes
    <3> QED BY <1>4, <3>1, <3>2, <3>3 DEF SpeechStart, EarTypes
  <2>3. WorkTypes'
    BY <1>4, BargeInTypes DEF SpeechStart, workVars, WorkTypes
  <2>4. RespTypes'
    BY <1>4, BargeInTypes DEF SpeechStart, respVars, RespTypes
  <2> QED BY <2>1, <2>2, <2>3, <2>4
<1>5. CASE BargeConfirmed
  <2>1. CallTypes' /\ QueueTypes' /\ ToolTypes' /\ SentTypes'
    BY <1>5 DEF BargeConfirmed, callVars, toolVars, sentVars, CallTypes, QueueTypes,
         ToolTypes, SentTypes
  <2>2. EarTypes'
    BY <1>5 DEF BargeConfirmed, AfterCancel, EarTypes
  <2>3. WorkTypes'
    BY <1>5, BargeInTypes DEF BargeConfirmed
  <2>4. RespTypes'
    BY <1>5, BargeInTypes DEF BargeConfirmed
  <2> QED BY <2>1, <2>2, <2>3, <2>4
<1>6. CASE SpeechEnd
  <2>1. WorkTypes' /\ RespTypes' /\ ToolTypes'
    BY <1>6 DEF SpeechEnd, workVars, respVars, toolVars, WorkTypes, RespTypes, ToolTypes
  <2>2. CallTypes'
    BY <1>6 DEF SpeechEnd, callVars, QueueFull, ServerEnd, Sent, CallTypes, StopReasons,
         ServerReasons
  <2>3. EarTypes'
    BY <1>6 DEF SpeechEnd, QueueFull, ServerEnd, Sent, EarTypes
  <2>4. QueueTypes'
    <3>1. CASE UNCHANGED queue
      BY <3>1 DEF QueueTypes
    <3>2. CASE ~QueueFull /\ queue' = Append(queue, overlap)
      <4>1. Len(queue) \in Nat /\ Len(queue) < MaxQueue
        BY <3>2 DEF QueueFull, QueueTypes
      <4>2. queue' \in Seq(BOOLEAN) /\ Len(queue') = Len(queue) + 1
        BY <3>2 DEF QueueTypes, EarTypes
      <4> QED BY <4>1, <4>2 DEF QueueTypes
    <3> QED BY <1>6, <3>1, <3>2 DEF SpeechEnd
  <2>5. SentTypes'
    <3>1. CASE UNCHANGED sentVars
      BY <3>1 DEF sentVars, SentTypes
    <3>2. CASE ServerEnd("audio_backpressure") /\ outcomes' = outcomes
      BY <3>2 DEF ServerEnd, Sent, SentTypes
    <3> QED BY <1>6, <3>1, <3>2 DEF SpeechEnd
  <2> QED BY <2>1, <2>2, <2>3, <2>4, <2>5
<1>7. CASE TaskFails
  <2>1. EarTypes' /\ QueueTypes' /\ WorkTypes' /\ RespTypes' /\ ToolTypes' /\ SentTypes'
    BY <1>7 DEF TaskFails, earVars, workVars, respVars, toolVars, sentVars, EarTypes,
         QueueTypes, WorkTypes, RespTypes, ToolTypes, SentTypes
  <2>2. CallTypes'
    BY <1>7 DEF TaskFails, Stop, CallTypes, StopReasons, ServerReasons
  <2> QED BY <2>1, <2>2
<1>8. CASE MaxDuration
  <2>1. EarTypes' /\ QueueTypes' /\ WorkTypes' /\ RespTypes' /\ ToolTypes'
    BY <1>8 DEF MaxDuration, earVars, workVars, respVars, toolVars, EarTypes,
         QueueTypes, WorkTypes, RespTypes, ToolTypes
  <2>2. CallTypes'
    BY <1>8 DEF MaxDuration, ServerEnd, Sent, CallTypes, StopReasons, ServerReasons
  <2>3. SentTypes'
    BY <1>8 DEF MaxDuration, ServerEnd, Sent, SentTypes
  <2> QED BY <2>1, <2>2, <2>3
<1>9. CASE IdleTimeout
  <2>1. EarTypes' /\ QueueTypes' /\ WorkTypes' /\ RespTypes' /\ ToolTypes'
    BY <1>9 DEF IdleTimeout, earVars, workVars, respVars, toolVars, EarTypes,
         QueueTypes, WorkTypes, RespTypes, ToolTypes
  <2>2. CallTypes'
    BY <1>9 DEF IdleTimeout, ServerEnd, Sent, CallTypes, StopReasons, ServerReasons
  <2>3. SentTypes'
    BY <1>9 DEF IdleTimeout, ServerEnd, Sent, SentTypes
  <2> QED BY <2>1, <2>2, <2>3
<1>10. CASE ServerEndStops
  <2>1. EarTypes' /\ QueueTypes' /\ WorkTypes' /\ RespTypes' /\ ToolTypes' /\ SentTypes'
    BY <1>10 DEF ServerEndStops, earVars, workVars, respVars, toolVars, sentVars,
         EarTypes, QueueTypes, WorkTypes, RespTypes, ToolTypes, SentTypes
  <2>2. CallTypes'
    BY <1>10 DEF ServerEndStops, Stop, CallTypes, StopReasons, ServerReasons
  <2> QED BY <2>1, <2>2
<1>11. CASE TakeSegment
  <2>1. CallTypes' /\ EarTypes' /\ ToolTypes' /\ SentTypes'
    BY <1>11 DEF TakeSegment, callVars, earVars, toolVars, sentVars, CallTypes,
         EarTypes, ToolTypes, SentTypes
  <2>2. QueueTypes'
    BY <1>11 DEF TakeSegment, AfterCancel, Await, QueueTypes
  <2>3. WorkTypes'
    <3>1. Head(queue) \in BOOLEAN
      BY <1>11 DEF TakeSegment, QueueTypes
    <3>2. worker' \in WorkerStates
      BY <1>11 DEF TakeSegment, Await, WorkTypes, WorkerStates
    <3>3. segment' \in BOOLEAN /\ fresh' \in BOOLEAN
      BY <1>11, <3>1 DEF TakeSegment, WorkTypes
    <3> QED BY <1>11, <3>2, <3>3 DEF TakeSegment, WorkTypes
  <2>4. RespTypes'
    BY <1>11, AskCancelTypes DEF TakeSegment, RespTypes
  <2> QED BY <2>1, <2>2, <2>3, <2>4
<1>12. CASE YieldDone
  <2>1. CallTypes' /\ EarTypes' /\ QueueTypes' /\ RespTypes' /\ ToolTypes' /\ SentTypes'
    BY <1>12 DEF YieldDone, callVars, earVars, respVars, toolVars, sentVars, CallTypes,
         EarTypes, QueueTypes, RespTypes, ToolTypes, SentTypes
  <2>2. WorkTypes'
    BY <1>12 DEF YieldDone, WorkTypes, WorkerStates
  <2> QED BY <2>1, <2>2
<1>13. CASE SttFails
  <2>1. EarTypes' /\ QueueTypes' /\ RespTypes' /\ ToolTypes'
    BY <1>13 DEF SttFails, earVars, respVars, toolVars, EarTypes, QueueTypes, RespTypes,
         ToolTypes
  <2>2. CallTypes'
    BY <1>13 DEF SttFails, callVars, ServerEnd, Sent, CallTypes, StopReasons,
         ServerReasons
  <2>3. WorkTypes'
    BY <1>13 DEF SttFails, ServerEnd, Sent, WorkTypes, WorkerStates
  <2>4. SentTypes'
    BY <1>13 DEF SttFails, sentVars, ServerEnd, Sent, SentTypes
  <2> QED BY <2>1, <2>2, <2>3, <2>4
<1>14. CASE SttEcho
  <2>1. CallTypes' /\ EarTypes' /\ QueueTypes' /\ ToolTypes' /\ SentTypes'
    BY <1>14 DEF SttEcho, callVars, earVars, toolVars, sentVars, CallTypes, EarTypes,
         QueueTypes, ToolTypes, SentTypes
  <2>2. WorkTypes'
    <3>1. worker' \in WorkerStates
      BY <1>14, StartResponseTypes DEF SttEcho, WorkerStates
    <3>2. resumePending' \in BOOLEAN
      BY <1>14 DEF SttEcho, WorkTypes
    <3> QED BY <1>14, <3>1, <3>2 DEF SttEcho, WorkTypes
  <2>3. RespTypes'
    <3>1. CASE resumePending /\ CustomerQuiet
      BY <1>14, <3>1, StartResponseTypes DEF SttEcho, WorkerStates
    <3>2. CASE ~(resumePending /\ CustomerQuiet)
      BY <1>14, <3>2 DEF SttEcho, respVars, RespTypes
    <3> QED BY <3>1, <3>2
  <2> QED BY <2>1, <2>2, <2>3
<1>15. CASE SttEmpty
  <2>1. CallTypes' /\ EarTypes' /\ QueueTypes' /\ ToolTypes' /\ SentTypes'
    BY <1>15 DEF SttEmpty, callVars, earVars, toolVars, sentVars, CallTypes, EarTypes,
         QueueTypes, ToolTypes, SentTypes
  <2>2. WorkTypes'
    BY <1>15, AnswerTypes DEF SttEmpty, WorkTypes
  <2>3. RespTypes'
    BY <1>15, AnswerTypes DEF SttEmpty
  <2> QED BY <2>1, <2>2, <2>3
<1>16. CASE SttWords
  <2>1. CallTypes' /\ EarTypes' /\ QueueTypes' /\ ToolTypes' /\ SentTypes'
    BY <1>16 DEF SttWords, callVars, earVars, toolVars, sentVars, CallTypes, EarTypes,
         QueueTypes, ToolTypes, SentTypes
  <2>2. WorkTypes'
    <3>1. worker' \in WorkerStates
      BY <1>16 DEF SttWords, WorkerStates
    <3>2. /\ segment' = segment /\ fresh' = fresh
          /\ pending' \in BOOLEAN /\ resumePending' \in BOOLEAN /\ heard' \in BOOLEAN
      BY <1>16 DEF SttWords, Record, WorkTypes
    <3> QED BY <1>16, <3>1, <3>2 DEF SttWords, WorkTypes
  <2>3. RespTypes'
    BY <1>16, AskCancelTypes DEF SttWords, RespTypes
  <2> QED BY <2>1, <2>2, <2>3
<1>17. CASE YieldWordsDone
  <2>1. CallTypes' /\ EarTypes' /\ QueueTypes' /\ RespTypes' /\ ToolTypes' /\ SentTypes'
    BY <1>17 DEF YieldWordsDone, callVars, earVars, respVars, toolVars, sentVars,
         CallTypes, EarTypes, QueueTypes, RespTypes, ToolTypes, SentTypes
  <2>2. WorkTypes'
    BY <1>17 DEF YieldWordsDone, Record, WorkTypes, WorkerStates
  <2> QED BY <2>1, <2>2
<1>18. CASE Told
  <2>1. CallTypes' /\ EarTypes' /\ QueueTypes' /\ ToolTypes' /\ SentTypes'
    BY <1>18 DEF Told, callVars, earVars, toolVars, sentVars, CallTypes, EarTypes,
         QueueTypes, ToolTypes, SentTypes
  <2>2. WorkTypes'
    BY <1>18, AnswerTypes DEF Told, WorkTypes
  <2>3. RespTypes'
    BY <1>18, AnswerTypes DEF Told
  <2> QED BY <2>1, <2>2, <2>3
<1>19. CASE StartAwaited
  <2>1. CallTypes' /\ EarTypes' /\ QueueTypes' /\ ToolTypes' /\ SentTypes'
    BY <1>19 DEF StartAwaited, callVars, earVars, toolVars, sentVars, CallTypes,
         EarTypes, QueueTypes, ToolTypes, SentTypes
  <2>2. WorkTypes'
    BY <1>19 DEF StartAwaited, WorkTypes, WorkerStates
  <2>3. RespTypes'
    BY <1>19, NewResponseTypes DEF StartAwaited
  <2> QED BY <2>1, <2>2, <2>3
<1>20. CASE Speak
  <2>1. CallTypes' /\ EarTypes' /\ QueueTypes' /\ WorkTypes' /\ ToolTypes' /\ SentTypes'
    BY <1>20 DEF Speak, callVars, earVars, workVars, toolVars, sentVars, CallTypes,
         EarTypes, QueueTypes, WorkTypes, ToolTypes, SentTypes
  <2>2. RespTypes'
    BY <1>20 DEF Speak, RespTypes, RespStates, Playbacks, Tools
  <2> QED BY <2>1, <2>2
<1>21. CASE TtsFails
  <2>1. CallTypes' /\ EarTypes' /\ QueueTypes' /\ WorkTypes' /\ ToolTypes' /\ SentTypes'
    BY <1>21 DEF TtsFails, callVars, earVars, workVars, toolVars, sentVars, CallTypes,
         EarTypes, QueueTypes, WorkTypes, ToolTypes, SentTypes
  <2>2. RespTypes'
    BY <1>21 DEF TtsFails, OneMoreFailure, RespTypes, RespStates, Playbacks, Tools
  <2> QED BY <2>1, <2>2
<1>22. CASE TtsGivesUp
  <2>1. EarTypes' /\ QueueTypes' /\ WorkTypes' /\ ToolTypes'
    BY <1>22 DEF TtsGivesUp, earVars, workVars, toolVars, EarTypes, QueueTypes,
         WorkTypes, ToolTypes
  <2>2. CallTypes'
    BY <1>22 DEF TtsGivesUp, Sent, CallTypes, StopReasons, ServerReasons
  <2>3. RespTypes'
    BY <1>22 DEF TtsGivesUp, Sent, RespTypes, RespStates, Playbacks, Tools
  <2>4. SentTypes'
    BY <1>22 DEF TtsGivesUp, Sent, SentTypes
  <2> QED BY <2>1, <2>2, <2>3, <2>4
<1>23. CASE TtsEndStops
  <2>1. EarTypes' /\ QueueTypes' /\ WorkTypes' /\ ToolTypes' /\ SentTypes'
    BY <1>23 DEF TtsEndStops, earVars, workVars, toolVars, sentVars, EarTypes,
         QueueTypes, WorkTypes, ToolTypes, SentTypes
  <2>2. CallTypes'
    BY <1>23 DEF TtsEndStops, Stop, CallTypes, StopReasons, ServerReasons
  <2>3. RespTypes'
    BY <1>23 DEF TtsEndStops, Stop, RespTypes, RespStates, Playbacks, Tools
  <2> QED BY <2>1, <2>2, <2>3
<1>24. CASE TurnDone
  <2>1. CallTypes' /\ EarTypes' /\ QueueTypes' /\ WorkTypes' /\ ToolTypes' /\ SentTypes'
    BY <1>24 DEF TurnDone, callVars, earVars, workVars, toolVars, sentVars, CallTypes,
         EarTypes, QueueTypes, WorkTypes, ToolTypes, SentTypes
  <2>2. RespTypes'
    BY <1>24 DEF TurnDone, RespTypes, RespStates, Playbacks, Tools
  <2> QED BY <2>1, <2>2
<1>25. CASE LlmFails
  <2>1. CallTypes' /\ EarTypes' /\ QueueTypes' /\ WorkTypes' /\ ToolTypes' /\ SentTypes'
    BY <1>25 DEF LlmFails, callVars, earVars, workVars, toolVars, sentVars, CallTypes,
         EarTypes, QueueTypes, WorkTypes, ToolTypes, SentTypes
  <2>2. RespTypes'
    BY <1>25 DEF LlmFails, RespTypes, RespStates, Playbacks, Tools
  <2> QED BY <2>1, <2>2
<1>26. CASE TeardownDone
  <2>1. CallTypes' /\ EarTypes' /\ QueueTypes' /\ WorkTypes' /\ ToolTypes' /\ SentTypes'
    BY <1>26 DEF TeardownDone, callVars, earVars, workVars, toolVars, sentVars,
         CallTypes, EarTypes, QueueTypes, WorkTypes, ToolTypes, SentTypes
  <2>2. RespTypes'
    BY <1>26 DEF TeardownDone, RespTypes, RespStates, Playbacks, Tools
  <2> QED BY <2>1, <2>2
<1>27. CASE ToolsAsked
  <2>1. CallTypes' /\ EarTypes' /\ QueueTypes' /\ WorkTypes' /\ SentTypes'
    BY <1>27 DEF ToolsAsked, callVars, earVars, workVars, sentVars, CallTypes, EarTypes,
         QueueTypes, WorkTypes, SentTypes
  <2>2. RespTypes'
    BY <1>27 DEF ToolsAsked, RespTypes, RespStates, Playbacks, Tools
  <2>3. ToolTypes'
    BY <1>27 DEF ToolsAsked, ToolTypes
  <2> QED BY <2>1, <2>2, <2>3
<1>28. CASE RunTool
  <2>1. CallTypes' /\ EarTypes' /\ QueueTypes' /\ WorkTypes' /\ SentTypes'
    BY <1>28 DEF RunTool, callVars, earVars, workVars, sentVars, CallTypes, EarTypes,
         QueueTypes, WorkTypes, SentTypes
  <2>2. RespTypes'
    BY <1>28 DEF RunTool, RespTypes, RespStates, Playbacks, Tools
  <2>3. ToolTypes'
    BY <1>28 DEF RunTool, ToolTypes
  <2> QED BY <2>1, <2>2, <2>3
<1>29. CASE SaveFile
  <2>1. CallTypes' /\ EarTypes' /\ QueueTypes' /\ WorkTypes' /\ SentTypes'
    BY <1>29 DEF SaveFile, callVars, earVars, workVars, sentVars, CallTypes, EarTypes,
         QueueTypes, WorkTypes, SentTypes
  <2>2. RespTypes'
    <3>1. batch' \in Seq(Tools)
      BY <1>29 DEF SaveFile, RespTypes
    <3> QED BY <1>29, <3>1 DEF SaveFile, RespTypes
  <2>3. ToolTypes'
    BY <1>29 DEF SaveFile, ToolTypes
  <2> QED BY <2>1, <2>2, <2>3
<1>30. CASE SubmitDone
  <2>1. CallTypes' /\ EarTypes' /\ QueueTypes' /\ WorkTypes'
    BY <1>30 DEF SubmitDone, callVars, earVars, workVars, CallTypes, EarTypes,
         QueueTypes, WorkTypes
  <2>2. RespTypes'
    BY <1>30 DEF SubmitDone, SentOutcome, RespTypes, RespStates, Playbacks, Tools,
         SubmitInv
  <2>3. ToolTypes'
    BY <1>30 DEF SubmitDone, SentOutcome, ToolTypes
  <2>4. SentTypes'
    BY <1>30 DEF SubmitDone, SentOutcome, SentTypes
  <2> QED BY <2>1, <2>2, <2>3, <2>4
<1>31. CASE ToolsDone
  <2>1. EarTypes' /\ QueueTypes' /\ WorkTypes' /\ SentTypes'
    BY <1>31 DEF ToolsDone, earVars, workVars, sentVars, EarTypes, QueueTypes,
         WorkTypes, SentTypes
  <2>2. CallTypes'
    BY <1>31 DEF ToolsDone, Completed, CallTypes, StopReasons, ServerReasons
  <2>3. RespTypes'
    BY <1>31 DEF ToolsDone, Completed, RespTypes, RespStates, Playbacks, Tools
  <2>4. ToolTypes'
    BY <1>31 DEF ToolsDone, Completed, ToolTypes
  <2> QED BY <2>1, <2>2, <2>3, <2>4
<1>32. CASE Goodbye
  <2>1. CallTypes' /\ EarTypes' /\ QueueTypes' /\ WorkTypes' /\ ToolTypes' /\ SentTypes'
    BY <1>32 DEF Goodbye, callVars, earVars, workVars, toolVars, sentVars, CallTypes,
         EarTypes, QueueTypes, WorkTypes, ToolTypes, SentTypes
  <2>2. RespTypes'
    <3>1. ttsFailures' \in 0..2
      BY <1>32 DEF Goodbye, OneMoreFailure, RespTypes
    <3>2. resp' \in RespStates /\ playback' \in Playbacks
      BY <1>32 DEF Goodbye, RespTypes, RespStates, Playbacks
    <3>3. cancelled' \in BOOLEAN /\ spoke' \in BOOLEAN
      BY <1>32 DEF Goodbye, CallTypes, RespTypes
    <3> QED BY <1>32, <3>1, <3>2, <3>3 DEF Goodbye, RespTypes
  <2> QED BY <2>1, <2>2
<1>33. CASE Hangup
  <2>1. EarTypes' /\ QueueTypes' /\ WorkTypes' /\ ToolTypes'
    BY <1>33 DEF Hangup, earVars, workVars, toolVars, EarTypes, QueueTypes, WorkTypes,
         ToolTypes
  <2>2. CallTypes'
    BY <1>33 DEF Hangup, Sent, CallTypes, StopReasons, ServerReasons
  <2>3. RespTypes'
    BY <1>33 DEF Hangup, Sent, RespTypes, RespStates, Playbacks, Tools
  <2>4. SentTypes'
    BY <1>33 DEF Hangup, Sent, SentTypes
  <2> QED BY <2>1, <2>2, <2>3, <2>4
<1>34. CASE GraceOver
  <2>1. EarTypes' /\ QueueTypes' /\ WorkTypes' /\ ToolTypes' /\ SentTypes'
    BY <1>34 DEF GraceOver, earVars, workVars, toolVars, sentVars, EarTypes, QueueTypes,
         WorkTypes, ToolTypes, SentTypes
  <2>2. CallTypes'
    BY <1>34 DEF GraceOver, Stop, CallTypes, StopReasons, ServerReasons
  <2>3. RespTypes'
    BY <1>34 DEF GraceOver, Stop, RespTypes, RespStates, Playbacks, Tools
  <2> QED BY <2>1, <2>2, <2>3
<1>35. CASE Finish
  <2>1. EarTypes' /\ QueueTypes' /\ SentTypes'
    BY <1>35 DEF Finish, earVars, sentVars, EarTypes, QueueTypes, SentTypes
  <2>2. CallTypes'
    BY <1>35 DEF Finish, AfterCancel, CallTypes, StopReasons, ServerReasons
  <2>3. WorkTypes'
    BY <1>35 DEF Finish, AfterCancel, WorkTypes, WorkerStates
  <2>4. RespTypes'
    <3>1. resp' \in RespStates /\ cancelled' \in BOOLEAN
      BY <1>35 DEF Finish, AfterCancel, RespTypes, RespStates
    <3>2. batch' = batch \/ batch' = <<>>
      BY <1>35 DEF Finish
    <3>3. <<>> \in Seq(Tools)
      OBVIOUS
    <3>4. batch' \in Seq(Tools)
      BY <3>2, <3>3 DEF RespTypes
    <3> QED BY <1>35, <3>1, <3>4 DEF Finish, RespTypes
  <2>5. ToolTypes'
    BY <1>35 DEF Finish, AfterCancel, ToolTypes
  <2> QED BY <2>1, <2>2, <2>3, <2>4, <2>5
<1>36. CASE Finalize
  <2>1. EarTypes' /\ QueueTypes' /\ WorkTypes' /\ RespTypes' /\ ToolTypes'
    BY <1>36 DEF Finalize, earVars, workVars, respVars, toolVars, EarTypes, QueueTypes,
         WorkTypes, RespTypes, ToolTypes
  <2>2. CallTypes'
    BY <1>36 DEF Finalize, SentOutcome, CallTypes, StopReasons, ServerReasons
  <2>3. SentTypes'
    BY <1>36 DEF Finalize, SentOutcome, SentTypes
  <2> QED BY <2>1, <2>2, <2>3
<1>37. CASE PlaybackAdvances
  <2>1. CallTypes' /\ EarTypes' /\ QueueTypes' /\ WorkTypes' /\ ToolTypes' /\ SentTypes'
    BY <1>37 DEF PlaybackAdvances, callVars, earVars, workVars, toolVars, sentVars,
         CallTypes, EarTypes, QueueTypes, WorkTypes, ToolTypes, SentTypes
  <2>2. RespTypes'
    BY <1>37 DEF PlaybackAdvances, Audible, RespTypes, RespStates, Playbacks, Tools
  <2> QED BY <2>1, <2>2
<1>38. CASE UNCHANGED vars
  BY <1>38 DEF vars, callVars, earVars, workVars, respVars, toolVars, sentVars,
       CallTypes, EarTypes, QueueTypes, WorkTypes, RespTypes, ToolTypes, SentTypes
<1> QED BY <1>1, <1>2, <1>3, <1>4, <1>5, <1>6, <1>7, <1>8, <1>9, <1>10, <1>11, <1>12,
     <1>13, <1>14, <1>15, <1>16, <1>17, <1>18, <1>19, <1>20, <1>21, <1>22, <1>23, <1>24,
     <1>25, <1>26, <1>27, <1>28, <1>29, <1>30, <1>31, <1>32, <1>33, <1>34, <1>35, <1>36,
     <1>37, <1>38 DEF Next, Client, Watchdog, Worker, Response, Tool

-----------------------------------------------------------------------------
(* The parts of the invariant *)
\* What is stored, what `saved` and the fallback claim, and what the client was sent.
OutcomeInv ==
  /\ saved => store = "agent"
  /\ fallback => store # "none" /\ run # "serving"
  /\ run # "serving" /\ "disk" \notin Faults => store # "none"
  /\ outcomes \in {<<>>, <<"agent">>, <<"fallback">>, <<"agent", "fallback">>}
  /\ outcomes \in {<<"fallback">>, <<"agent", "fallback">>} => run = "closed"
  /\ outcomes \in {<<"agent">>, <<"agent", "fallback">>} => saved
  /\ outcomes # <<>> => store # "none"

\* Before the call is accepted nobody works on the customer's words and no tool ran.
RingingInv ==
  ~accepted => /\ playback = "none" /\ ~audioSent
               /\ ~inSpeech /\ queue = <<>> /\ ~heard
               /\ ~openCalls
               /\ worker \in {"get", "dead"}
               /\ resp \notin {"tools", "goodbye"}
               /\ ~saved /\ ~endRequested

\* The response is gone when words said on a silent line are transcribed and when any
\* words are recorded; tool calls are open only while the tools run, or for good when the
\* call's end cut them off.
TurnInv ==
  /\ worker = "stt" /\ ~segment => resp = "idle"
  /\ worker = "told" => resp = "idle"
  /\ run # "serving" => worker = "dead"
  /\ openCalls => resp = "tools" \/ (run # "serving" /\ resp = "idle")

\* A completed call is ending, the model is not asked again, and a worker that waits to
\* start a response waits for one that is cancelled and will not complete the call
\* without stopping it.
CompletionInv ==
  /\ disconnected => stop # "none"
  /\ resp \in {"goodbye", "hangup", "grace", "ttsEnd"} => ending
  /\ resp \in {"model", "failing"} => ~Completed
  /\ Completed => ending \/ resp = "tools" \/ run # "serving"
  /\ worker \in {"reply", "resume"} /\ stop = "none" =>
       IF resp = "idle" THEN ~Completed ELSE cancelled


LEMMA AppendFallback ==
  /\ Append(<<>>, "fallback") = <<"fallback">>
  /\ Append(<<"agent">>, "fallback") = <<"agent", "fallback">>
<1>1. Append(<<>>, "fallback") = <<"fallback">>
  OBVIOUS
<1> DEFINE both == Append(<<"agent">>, "fallback")
<1>2. /\ <<"agent">> \in Seq({"agent", "fallback"})
      /\ <<"agent", "fallback">> \in Seq({"agent", "fallback"})
      /\ Len(<<"agent", "fallback">>) = 2
  OBVIOUS
<1>3. /\ both \in Seq({"agent", "fallback"})
      /\ Len(both) = 2 /\ both[1] = "agent" /\ both[2] = "fallback"
  BY <1>2, AppendProperties
<1> HIDE DEF both
<1>4. \A i \in 1..2 : both[i] = <<"agent", "fallback">>[i]
  BY <1>3
<1>5. both = <<"agent", "fallback">>
  BY <1>2, <1>3, <1>4, SeqEqual
<1> QED BY <1>1, <1>5 DEF both

LEMMA SubmitStep ==
  ASSUME TypeOK, SubmitInv, RingingInv, [Next]_vars
  PROVE  SubmitInv'
<1> USE DEF SubmitInv, RingingInv
<1>1. CASE Accept
  BY <1>1 DEF Accept, respVars, NewResponse, toolVars
<1>2. CASE SpeechStart
  BY <1>2 DEF SpeechStart, respVars, BargeIn, AskCancel, AfterCancel, toolVars
<1>3. CASE BargeConfirmed
  BY <1>3 DEF BargeConfirmed, BargeIn, AskCancel, AfterCancel, toolVars
<1>4. CASE TakeSegment
  BY <1>4 DEF TakeSegment, AskCancel, AfterCancel, Await, toolVars
<1>5. CASE SttEcho
  BY <1>5 DEF SttEcho, StartResponse, NewResponse, AskCancel, AfterCancel, respVars,
       toolVars
<1>6. CASE SttEmpty
  BY <1>6 DEF SttEmpty, Answer, StartResponse, NewResponse, AskCancel, AfterCancel,
       respVars, toolVars
<1>7. CASE SttWords
  BY <1>7 DEF SttWords, AskCancel, AfterCancel, toolVars
<1>8. CASE Told
  BY <1>8 DEF Told, Answer, StartResponse, NewResponse, AskCancel, AfterCancel,
       respVars, toolVars
<1>9. CASE StartAwaited
  BY <1>9 DEF StartAwaited, NewResponse, toolVars
<1>10. CASE TtsFails
  BY <1>10 DEF TtsFails, toolVars
<1>11. CASE TtsGivesUp
  BY <1>11 DEF TtsGivesUp, Sent, toolVars
<1>12. CASE TtsEndStops
  BY <1>12 DEF TtsEndStops, toolVars
<1>13. CASE TurnDone
  BY <1>13 DEF TurnDone, toolVars
<1>14. CASE LlmFails
  BY <1>14 DEF LlmFails, toolVars
<1>15. CASE TeardownDone
  BY <1>15 DEF TeardownDone, toolVars
<1>16. CASE ToolsAsked
  BY <1>16 DEF ToolsAsked
<1>17. CASE RunTool
  BY <1>17 DEF RunTool
<1>18. CASE SaveFile
  BY <1>18 DEF SaveFile
<1>19. CASE SubmitDone
  BY <1>19 DEF SubmitDone, SentOutcome
<1>20. CASE ToolsDone
  BY <1>20 DEF ToolsDone, Completed, SaysGoodbye
<1>21. CASE Goodbye
  BY <1>21 DEF Goodbye, toolVars
<1>22. CASE Hangup
  BY <1>22 DEF Hangup, Sent, toolVars
<1>23. CASE GraceOver
  BY <1>23 DEF GraceOver, toolVars
<1>24. CASE Finish
  BY <1>24 DEF Finish, AfterCancel, NeedsFallback
<1>25. CASE CustomerHangup \/ LineDrops \/ SpeechEnd \/ TaskFails \/ MaxDuration \/
             IdleTimeout \/ ServerEndStops \/ YieldDone \/ SttFails \/ YieldWordsDone \/ Speak
             \/ Finalize \/ PlaybackAdvances
  BY <1>25 DEF CustomerHangup, LineDrops, SpeechEnd, TaskFails, MaxDuration,
       IdleTimeout, ServerEndStops, YieldDone, SttFails, YieldWordsDone, Speak,
       Finalize, PlaybackAdvances, respVars, toolVars
<1>26. CASE UNCHANGED vars
  BY <1>26 DEF vars, respVars, toolVars
<1> QED BY <1>1, <1>2, <1>3, <1>4, <1>5, <1>6, <1>7, <1>8, <1>9, <1>10, <1>11, <1>12,
     <1>13, <1>14, <1>15, <1>16, <1>17, <1>18, <1>19, <1>20, <1>21, <1>22, <1>23, <1>24,
     <1>25, <1>26 DEF Next, Client, Watchdog, Worker, Response, Tool

LEMMA OutcomeStep ==
  ASSUME TypeOK, OutcomeInv, SubmitInv, [Next]_vars
  PROVE  OutcomeInv'
<1> USE DEF OutcomeInv, SubmitInv
<1>1. CASE SaveFile
  BY <1>1 DEF SaveFile, RespRuns, Serving, callVars, sentVars
<1>2. CASE SubmitDone
  <2>1. /\ outcomes' = outcomes \/ outcomes' = Append(outcomes, "agent")
        /\ saved' /\ store' = "agent" /\ fallback' = fallback /\ run' = run
    BY <1>2 DEF SubmitDone, SentOutcome, callVars
  <2>2. outcomes = <<>>
    BY <1>2 DEF SubmitDone, RespRuns, Serving
  <2>3. Append(<<>>, "agent") = <<"agent">>
    OBVIOUS
  <2>4. outcomes' \in {<<>>, <<"agent">>}
    BY <2>1, <2>2, <2>3
  <2>5. fallback => run # "serving"
    OBVIOUS
  <2> QED BY <2>1, <2>4, <2>5
<1>3. CASE Finish
  BY <1>3 DEF Finish, AfterCancel, NeedsFallback, sentVars
<1>4. CASE Finalize
  <2>1. outcomes \in {<<>>, <<"agent">>}
    BY <1>4 DEF Finalize
  <2>2. /\ Append(<<>>, "fallback") = <<"fallback">>
        /\ Append(<<"agent">>, "fallback") = <<"agent", "fallback">>
    BY AppendFallback
  <2>3. \/ outcomes' = outcomes
        \/ fallback /\ outcomes' = Append(outcomes, "fallback")
    BY <1>4 DEF Finalize, SentOutcome
  <2>4. outcomes' \in {<<>>, <<"agent">>, <<"fallback">>, <<"agent", "fallback">>}
    BY <2>1, <2>2, <2>3
  <2>5. /\ run' = "closed" /\ run = "draining"
        /\ UNCHANGED <<saved, store, fallback>>
    BY <1>4 DEF Finalize, toolVars
  <2>6. outcomes' \in {<<"agent">>, <<"agent", "fallback">>} => outcomes = <<"agent">>
    BY <2>1, <2>2, <2>3
  <2>7. outcomes' # <<>> => fallback \/ outcomes # <<>>
    BY <2>1, <2>3
  <2> QED BY <2>4, <2>5, <2>6, <2>7
<1>5. CASE Accept \/ CustomerHangup \/ LineDrops \/ SpeechStart \/ BargeConfirmed \/
             SpeechEnd \/ TaskFails \/ MaxDuration \/ IdleTimeout \/ ServerEndStops \/
             TakeSegment \/ YieldDone \/ SttFails \/ SttEcho \/ SttEmpty \/ SttWords \/
             YieldWordsDone \/ Told \/ StartAwaited \/ Speak \/ TtsFails \/ TtsGivesUp \/
             TtsEndStops \/ TurnDone \/ LlmFails \/ TeardownDone \/ ToolsAsked \/ RunTool \/
             ToolsDone \/ Goodbye \/ Hangup \/ GraceOver \/ PlaybackAdvances
  BY <1>5 DEF Accept, CustomerHangup, LineDrops, SpeechStart, BargeConfirmed, SpeechEnd,
       TaskFails, MaxDuration, IdleTimeout, ServerEndStops, TakeSegment, YieldDone,
       SttFails, SttEcho, SttEmpty, SttWords, YieldWordsDone, Told, StartAwaited, Speak,
       TtsFails, TtsGivesUp, TtsEndStops, TurnDone, LlmFails, TeardownDone, ToolsAsked,
       RunTool, ToolsDone, Goodbye, Hangup, GraceOver, PlaybackAdvances, Receiving,
       Serving, toolVars, sentVars, Listening, callVars, ServerEnd, Watches, Working,
       RespRuns, Completed, SaysGoodbye
<1>6. CASE UNCHANGED vars
  BY <1>6 DEF vars, callVars, toolVars, sentVars
<1> QED BY <1>1, <1>2, <1>3, <1>4, <1>5, <1>6 DEF Next, Client, Watchdog, Worker,
     Response, Tool

LEMMA RingingStep ==
  ASSUME TypeOK, RingingInv, SubmitInv, [Next]_vars
  PROVE  RingingInv'
<1> USE DEF SubmitInv, RingingInv
<1>1. CASE Accept
  BY <1>1 DEF Accept, respVars, NewResponse, earVars, workVars, toolVars
<1>2. CASE SpeechStart
  BY <1>2 DEF SpeechStart, Listening, Audible, workVars, respVars, BargeIn, AskCancel,
       AfterCancel, Playing, callVars, toolVars
<1>3. CASE BargeConfirmed
  BY <1>3 DEF BargeConfirmed, Listening, BargeIn, AskCancel, AfterCancel, Playing,
       callVars, toolVars
<1>4. CASE SpeechEnd
  BY <1>4 DEF SpeechEnd, Listening, callVars, QueueFull, ServerEnd, Sent, workVars,
       respVars, toolVars
<1>5. CASE TakeSegment
  BY <1>5 DEF TakeSegment, Working, AskCancel, AfterCancel, Await, callVars, earVars,
       toolVars
<1>6. CASE YieldDone
  BY <1>6 DEF YieldDone, Working, callVars, earVars, respVars, toolVars
<1>7. CASE SttFails
  BY <1>7 DEF SttFails, Working, callVars, ServerEnd, Sent, earVars, respVars, toolVars
<1>8. CASE SttEcho
  BY <1>8 DEF SttEcho, Working, CustomerQuiet, StartResponse, NewResponse, AskCancel,
       AfterCancel, respVars, callVars, earVars, toolVars
<1>9. CASE SttEmpty
  BY <1>9 DEF SttEmpty, Working, Answer, CustomerQuiet, StartResponse, NewResponse,
       AskCancel, AfterCancel, respVars, callVars, earVars, toolVars
<1>10. CASE SttWords
  BY <1>10 DEF SttWords, Working, AskCancel, AfterCancel, Record, callVars, earVars,
       toolVars
<1>11. CASE YieldWordsDone
  BY <1>11 DEF YieldWordsDone, Working, Record, callVars, earVars, respVars, toolVars
<1>12. CASE Told
  BY <1>12 DEF Told, Working, Answer, CustomerQuiet, StartResponse, NewResponse,
       AskCancel, AfterCancel, respVars, callVars, earVars, toolVars
<1>13. CASE StartAwaited
  BY <1>13 DEF StartAwaited, NewResponse, callVars, earVars, toolVars
<1>14. CASE Speak
  BY <1>14 DEF Speak, callVars, earVars, workVars, toolVars
<1>15. CASE TtsFails
  BY <1>15 DEF TtsFails, callVars, earVars, workVars, toolVars
<1>16. CASE TtsGivesUp
  BY <1>16 DEF TtsGivesUp, Sent, earVars, workVars, toolVars
<1>17. CASE TtsEndStops
  BY <1>17 DEF TtsEndStops, earVars, workVars, toolVars
<1>18. CASE TurnDone
  BY <1>18 DEF TurnDone, callVars, earVars, workVars, toolVars
<1>19. CASE LlmFails
  BY <1>19 DEF LlmFails, callVars, earVars, workVars, toolVars
<1>20. CASE TeardownDone
  BY <1>20 DEF TeardownDone, callVars, earVars, workVars, toolVars
<1>21. CASE ToolsAsked
  BY <1>21 DEF ToolsAsked, callVars, earVars, workVars
<1>22. CASE RunTool
  BY <1>22 DEF RunTool, callVars, earVars, workVars
<1>23. CASE SubmitDone
  BY <1>23 DEF SubmitDone, SentOutcome, callVars, earVars, workVars
<1>24. CASE ToolsDone
  BY <1>24 DEF ToolsDone, Completed, SaysGoodbye, earVars, workVars
<1>25. CASE Goodbye
  BY <1>25 DEF Goodbye, callVars, earVars, workVars, toolVars
<1>26. CASE Hangup
  BY <1>26 DEF Hangup, Playing, Sent, earVars, workVars, toolVars
<1>27. CASE GraceOver
  BY <1>27 DEF GraceOver, earVars, workVars, toolVars
<1>28. CASE Finish
  BY <1>28 DEF Finish, AfterCancel, NeedsFallback, earVars
<1>29. CASE PlaybackAdvances
  BY <1>29 DEF PlaybackAdvances, Audible, callVars, earVars, workVars, toolVars
<1>30. CASE CustomerHangup \/ LineDrops \/ TaskFails \/ MaxDuration \/ IdleTimeout \/
             ServerEndStops \/ SaveFile \/ Finalize
  BY <1>30 DEF CustomerHangup, LineDrops, TaskFails, MaxDuration, IdleTimeout,
       ServerEndStops, SaveFile, Finalize, earVars, workVars, respVars, toolVars,
       ServerEnd, callVars
<1>31. CASE UNCHANGED vars
  BY <1>31 DEF vars, callVars, earVars, workVars, respVars, toolVars
<1> QED BY <1>1, <1>2, <1>3, <1>4, <1>5, <1>6, <1>7, <1>8, <1>9, <1>10, <1>11, <1>12,
     <1>13, <1>14, <1>15, <1>16, <1>17, <1>18, <1>19, <1>20, <1>21, <1>22, <1>23, <1>24,
     <1>25, <1>26, <1>27, <1>28, <1>29, <1>30, <1>31 DEF Next, Client, Watchdog, Worker,
     Response, Tool

LEMMA TurnStep ==
  ASSUME TypeOK, TurnInv, RingingInv, [Next]_vars
  PROVE  TurnInv'
<1> USE DEF TurnInv, RingingInv
<1>1. CASE Accept
  BY <1>1 DEF Accept, Receiving, Serving, respVars, NewResponse, workVars, toolVars
<1>2. CASE SpeechStart
  BY <1>2 DEF SpeechStart, Listening, Receiving, Serving, workVars, respVars, BargeIn,
       AskCancel, AfterCancel, callVars, toolVars
<1>3. CASE BargeConfirmed
  BY <1>3 DEF BargeConfirmed, Listening, Receiving, Serving, BargeIn, AskCancel,
       AfterCancel, callVars, toolVars
<1>4. CASE TakeSegment
  BY <1>4 DEF TakeSegment, Working, Serving, AskCancel, AfterCancel, Await, callVars,
       toolVars
<1>5. CASE YieldDone
  BY <1>5 DEF YieldDone, Working, Serving, callVars, respVars, toolVars
<1>6. CASE SttFails
  BY <1>6 DEF SttFails, Working, Serving, callVars, ServerEnd, Sent, respVars, toolVars
<1>7. CASE SttEcho
  BY <1>7 DEF SttEcho, Working, Serving, StartResponse, NewResponse, AskCancel,
       AfterCancel, respVars, callVars, toolVars
<1>8. CASE SttEmpty
  BY <1>8 DEF SttEmpty, Working, Serving, Answer, StartResponse, NewResponse, AskCancel,
       AfterCancel, respVars, callVars, toolVars
<1>9. CASE SttWords
  BY <1>9 DEF SttWords, Working, Serving, AskCancel, AfterCancel, Record, callVars,
       toolVars
<1>10. CASE YieldWordsDone
  BY <1>10 DEF YieldWordsDone, Working, Serving, Record, callVars, respVars, toolVars
<1>11. CASE Told
  BY <1>11 DEF Told, Working, Serving, Answer, StartResponse, NewResponse, AskCancel,
       AfterCancel, respVars, callVars, toolVars
<1>12. CASE StartAwaited
  BY <1>12 DEF StartAwaited, Serving, NewResponse, callVars, toolVars
<1>13. CASE TtsFails
  BY <1>13 DEF TtsFails, RespRuns, Serving, callVars, workVars, toolVars
<1>14. CASE TtsGivesUp
  BY <1>14 DEF TtsGivesUp, RespRuns, Serving, Sent, workVars, toolVars
<1>15. CASE TtsEndStops
  BY <1>15 DEF TtsEndStops, RespRuns, Serving, workVars, toolVars
<1>16. CASE TurnDone
  BY <1>16 DEF TurnDone, RespRuns, Serving, callVars, workVars, toolVars
<1>17. CASE LlmFails
  BY <1>17 DEF LlmFails, RespRuns, Serving, callVars, workVars, toolVars
<1>18. CASE TeardownDone
  BY <1>18 DEF TeardownDone, RespRuns, Serving, callVars, workVars, toolVars
<1>19. CASE ToolsAsked
  BY <1>19 DEF ToolsAsked, RespRuns, Serving, callVars, workVars
<1>20. CASE ToolsDone
  BY <1>20 DEF ToolsDone, RespRuns, Serving, workVars
<1>21. CASE Goodbye
  BY <1>21 DEF Goodbye, RespRuns, Serving, callVars, workVars, toolVars
<1>22. CASE Hangup
  BY <1>22 DEF Hangup, RespRuns, Serving, Sent, workVars, toolVars
<1>23. CASE GraceOver
  BY <1>23 DEF GraceOver, RespRuns, Serving, workVars, toolVars
<1>24. CASE Finish
  BY <1>24 DEF Finish, AfterCancel
<1>25. CASE Finalize
  BY <1>25 DEF Finalize, SentOutcome, workVars, respVars, toolVars
<1>26. CASE CustomerHangup \/ LineDrops \/ SpeechEnd \/ TaskFails \/ MaxDuration \/
             IdleTimeout \/ ServerEndStops \/ Speak \/ RunTool \/ SaveFile \/ SubmitDone \/
             PlaybackAdvances
  BY <1>26 DEF CustomerHangup, LineDrops, SpeechEnd, TaskFails, MaxDuration,
       IdleTimeout, ServerEndStops, Speak, RunTool, SaveFile, SubmitDone,
       PlaybackAdvances, Receiving, Serving, workVars, respVars, toolVars, Listening,
       callVars, ServerEnd, Watches, RespRuns
<1>27. CASE UNCHANGED vars
  BY <1>27 DEF vars, callVars, workVars, respVars, toolVars
<1> QED BY <1>1, <1>2, <1>3, <1>4, <1>5, <1>6, <1>7, <1>8, <1>9, <1>10, <1>11, <1>12,
     <1>13, <1>14, <1>15, <1>16, <1>17, <1>18, <1>19, <1>20, <1>21, <1>22, <1>23, <1>24,
     <1>25, <1>26, <1>27 DEF Next, Client, Watchdog, Worker, Response, Tool

LEMMA CompletionStep ==
  ASSUME TypeOK, CompletionInv, SubmitInv, RingingInv, [Next]_vars
  PROVE  CompletionInv'
<1> USE DEF CompletionInv, SubmitInv, RingingInv, Completed
<1>1. CASE Accept
  BY <1>1 DEF Accept, Receiving, Serving, respVars, NewResponse, workVars, toolVars
<1>2. CASE CustomerHangup
  BY <1>2 DEF CustomerHangup, Receiving, Serving, Stop, workVars, respVars, toolVars
<1>3. CASE LineDrops
  BY <1>3 DEF LineDrops, Serving, Stop, workVars, respVars, toolVars
<1>4. CASE SpeechStart
  BY <1>4 DEF SpeechStart, Listening, Receiving, Serving, workVars, respVars, BargeIn,
       AskCancel, AfterCancel, callVars, toolVars
<1>5. CASE BargeConfirmed
  BY <1>5 DEF BargeConfirmed, Listening, Receiving, Serving, BargeIn, AskCancel,
       AfterCancel, callVars, toolVars
<1>6. CASE SpeechEnd
  <2>1. /\ ending => ending'
        /\ UNCHANGED <<disconnected, stop, run>>
    BY <1>6 DEF SpeechEnd, ServerEnd, callVars
  <2>2. UNCHANGED <<worker, resp, cancelled, saved, endRequested>>
    BY <1>6 DEF SpeechEnd, workVars, respVars, toolVars
  <2> QED BY <2>1, <2>2
<1>7. CASE TaskFails
  BY <1>7 DEF TaskFails, Serving, Stop, workVars, respVars, toolVars
<1>8. CASE MaxDuration
  BY <1>8 DEF MaxDuration, Watches, Serving, ServerEnd, Sent, workVars, respVars,
       toolVars
<1>9. CASE IdleTimeout
  BY <1>9 DEF IdleTimeout, Watches, Serving, ServerEnd, Sent, workVars, respVars,
       toolVars
<1>10. CASE ServerEndStops
  BY <1>10 DEF ServerEndStops, Serving, Stop, workVars, respVars, toolVars
<1>11. CASE TakeSegment
  BY <1>11 DEF TakeSegment, Working, Serving, AskCancel, AfterCancel, Await, callVars,
       toolVars
<1>12. CASE YieldDone
  BY <1>12 DEF YieldDone, Working, Serving, callVars, respVars, toolVars
<1>13. CASE SttFails
  BY <1>13 DEF SttFails, Working, Serving, callVars, ServerEnd, Sent, respVars, toolVars
<1>14. CASE SttEcho
  BY <1>14 DEF SttEcho, Working, Serving, CustomerQuiet, StartResponse, NewResponse,
       AskCancel, AfterCancel, respVars, callVars, toolVars
<1>15. CASE SttEmpty
  BY <1>15 DEF SttEmpty, Working, Serving, Answer, CustomerQuiet, StartResponse,
       NewResponse, AskCancel, AfterCancel, respVars, callVars, toolVars
<1>16. CASE SttWords
  BY <1>16 DEF SttWords, Working, Serving, AskCancel, AfterCancel, callVars, toolVars
<1>17. CASE YieldWordsDone
  BY <1>17 DEF YieldWordsDone, Working, Serving, callVars, respVars, toolVars
<1>18. CASE Told
  BY <1>18 DEF Told, Working, Serving, Answer, CustomerQuiet, StartResponse,
       NewResponse, AskCancel, AfterCancel, respVars, callVars, toolVars
<1>19. CASE StartAwaited
  BY <1>19 DEF StartAwaited, Serving, NewResponse, callVars, toolVars
<1>20. CASE TtsFails
  BY <1>20 DEF TtsFails, RespRuns, Serving, callVars, workVars, toolVars
<1>21. CASE TtsGivesUp
  BY <1>21 DEF TtsGivesUp, RespRuns, Serving, Sent, workVars, toolVars
<1>22. CASE TtsEndStops
  BY <1>22 DEF TtsEndStops, RespRuns, Serving, Stop, workVars, toolVars
<1>23. CASE TurnDone
  BY <1>23 DEF TurnDone, RespRuns, Serving, callVars, workVars, toolVars
<1>24. CASE LlmFails
  BY <1>24 DEF LlmFails, RespRuns, Serving, callVars, workVars, toolVars
<1>25. CASE TeardownDone
  BY <1>25 DEF TeardownDone, RespRuns, Serving, callVars, workVars, toolVars
<1>26. CASE ToolsAsked
  BY <1>26 DEF ToolsAsked, RespRuns, Serving, callVars, workVars
<1>27. CASE RunTool
  BY <1>27 DEF RunTool, RespRuns, Serving, callVars, workVars
<1>28. CASE SubmitDone
  BY <1>28 DEF SubmitDone, RespRuns, Serving, SentOutcome, callVars, workVars
<1>29. CASE ToolsDone
  BY <1>29 DEF ToolsDone, RespRuns, Serving, Completed, SaysGoodbye, workVars
<1>30. CASE Goodbye
  BY <1>30 DEF Goodbye, RespRuns, Serving, callVars, workVars, toolVars
<1>31. CASE Hangup
  BY <1>31 DEF Hangup, RespRuns, Serving, Sent, workVars, toolVars
<1>32. CASE GraceOver
  BY <1>32 DEF GraceOver, RespRuns, Serving, Stop, workVars, toolVars
<1>33. CASE Finish
  BY <1>33 DEF Finish, AfterCancel, NeedsFallback
<1>34. CASE Finalize
  BY <1>34 DEF Finalize, SentOutcome, workVars, respVars, toolVars
<1>35. CASE Speak \/ SaveFile \/ PlaybackAdvances
  BY <1>35 DEF Speak, SaveFile, PlaybackAdvances, RespRuns, Serving, callVars, workVars,
       toolVars
<1>36. CASE UNCHANGED vars
  BY <1>36 DEF vars, callVars, workVars, respVars, toolVars
<1> QED BY <1>1, <1>2, <1>3, <1>4, <1>5, <1>6, <1>7, <1>8, <1>9, <1>10, <1>11, <1>12,
     <1>13, <1>14, <1>15, <1>16, <1>17, <1>18, <1>19, <1>20, <1>21, <1>22, <1>23, <1>24,
     <1>25, <1>26, <1>27, <1>28, <1>29, <1>30, <1>31, <1>32, <1>33, <1>34, <1>35, <1>36
     DEF Next, Client, Watchdog, Worker, Response, Tool

-----------------------------------------------------------------------------
(* Theorems *)

CallInv ==
  TypeOK /\ SubmitInv /\ OutcomeInv /\ RingingInv /\ TurnInv /\ CompletionInv

\* Every reachable state of a call is typed and satisfies all the parts.
THEOREM CallInvCorrect == Spec => []CallInv
<1>1. Init => CallInv
  <2> SUFFICES ASSUME Init PROVE CallInv
    OBVIOUS
  <2>0. MaxQueue \in Nat /\ MaxUtterances \in Nat /\ MaxToolRounds \in Nat
    BY CallAssumption
  <2> USE DEF Init
  <2>1. CallTypes
    <3>1. /\ accepted \in BOOLEAN /\ ending \in BOOLEAN
          /\ disconnected \in BOOLEAN /\ watching \in BOOLEAN
      BY Zenon
    <3> QED BY <3>1 DEF CallTypes
  <2>2. EarTypes
    <3>1. inSpeech \in BOOLEAN /\ overlap \in BOOLEAN /\ bargePending \in BOOLEAN
      BY Zenon
    <3> QED BY <2>0, <3>1 DEF EarTypes
  <2>3. QueueTypes
    <3>1. queue = <<>> /\ <<>> \in Seq(BOOLEAN) /\ Len(<<>>) = 0
      OBVIOUS
    <3> QED BY <2>0, <3>1 DEF QueueTypes
  <2>4. WorkTypes
    <3>1. /\ segment \in BOOLEAN /\ fresh \in BOOLEAN
          /\ pending \in BOOLEAN /\ resumePending \in BOOLEAN /\ heard \in BOOLEAN
      BY Zenon
    <3> QED BY <3>1 DEF WorkTypes, WorkerStates
  <2>5. RespTypes
    <3>1. resp \in RespStates /\ playback \in Playbacks /\ rounds \in 0..MaxToolRounds
      BY <2>0 DEF RespStates, Playbacks
    <3>2. batch = <<>> /\ <<>> \in Seq(Tools)
      OBVIOUS
    <3>3. cancelled \in BOOLEAN /\ audioSent \in BOOLEAN /\ spoke \in BOOLEAN
      BY Zenon
    <3> QED BY <3>1, <3>2, <3>3 DEF RespTypes
  <2>6. ToolTypes
    <3>1. /\ submitting \in BOOLEAN /\ saved \in BOOLEAN /\ endRequested \in BOOLEAN
          /\ openCalls \in BOOLEAN /\ fallback \in BOOLEAN
      BY Zenon
    <3> QED BY <3>1 DEF ToolTypes
  <2>7. SentTypes
    BY DEF SentTypes
  <2>8. SubmitInv /\ OutcomeInv /\ RingingInv /\ TurnInv /\ CompletionInv
    BY DEF SubmitInv, OutcomeInv, RingingInv, TurnInv, CompletionInv, Completed
  <2> QED BY <2>1, <2>2, <2>3, <2>4, <2>5, <2>6, <2>7, <2>8 DEF CallInv, TypeOK
<1>2. CallInv /\ [Next]_vars => CallInv'
  BY TypeStep, SubmitStep, OutcomeStep, RingingStep, TurnStep, CompletionStep DEF CallInv
<1> QED BY <1>1, <1>2, PTL DEF Spec

\* The variables keep their types: the audio queue, the tool rounds and the failure
\* counters never leave their bounds (stream.py 490-507, 585-593, 757-769).
THEOREM TypeCorrect == Spec => []TypeOK
<1>1. CallInv => TypeOK
  BY DEF CallInv
<1> QED BY <1>1, CallInvCorrect, PTL

\* No sound, no listening and no tool before the customer picks up (stream.py 465, 661,
\* 783).
THEOREM SilentCorrect == Spec => []SilentUntilAccepted
<1>1. CallInv => SilentUntilAccepted
  BY DEF CallInv, RingingInv, SilentUntilAccepted
<1> QED BY <1>1, CallInvCorrect, PTL

\* The model never sees tool calls without their results, and no customer line is put
\* between them (stream.py 607-618, 662-668, 735-740).
THEOREM HistoryCorrect == Spec => []HistoryWellFormed
<1>1. CallInv => HistoryWellFormed
  BY DEF CallInv, TurnInv, HistoryWellFormed
<1> QED BY <1>1, CallInvCorrect, PTL

\* Nothing is generated or spoken while words said on a silent line are transcribed
\* (stream.py 574-579).
THEOREM OwnTurnCorrect == Spec => []OwnTurnUninterrupted
<1>1. CallInv => OwnTurnUninterrupted
  BY DEF CallInv, TurnInv, OwnTurnUninterrupted
<1> QED BY <1>1, CallInvCorrect, PTL

\* The client is told only of outcomes that are stored (stream.py 741-743, 405-407).
THEOREM OutcomeToldCorrect == Spec => []OutcomeToldIsStored
<1>1. ASSUME CallInv PROVE OutcomeToldIsStored
  <2> USE <1>1 DEF CallInv, TypeOK, ToolTypes, OutcomeInv, OutcomeToldIsStored
  <2>1. CASE outcomes = <<>>
    BY <2>1
  <2>2. CASE outcomes = <<"agent">>
    BY <2>2
  <2>3. CASE outcomes = <<"fallback">>
    BY <2>3
  <2>4. CASE outcomes = <<"agent", "fallback">>
    BY <2>4
  <2> QED BY <2>1, <2>2, <2>3, <2>4
<1>2. CallInv => OutcomeToldIsStored
  BY <1>1
<1> QED BY <1>2, CallInvCorrect, PTL

\* A call that is over has an outcome, if the disk works (stream.py 363-371).
THEOREM EveryCallHasOutcomeCorrect == Spec => []EveryCallHasOutcome
<1>1. CallInv => EveryCallHasOutcome
  BY DEF CallInv, OutcomeInv, EveryCallHasOutcome
<1> QED BY <1>1, CallInvCorrect, PTL

-----------------------------------------------------------------------------
(* Steps *)

\* What a step does to the store: a fallback only where nothing is, the agent's outcome
\* in place of anything else.
LEMMA StoreStep ==
  ASSUME CallInv, [Next]_vars
  PROVE  \/ store' = store
         \/ store = "none" /\ store' = "fallback"
         \/ store # "agent" /\ store' = "agent"
<1>1. CASE SaveFile
  BY <1>1 DEF SaveFile
<1>2. CASE Finish
  BY <1>2 DEF Finish, NeedsFallback
<1>3. CASE Accept \/ CustomerHangup \/ LineDrops \/ SpeechStart \/ BargeConfirmed \/
             SpeechEnd \/ TaskFails \/ MaxDuration \/ IdleTimeout \/ ServerEndStops \/
             TakeSegment \/ YieldDone \/ SttFails \/ SttEcho \/ SttEmpty \/ SttWords \/
             YieldWordsDone \/ Told \/ StartAwaited \/ Speak \/ TtsFails \/ TtsGivesUp \/
             TtsEndStops \/ TurnDone \/ LlmFails \/ TeardownDone \/ ToolsAsked \/ RunTool \/
             SubmitDone \/ ToolsDone \/ Goodbye \/ Hangup \/ GraceOver \/ Finalize \/
             PlaybackAdvances
  BY <1>3 DEF Accept, CustomerHangup, LineDrops, SpeechStart, BargeConfirmed, SpeechEnd,
       TaskFails, MaxDuration, IdleTimeout, ServerEndStops, TakeSegment, YieldDone,
       SttFails, SttEcho, SttEmpty, SttWords, YieldWordsDone, Told, StartAwaited, Speak,
       TtsFails, TtsGivesUp, TtsEndStops, TurnDone, LlmFails, TeardownDone, ToolsAsked,
       RunTool, SubmitDone, ToolsDone, Goodbye, Hangup, GraceOver, Finalize,
       PlaybackAdvances, toolVars
<1>4. CASE UNCHANGED vars
  BY <1>4 DEF vars, toolVars
<1> QED BY <1>1, <1>2, <1>3, <1>4 DEF Next, Client, Watchdog, Worker, Response, Tool

\* The tools forget neither that the outcome is saved nor that the end was asked for.
LEMMA CompletedStays ==
  ASSUME CallInv, [Next]_vars
  PROVE  (saved => saved') /\ (endRequested => endRequested')
<1>1. CASE RunTool
  BY <1>1 DEF RunTool
<1>2. CASE SubmitDone
  BY <1>2 DEF SubmitDone
<1>3. CASE Accept \/ CustomerHangup \/ LineDrops \/ SpeechStart \/ BargeConfirmed \/
             SpeechEnd \/ TaskFails \/ MaxDuration \/ IdleTimeout \/ ServerEndStops \/
             TakeSegment \/ YieldDone \/ SttFails \/ SttEcho \/ SttEmpty \/ SttWords \/
             YieldWordsDone \/ Told \/ StartAwaited \/ Speak \/ TtsFails \/ TtsGivesUp \/
             TtsEndStops \/ TurnDone \/ LlmFails \/ TeardownDone \/ ToolsAsked \/ SaveFile \/
             ToolsDone \/ Goodbye \/ Hangup \/ GraceOver \/ Finish \/ Finalize \/
             PlaybackAdvances
  BY <1>3 DEF Accept, CustomerHangup, LineDrops, SpeechStart, BargeConfirmed, SpeechEnd,
       TaskFails, MaxDuration, IdleTimeout, ServerEndStops, TakeSegment, YieldDone,
       SttFails, SttEcho, SttEmpty, SttWords, YieldWordsDone, Told, StartAwaited, Speak,
       TtsFails, TtsGivesUp, TtsEndStops, TurnDone, LlmFails, TeardownDone, ToolsAsked,
       SaveFile, ToolsDone, Goodbye, Hangup, GraceOver, Finish, Finalize,
       PlaybackAdvances, toolVars, Completed, SaysGoodbye, NeedsFallback
<1>4. CASE UNCHANGED vars
  BY <1>4 DEF vars, toolVars
<1> QED BY <1>1, <1>2, <1>3, <1>4 DEF Next, Client, Watchdog, Worker, Response, Tool

\* The fallback never replaces a saved outcome (call_tools.py 86-91, stream.py 398-403).
THEOREM AgentOutcomeKeptCorrect == Spec => AgentOutcomeKept
<1>1. CallInv /\ [Next]_vars => [store = "agent" => store' = "agent"]_vars
  BY StoreStep
<1> QED BY <1>1, CallInvCorrect, PTL DEF Spec, AgentOutcomeKept

\* A completed call never starts another response (stream.py 665-674).
THEOREM CompletedCallCorrect == Spec => CompletedCallTakesNoTurn
<1>1. CallInv /\ CallInv' /\ [Next]_vars
        => [resp = "idle" /\ resp' = "model" => ~saved /\ ~endRequested]_vars
  BY CompletedStays DEF CallInv, CompletionInv, Completed
<1> QED BY <1>1, CallInvCorrect, PTL DEF Spec, CompletedCallTakesNoTurn

\* A call implements the promise about its outcome, but for its progress: the stored
\* outcome goes from pending to the fallback or to the agent's, and stays the agent's.
THEOREM OutcomeRefined == Spec => Outcome!Safety
<1>1. Init => Outcome!Init
  BY DEF Init, Outcome!Init
<1>2. CallInv /\ [Next]_vars
        => [Outcome!Next]_(IF store = "none" THEN "pending" ELSE store)
  <2> SUFFICES ASSUME CallInv, [Next]_vars
               PROVE  [Outcome!Next]_(IF store = "none" THEN "pending" ELSE store)
    OBVIOUS
  <2>1. store \in {"none", "fallback", "agent"}
    BY DEF CallInv, TypeOK, ToolTypes
  <2> QED BY <2>1, StoreStep
         DEF Outcome!Next, Outcome!GiveUp, Outcome!Result
<1> QED BY <1>1, <1>2, CallInvCorrect, PTL DEF Spec, Outcome!Safety
=============================================================================
