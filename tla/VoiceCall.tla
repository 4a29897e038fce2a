----------------------------- MODULE VoiceCall -----------------------------
(***************************************************************************)
(* One voice call over a WebSocket: StreamCall of                          *)
(* app/features/voice_followup/stream.py with the call tools it runs.      *)
(*                                                                         *)
(* Four tasks share the call on one asyncio loop: the receive loop (client *)
(* frames and the speech endpointer), the audio worker (one transcription  *)
(* at a time), the watchdog, and the task of the agent's current response; *)
(* run() starts them and, once _stop is set, cancels them and closes.  An  *)
(* action is the code between two awaits of one task.                      *)
(*                                                                         *)
(* Abstractions.  What the customer said is the result of the              *)
(* transcription: words, nothing, the agent's own echo, or an error.       *)
(* Playback is how much sent audio the customer has still to hear, in the  *)
(* classes the code compares it with.  Sending is immediate, except that   *)
(* _server_end awaits its send before it stops the call.                   *)
(***************************************************************************)
EXTENDS Integers, Sequences, FiniteSets

CONSTANTS
  Prewarm,        \* deps.prewarm_opening
  MaxQueue,       \* maxsize of _audio_queue
  MaxToolRounds,  \* MAX_TOOL_ROUNDS
  Batches,        \* the tool_calls lists the model may answer with
  Faults,         \* which parts may fail in this run
  MaxUtterances   \* bound of the run: how often the customer starts to speak

\* "other" is any tool that leaves the call's fate alone: a data lookup, an unknown tool,
\* or a save_outcome without a summary.
Tools == {"save", "end", "other"}
FaultKinds == {"stt", "tts", "llm", "disk", "line", "task", "shutdown"}

ASSUME CallAssumption ==
  /\ Prewarm \in BOOLEAN
  /\ MaxQueue \in Nat \ {0}
  /\ MaxToolRounds \in Nat \ {0}
  /\ Batches \subseteq Seq(Tools) \ {<<>>}
  /\ Faults \subseteq FaultKinds
  /\ MaxUtterances \in Nat

VARIABLES
  \* the call
  accepted, ending, disconnected,
  stop,           \* end_reason once _stop is set
  endings,        \* reasons whose _server_end has sent end_call and not yet stopped;
                  \* that of the response task is the state "ttsEnd"
  run,            \* run(): "serving", "draining" (gather), "closed"
  watching,       \* the watchdog task is alive
  \* the receive loop
  inSpeech, utterances,
  overlap,        \* _segment_overlap
  bargePending,   \* _barge_pending
  queue,          \* _audio_queue: the overlap flag of each segment
  \* the audio worker
  worker, segment,
  fresh,          \* no barge-in since the worker read _input_revision
  sttFailures,
  pending,        \* _pending_transcript: words nobody has answered yet
  resumePending,  \* _resume_pending
  heard,          \* customer_lines is not empty
  \* the response task
  resp, kind, rounds, batch,
  cancelled,      \* cancelling() > 0
  audioSent,      \* _turn_audio_sent
  spoke,          \* _recent_agent is not empty
  playback,       \* _playback_until against the clock
  ttsFailures,
  \* tools and outcome
  submitting,     \* save_outcome is past the file, inside submit
  saved, endRequested,
  openCalls,      \* history ends in tool_calls whose results are not all there
  store,          \* the outcome file of the room
  fallback,       \* run() wrote the fallback outcome
  \* what the client was sent
  outcomes, endCalls

callVars == <<accepted, ending, disconnected, stop, endings, run, watching>>
earVars == <<inSpeech, utterances, overlap, bargePending>>
workVars == <<worker, segment, fresh, sttFailures, pending, resumePending, heard>>
respVars == <<resp, kind, rounds, batch, cancelled, audioSent, spoke, playback,
              ttsFailures>>
toolVars == <<submitting, saved, endRequested, openCalls, store, fallback>>
sentVars == <<outcomes, endCalls>>
vars == <<callVars, earVars, queue, workVars, respVars, toolVars, sentVars>>

\* Nothing left; within ECHO_TAIL_SECONDS after the end; up to 1 s; more than 1 s.
Playbacks == {"none", "tail", "short", "long"}
ServerReasons == {"audio_backpressure", "stt_unavailable", "tts_unavailable",
                  "max_duration", "idle_timeout"}
StopReasons == ServerReasons \cup
  {"customer_hangup", "disconnected", "agent_end", "voice_worker_failed"}
\* Waiting for a segment; awaiting the cancelled response before and after the
\* transcription; transcribing; sending the transcript; awaiting in _start_response.
WorkerStates == {"get", "yield", "stt", "yieldWords", "told", "reply", "resume", "dead"}
\* No task, or done; inside speak_turn; inside speak_turn after TtsUnavailable; inside
\* _run_tools; the goodbye; _agent_end before and after its end_call; _server_end after
\* TtsUnavailable.
RespStates ==
  {"idle", "model", "failing", "tools", "goodbye", "hangup", "grace", "ttsEnd"}

CallTypes ==
  /\ accepted \in BOOLEAN /\ ending \in BOOLEAN /\ disconnected \in BOOLEAN
  /\ stop \in StopReasons \cup {"none"}
  /\ endings \subseteq ServerReasons
  /\ run \in {"serving", "draining", "closed"}
  /\ watching \in BOOLEAN
EarTypes ==
  /\ inSpeech \in BOOLEAN /\ overlap \in BOOLEAN /\ bargePending \in BOOLEAN
  /\ utterances \in 0..MaxUtterances
QueueTypes == queue \in Seq(BOOLEAN) /\ Len(queue) <= MaxQueue
WorkTypes ==
  /\ worker \in WorkerStates
  /\ segment \in BOOLEAN /\ fresh \in BOOLEAN
  /\ sttFailures \in 0..2
  /\ pending \in BOOLEAN /\ resumePending \in BOOLEAN /\ heard \in BOOLEAN
RespTypes ==
  /\ resp \in RespStates
  /\ kind \in {"opening", "turn", "resume"}
  /\ rounds \in 0..MaxToolRounds
  /\ batch \in Seq(Tools)
  /\ cancelled \in BOOLEAN /\ audioSent \in BOOLEAN /\ spoke \in BOOLEAN
  /\ playback \in Playbacks
  /\ ttsFailures \in 0..2
ToolTypes ==
  /\ submitting \in BOOLEAN /\ saved \in BOOLEAN /\ endRequested \in BOOLEAN
  /\ openCalls \in BOOLEAN /\ fallback \in BOOLEAN
  /\ store \in {"none", "fallback", "agent"}
SentTypes == outcomes \in Seq({"fallback", "agent"}) /\ endCalls \in Nat

TypeOK ==
  CallTypes /\ EarTypes /\ QueueTypes /\ WorkTypes /\ RespTypes /\ ToolTypes /\ SentTypes

Init ==
  /\ accepted = FALSE /\ ending = FALSE /\ disconnected = FALSE /\ stop = "none"
  /\ endings = {} /\ run = "serving" /\ watching = TRUE
  /\ inSpeech = FALSE /\ utterances = 0 /\ overlap = FALSE /\ bargePending = FALSE
  /\ queue = <<>>
  /\ worker = "get" /\ segment = FALSE /\ fresh = TRUE /\ sttFailures = 0
  /\ pending = FALSE /\ resumePending = FALSE /\ heard = FALSE
  /\ resp = IF Prewarm THEN "model" ELSE "idle"
  /\ kind = "opening" /\ rounds = 0 /\ batch = <<>> /\ cancelled = FALSE
  /\ audioSent = FALSE /\ spoke = FALSE /\ playback = "none" /\ ttsFailures = 0
  /\ submitting = FALSE /\ saved = FALSE /\ endRequested = FALSE /\ openCalls = FALSE
  /\ store = "none" /\ fallback = FALSE
  /\ outcomes = <<>> /\ endCalls = 0

-----------------------------------------------------------------------------
(* Helpers *)

\* The tasks of the call run.  stop() makes the loop wake run(); what another task still
\* does before run() gets there was due before the stop, and acts here before the stop or
\* while run() drains.
Serving == run = "serving" /\ stop = "none"
\* The response task also runs while run() waits for it.
RespRuns == Serving \/ run = "draining"
\* The receive loop is not inside _server_end itself.
Receiving == Serving /\ "audio_backpressure" \notin endings
ListeningWhileRinging == Receiving /\ ~ending  \* mutant: the accepted test is missing
\* _on_audio hears the customer.
Listening == Receiving /\ accepted /\ ~ending

Playing == playback \in {"short", "long"}
Audible == playback # "none"

Sent(n) == IF disconnected THEN n ELSE n + 1
SentOutcome(o) == IF disconnected THEN outcomes ELSE Append(outcomes, o)

\* _server_end up to its send.
ServerEnd(reason) ==
  /\ ending' = TRUE
  /\ endings' = endings \cup {reason}
  /\ endCalls' = Sent(endCalls)
  /\ UNCHANGED <<accepted, disconnected, stop, run>>

\* stop(): the first reason is kept.
Stop(reason) == stop' = IF stop = "none" THEN reason ELSE stop

\* Mutant: the tools are not shielded from the cancellation of their response.
AfterCancelUnshielded == IF resp = "model" THEN "model" ELSE "idle"

\* What a CancelledError does to the response task: speak_turn tears its pipeline down,
\* tools go on behind their shield, an interrupted goodbye still hangs up, and a task
\* inside _agent_end or _server_end simply ends.
AfterCancel ==
  CASE resp \in {"idle", "model", "failing", "tools"} -> resp
    [] resp = "goodbye" -> IF disconnected THEN "idle" ELSE "hangup"
    [] OTHER -> "idle"

\* _cancel_response and _barge_in: cancel once, never a task already cancelling.
AskCancel ==
  /\ resp' = IF cancelled THEN resp ELSE AfterCancel
  /\ cancelled' = (resp' # "idle")

\* The part of _start_response after the old task is gone.
NewResponse(k) ==
  /\ resp' = "model"
  /\ kind' = k
  /\ rounds' = 0
  /\ cancelled' = FALSE
  /\ audioSent' = FALSE
  /\ UNCHANGED <<batch, spoke, playback, ttsFailures>>

-----------------------------------------------------------------------------
(* The receive loop *)

\* call_state accepted, counted once.
Accept ==
  /\ Receiving /\ ~accepted
  /\ accepted' = TRUE
  /\ IF Prewarm THEN UNCHANGED respVars ELSE NewResponse("opening")
  /\ UNCHANGED <<ending, disconnected, stop, endings, run, watching, earVars, queue,
                 workVars, toolVars, sentVars>>

\* call_state ended.
CustomerHangup ==
  /\ Receiving
  /\ Stop("customer_hangup")
  /\ UNCHANGED <<accepted, ending, disconnected, endings, run, watching, earVars, queue,
                 workVars, respVars, toolVars, sentVars>>

\* The socket closes, or a send fails or times out; while run() drains only a send can
\* notice.
LineDrops ==
  /\ "line" \in Faults
  /\ ~disconnected /\ (Serving \/ run = "draining")
  /\ disconnected' = TRUE
  /\ Stop("disconnected")
  /\ UNCHANGED <<accepted, ending, endings, run, watching, earVars, queue,
                 workVars, respVars, toolVars, sentVars>>

\* An exception nobody expected leaves one of the guarded tasks.
TaskFails ==
  /\ "task" \in Faults
  /\ Serving
  /\ Stop("voice_worker_failed")
  /\ UNCHANGED <<accepted, ending, disconnected, endings, run, watching, earVars, queue,
                 workVars, respVars, toolVars, sentVars>>

\* _barge_in (its caller has checked ending).
BargeIn ==
  LET generating == resp # "idle"
  IN /\ fresh' = FALSE
     /\ AskCancel
     /\ resumePending' = (resumePending \/ generating \/ Playing)
     /\ playback' = IF (generating /\ audioSent) \/ Playing THEN "none" ELSE playback
     /\ UNCHANGED <<worker, segment, sttFailures, pending, heard,
                    kind, rounds, batch, audioSent, spoke, ttsFailures>>

\* The endpointer reports a start: while the agent is audible the interruption waits
\* until it proves to be speech.
SpeechStart ==
  /\ Listening /\ ~inSpeech /\ utterances < MaxUtterances
  /\ inSpeech' = TRUE
  /\ utterances' = utterances + 1
  /\ overlap' = Audible
  /\ IF Audible
     THEN bargePending' = TRUE /\ UNCHANGED <<workVars, respVars>>
     ELSE BargeIn /\ UNCHANGED bargePending
  /\ UNCHANGED <<callVars, queue, toolVars, sentVars>>

\* The utterance over the agent's voice has lasted VOICE_STREAM_BARGE_IN_MS.
BargeConfirmed ==
  /\ Listening /\ inSpeech /\ bargePending
  /\ bargePending' = FALSE
  /\ BargeIn
  /\ UNCHANGED <<callVars, inSpeech, utterances, overlap, queue, toolVars, sentVars>>

QueueFullLate == Len(queue) > MaxQueue  \* mutant: off by one
\* put_nowait would raise QueueFull.
QueueFull == Len(queue) >= MaxQueue

\* The endpointer reports an end: a short utterance under a speaking agent is dropped,
\* any other is queued for the worker.
SpeechEnd ==
  /\ Listening /\ inSpeech
  /\ inSpeech' = FALSE
  /\ bargePending' = FALSE
  /\ \/ /\ bargePending /\ playback = "long"
        /\ UNCHANGED <<callVars, queue, sentVars>>
     \/ /\ ~(bargePending /\ playback = "long")
        /\ ~QueueFull
        /\ queue' = Append(queue, overlap)
        /\ UNCHANGED <<callVars, sentVars>>
     \/ /\ ~(bargePending /\ playback = "long")
        /\ QueueFull
        /\ ServerEnd("audio_backpressure")
        /\ UNCHANGED <<queue, watching, outcomes>>
  /\ UNCHANGED <<utterances, overlap, workVars, respVars, toolVars>>

-----------------------------------------------------------------------------
(* The watchdog *)

\* Mutant: the watchdog leaves a call alone that is ending already.
WatchesUnlessEnding == Serving /\ watching /\ ~ending
Watches == Serving /\ watching

\* voice_stream_max_call_seconds have passed, whatever the call is doing.
MaxDuration ==
  /\ Watches
  /\ ServerEnd("max_duration")
  /\ watching' = FALSE
  /\ UNCHANGED <<earVars, queue, workVars, respVars, toolVars, outcomes>>

\* Nobody speaks, nothing is in progress, and the quiet has outlasted the idle timeout.
IdleTimeout ==
  /\ Watches
  /\ accepted /\ ~ending
  /\ worker = "get" /\ ~inSpeech /\ queue = <<>> /\ resp = "idle"
  /\ playback = "none"
  /\ ServerEnd("idle_timeout")
  /\ watching' = FALSE
  /\ UNCHANGED <<earVars, queue, workVars, respVars, toolVars, outcomes>>

\* The end_call of _server_end is out: stop().
ServerEndStops ==
  /\ Serving
  /\ \E reason \in endings : Stop(reason) /\ endings' = endings \ {reason}
  /\ UNCHANGED <<accepted, ending, disconnected, run, watching, earVars, queue, workVars,
                 respVars, toolVars, sentVars>>

-----------------------------------------------------------------------------
(* The audio worker *)

Working(state) == Serving /\ worker = state /\ "stt_unavailable" \notin endings

NoAwait(wait, state) == worker' = state  \* mutant: the cancelled task is not awaited
\* Go to `state`, through `wait` while the task that was cancelled is not done yet.
Await(wait, state) == worker' = IF resp' = "idle" THEN state ELSE wait

\* The next segment.  What was not said over the agent's voice silences it first.
TakeSegment ==
  /\ Working("get") /\ queue # <<>>
  /\ queue' = Tail(queue)
  /\ IF ending
     THEN UNCHANGED <<worker, segment, fresh, resp, cancelled>>
     ELSE /\ segment' = Head(queue)
          /\ IF segment' THEN UNCHANGED <<resp, cancelled>> ELSE AskCancel
          /\ IF segment' THEN worker' = "stt" ELSE Await("yield", "stt")
          /\ fresh' = TRUE
  /\ UNCHANGED <<callVars, earVars, sttFailures, pending, resumePending, heard, kind, rounds,
                 batch, audioSent, spoke, playback, ttsFailures, toolVars, sentVars>>

\* The cancelled response is gone: transcribe, unless the call is ending.
YieldDone ==
  /\ Working("yield") /\ resp = "idle"
  /\ worker' = IF ending THEN "get" ELSE "stt"
  /\ fresh' = TRUE
  /\ UNCHANGED <<callVars, earVars, queue, segment, sttFailures, pending, resumePending,
                 heard, respVars, toolVars, sentVars>>

\* Nothing newer is coming: no barge-in since the segment was taken, no segment queued,
\* nobody speaking.
CustomerQuiet == fresh /\ queue = <<>> /\ ~inSpeech /\ ~ending

\* _start_response: cancel what runs, await it in state `wait`, then create the task.
StartResponse(k, wait) ==
  IF resp = "idle"
  THEN worker' = "get" /\ NewResponse(k)
  ELSE /\ worker' = wait
       /\ AskCancel
       /\ UNCHANGED <<kind, rounds, batch, audioSent, spoke, playback, ttsFailures>>

\* The transcription failed or timed out; two in a row end the call.
SttFails ==
  /\ Working("stt") /\ "stt" \in Faults
  /\ worker' = "get"
  /\ IF sttFailures = 0
     THEN sttFailures' = 1 /\ UNCHANGED <<callVars, sentVars>>
     ELSE /\ sttFailures' = 2
          /\ ServerEnd("stt_unavailable")
          /\ UNCHANGED <<watching, outcomes>>
  /\ UNCHANGED <<earVars, queue, segment, fresh, pending, resumePending, heard, respVars,
                 toolVars>>

\* The agent's own voice came back: only an interrupted reply is taken up again.
SttEcho ==
  /\ Working("stt") /\ segment /\ spoke
  /\ sttFailures' = 0
  /\ IF resumePending /\ CustomerQuiet
     THEN resumePending' = FALSE /\ StartResponse("resume", "resume")
     ELSE worker' = "get" /\ UNCHANGED <<resumePending, respVars>>
  /\ UNCHANGED <<callVars, earVars, queue, segment, fresh, pending, heard, toolVars,
                 sentVars>>

\* The worker's last test: answer the words collected so far, or wait for more.
Answer ==
  IF pending /\ CustomerQuiet
  THEN pending' = FALSE /\ StartResponse("turn", "reply")
  ELSE worker' = "get" /\ UNCHANGED <<pending, respVars>>

\* Noise: an empty transcript.
SttEmpty ==
  /\ Working("stt")
  /\ sttFailures' = 0
  /\ Answer
  /\ UNCHANGED <<callVars, earVars, queue, segment, fresh, resumePending, heard, toolVars,
                 sentVars>>

\* Record the customer's words and send the transcript.
Record ==
  /\ resumePending' = FALSE
  /\ pending' = TRUE
  /\ heard' = TRUE
  /\ UNCHANGED <<segment, fresh>>

\* Words.  Those said over the agent's voice now silence it, awaited before they are
\* recorded.
SttWords ==
  /\ Working("stt")
  /\ sttFailures' = 0
  /\ IF segment THEN AskCancel ELSE UNCHANGED <<resp, cancelled>>
  /\ IF segment /\ resp' # "idle"
     THEN worker' = "yieldWords" /\ UNCHANGED <<segment, fresh, resumePending, pending, heard>>
     ELSE worker' = "told" /\ Record
  /\ UNCHANGED <<callVars, earVars, queue, kind, rounds, batch, audioSent, spoke, playback,
                 ttsFailures, toolVars, sentVars>>

YieldWordsDone ==
  /\ Working("yieldWords") /\ resp = "idle"
  /\ worker' = "told"
  /\ Record
  /\ UNCHANGED <<callVars, earVars, queue, sttFailures, respVars, toolVars, sentVars>>

\* The transcript is sent.
Told ==
  /\ Working("told")
  /\ Answer
  /\ UNCHANGED <<callVars, earVars, queue, segment, fresh, sttFailures, resumePending, heard,
                 toolVars, sentVars>>

\* The rest of _start_response: nothing is checked again.
StartAwaited ==
  /\ Serving /\ worker \in {"reply", "resume"} /\ resp = "idle"
  /\ worker' = "get"
  /\ NewResponse(IF worker = "reply" THEN "turn" ELSE "resume")
  /\ UNCHANGED <<callVars, earVars, queue, segment, fresh, sttFailures, pending,
                 resumePending, heard, toolVars, sentVars>>

-----------------------------------------------------------------------------
(* The response task *)

\* A phrase is synthesised and its audio sent, once the call is accepted.  A pipeline that
\* is being torn down may still get a piece out.
Speak ==
  /\ RespRuns /\ resp = "model" /\ accepted
  /\ audioSent' = TRUE
  /\ spoke' = TRUE
  /\ ttsFailures' = 0
  /\ playback' \in IF playback = "long" THEN {"long"} ELSE {"short", "long"}
  /\ UNCHANGED <<callVars, earVars, queue, workVars, resp, kind, rounds, batch, cancelled,
                 toolVars, sentVars>>

\* One more phrase without audio; from two on the number does not matter.
OneMoreFailure == IF ttsFailures = 2 THEN 2 ELSE ttsFailures + 1

\* A phrase has no audio.  The second one in a row is the end of the call, and so is audio
\* of length zero at once; speak_turn still drains its pipeline, in silence, before the
\* error reaches _respond.
TtsFails ==
  /\ RespRuns /\ resp = "model" /\ "tts" \in Faults
  /\ \/ /\ ttsFailures = 0
        /\ ttsFailures' = 1
        /\ resp' = "model"
     \/ /\ ttsFailures' \in IF ttsFailures = 0 THEN {0} ELSE {0, OneMoreFailure}
        /\ resp' = "failing"
  /\ UNCHANGED <<callVars, earVars, queue, workVars, kind, rounds, batch, cancelled, audioSent,
                 spoke, playback, toolVars, sentVars>>

\* TtsUnavailable: end_call is sent.
TtsGivesUp ==
  /\ RespRuns /\ resp = "failing" /\ ~cancelled
  /\ resp' = "ttsEnd"
  /\ ending' = TRUE
  /\ endCalls' = Sent(endCalls)
  /\ UNCHANGED <<accepted, disconnected, stop, endings, run, watching, earVars, queue,
                 workVars, kind, rounds, batch, cancelled, audioSent, spoke, playback,
                 ttsFailures, toolVars, outcomes>>

\* The end_call of TtsUnavailable is out: stop().
TtsEndStops ==
  /\ RespRuns /\ resp = "ttsEnd"
  /\ Stop("tts_unavailable")
  /\ resp' = "idle"
  /\ UNCHANGED <<accepted, ending, disconnected, endings, run, watching, earVars, queue,
                 workVars, kind, rounds, batch, cancelled, audioSent, spoke, playback,
                 ttsFailures, toolVars, sentVars>>

\* The model's turn ends without tool calls.
TurnDone ==
  /\ RespRuns /\ resp = "model" /\ ~cancelled
  /\ resp' = "idle"
  /\ UNCHANGED <<callVars, earVars, queue, workVars, kind, rounds, batch, cancelled, audioSent,
                 spoke, playback, ttsFailures, toolVars, sentVars>>

\* The model fails: the turn is over, unless the call has to be ended.
LlmFails ==
  /\ RespRuns /\ resp = "model" /\ ~cancelled /\ "llm" \in Faults
  /\ resp' = IF saved \/ endRequested THEN "hangup" ELSE "idle"
  /\ UNCHANGED <<callVars, earVars, queue, workVars, kind, rounds, batch, cancelled, audioSent,
                 spoke, playback, ttsFailures, toolVars, sentVars>>

\* speak_turn has torn its pipeline down: the CancelledError leaves _respond.
TeardownDone ==
  /\ RespRuns /\ resp \in {"model", "failing"} /\ cancelled
  /\ resp' = "idle"
  /\ cancelled' = FALSE
  /\ UNCHANGED <<callVars, earVars, queue, workVars, kind, rounds, batch, audioSent, spoke,
                 playback, ttsFailures, toolVars, sentVars>>

\* The model answers with tool calls; the opening is not offered any.
ToolsAsked ==
  /\ RespRuns /\ resp = "model" /\ ~cancelled
  /\ kind # "opening" /\ accepted
  /\ batch' \in Batches
  /\ resp' = "tools"
  /\ openCalls' = TRUE
  /\ UNCHANGED <<callVars, earVars, queue, workVars, kind, rounds, cancelled, audioSent, spoke,
                 playback, ttsFailures, submitting, saved, endRequested, store, fallback,
                 sentVars>>

\* The next tool of the batch, for any tool but a save that has to write.
RunTool ==
  /\ RespRuns /\ resp = "tools" /\ batch # <<>>
  /\ Head(batch) = "save" => saved
  /\ endRequested' = (endRequested \/ Head(batch) = "end")
  /\ batch' = Tail(batch)
  /\ UNCHANGED <<callVars, earVars, queue, workVars, resp, kind, rounds, cancelled, audioSent,
                 spoke, playback, ttsFailures, submitting, saved, openCalls, store, fallback,
                 sentVars>>

\* save_outcome writes the file at once.  When the disk fails the tool reports an error:
\* before the file is in place, or after it, in the pruning that follows.
SaveFile ==
  /\ RespRuns /\ resp = "tools" /\ batch # <<>> /\ ~submitting
  /\ Head(batch) = "save" /\ ~saved
  /\ \/ store' = "agent" /\ submitting' = TRUE /\ UNCHANGED batch
     \/ /\ "disk" \in Faults
        /\ store' \in {store, "agent"}
        /\ batch' = Tail(batch)
        /\ UNCHANGED submitting
  /\ UNCHANGED <<callVars, earVars, queue, workVars, resp, kind, rounds, cancelled, audioSent,
                 spoke, playback, ttsFailures, saved, endRequested, openCalls, fallback,
                 sentVars>>

\* The best-effort submit is over: saved, and the client is told.
SubmitDone ==
  /\ RespRuns /\ submitting
  /\ submitting' = FALSE
  /\ saved' = TRUE
  /\ batch' = Tail(batch)
  /\ outcomes' = SentOutcome("agent")
  /\ UNCHANGED <<callVars, earVars, queue, workVars, resp, kind, rounds, cancelled, audioSent,
                 spoke, playback, ttsFailures, endRequested, openCalls, store, fallback,
                 endCalls>>

Completed == saved \/ endRequested
GoodbyeUnlessCancelled == Completed /\ ~cancelled  \* mutant: an interruption loses the end
\* A completed call says goodbye, also when the customer cut in, but not when it was cut
\* short by its own end.
SaysGoodbye == Completed /\ ~(cancelled /\ (stop # "none" \/ disconnected))

\* _run_tools is over: goodbye, the next of at most MaxToolRounds rounds of the model, or
\* the end of the response.
ToolsDone ==
  /\ RespRuns /\ resp = "tools" /\ batch = <<>>
  /\ openCalls' = FALSE
  /\ ending' = (ending \/ Completed)
  /\ LET another == ~Completed /\ ~cancelled /\ rounds + 1 < MaxToolRounds
     IN /\ resp' = CASE SaysGoodbye -> "goodbye" [] another -> "model" [] OTHER -> "idle"
        /\ rounds' = IF another THEN rounds + 1 ELSE rounds
  /\ cancelled' = (cancelled /\ resp' # "idle")
  /\ UNCHANGED <<accepted, disconnected, stop, endings, run, watching, earVars, queue,
                 workVars, kind, batch, audioSent, spoke, playback, ttsFailures,
                 submitting, saved, endRequested, store, fallback, sentVars>>

\* _finish_call: the goodbye is spoken, or was not needed, or failed; hang up unless the
\* line is gone.
Goodbye ==
  /\ RespRuns /\ resp = "goodbye"
  /\ \/ ttsFailures' \in {0, ttsFailures, OneMoreFailure} /\ UNCHANGED <<playback, spoke>>
     \/ playback' \in {"short", "long"} /\ spoke' = TRUE /\ ttsFailures' = 0
  /\ resp' = IF disconnected THEN "idle" ELSE "hangup"
  /\ cancelled' = (cancelled /\ ~disconnected)
  /\ UNCHANGED <<callVars, earVars, queue, workVars, kind, rounds, batch, audioSent,
                 toolVars, sentVars>>

\* _agent_end: what was sent has been heard, the client is told to hang up.
Hangup ==
  /\ RespRuns /\ resp = "hangup" /\ ~Playing
  /\ ending' = TRUE
  /\ endCalls' = Sent(endCalls)
  /\ resp' = "grace"
  /\ UNCHANGED <<accepted, disconnected, stop, endings, run, watching, earVars, queue,
                 workVars, kind, rounds, batch, cancelled, audioSent, spoke, playback,
                 ttsFailures, toolVars, outcomes>>

\* The client did not hang up within END_GRACE_SECONDS.
GraceOver ==
  /\ RespRuns /\ resp = "grace"
  /\ Stop("agent_end")
  /\ resp' = "idle"
  /\ cancelled' = FALSE
  /\ UNCHANGED <<accepted, ending, disconnected, endings, run, watching, earVars, queue,
                 workVars, kind, rounds, batch, audioSent, spoke, playback, ttsFailures,
                 toolVars, sentVars>>

-----------------------------------------------------------------------------
(* run() *)

FallbackUnlessSaved == ~saved                             \* mutant: the store is not asked
FallbackIfAnswered == accepted /\ ~saved /\ store = "none"  \* mutant: not for unanswered calls
\* _write_fallback and save_fallback_outcome: nothing is known of this call yet.  What is
\* on disk can be read: an unreadable file counts as absent and would be written over.
NeedsFallback == ~saved /\ store = "none"

\* The finally block up to its first await: every task is cancelled, the fallback outcome
\* is written unless the store has an outcome, and a failing disk may lose it, or store it
\* and then fail in the pruning.  A tool task whose response is cancelled a
\* second time is cancelled itself.  Without a stop it is run() that was cancelled.
Finish ==
  /\ run = "serving"
  /\ stop # "none" \/ "shutdown" \in Faults
  /\ run' = "draining"
  /\ watching' = FALSE
  /\ worker' = "dead"
  /\ endings' = {}
  /\ IF resp = "tools" /\ cancelled
     THEN resp' = "idle" /\ batch' = <<>> /\ submitting' = FALSE
     ELSE resp' = AfterCancel /\ UNCHANGED <<batch, submitting>>
  /\ cancelled' = (resp' # "idle")
  /\ IF NeedsFallback
     THEN \/ store' = "fallback" /\ fallback' = TRUE
          \/ "disk" \in Faults /\ store' \in {"none", "fallback"} /\ UNCHANGED fallback
     ELSE UNCHANGED <<store, fallback>>
  /\ UNCHANGED <<accepted, ending, disconnected, stop, earVars, queue, segment, fresh,
                 sttFailures, pending, resumePending, heard, kind, rounds, audioSent, spoke,
                 playback, ttsFailures, saved, endRequested, openCalls, sentVars>>

\* gather() has every task; _finalize sends the fallback and closes the socket.
Finalize ==
  /\ run = "draining" /\ resp = "idle"
  /\ run' = "closed"
  /\ outcomes' = IF fallback THEN SentOutcome("fallback") ELSE outcomes
  /\ UNCHANGED <<accepted, ending, disconnected, stop, endings, watching, earVars, queue,
                 workVars, respVars, toolVars, endCalls>>

\* The customer hears what was sent.
PlaybackAdvances ==
  /\ run # "closed" /\ Audible
  /\ playback' = CASE playback = "long" -> "short"
                   [] playback = "short" -> "tail"
                   [] playback = "tail" -> "none"
  /\ UNCHANGED <<callVars, earVars, queue, workVars, resp, kind, rounds, batch, cancelled,
                 audioSent, spoke, ttsFailures, toolVars, sentVars>>

-----------------------------------------------------------------------------
Client ==
  \/ Accept \/ CustomerHangup \/ LineDrops \/ SpeechStart \/ BargeConfirmed \/ SpeechEnd
  \/ TaskFails
Watchdog == MaxDuration \/ IdleTimeout \/ ServerEndStops
Worker ==
  \/ TakeSegment \/ YieldDone \/ SttFails \/ SttEcho \/ SttEmpty \/ SttWords
  \/ YieldWordsDone \/ Told \/ StartAwaited
Tool == RunTool \/ SaveFile \/ SubmitDone
Response ==
  \/ Speak \/ TtsFails \/ TtsGivesUp \/ TtsEndStops \/ TurnDone \/ LlmFails \/ TeardownDone
  \/ ToolsAsked \/ Tool \/ ToolsDone \/ Goodbye \/ Hangup \/ GraceOver

Next == Client \/ Watchdog \/ Worker \/ Response \/ Finish \/ Finalize \/ PlaybackAdvances

Spec == Init /\ [][Next]_vars

\* A goodbye that begins while a cancelled run() already waits for it.
GoodbyeAtShutdown == run = "draining" /\ Goodbye

\* What the runtime guarantees: timers fire, sends and tools time out, run() is woken, and
\* Pipecat tears a cancelled pipeline down.  Nothing is assumed of the customer, of the
\* model's stream, of the transcription or of the synthesis, which may all never answer,
\* with one exception: nobody is left to interrupt the goodbye of a call that a shutdown
\* ends, so the synthesis thread has to come back.
Fairness ==
  /\ WF_vars(MaxDuration) /\ WF_vars(ServerEndStops) /\ WF_vars(PlaybackAdvances)
  /\ WF_vars(TeardownDone) /\ WF_vars(TtsEndStops)
  /\ WF_vars(Tool) /\ WF_vars(ToolsDone)
  /\ WF_vars(GoodbyeAtShutdown) /\ WF_vars(Hangup) /\ WF_vars(GraceOver)
  /\ WF_vars(stop # "none" /\ Finish) /\ WF_vars(Finalize)

FairSpec == Spec /\ Fairness

-----------------------------------------------------------------------------
(* Properties *)

\* Neither speech nor listening before the customer picked up, although the opening is
\* generated while the phone rings: no audio, no customer line, no tool (stream.py 465,
\* 661, 783).
SilentUntilAccepted ==
  ~accepted => /\ playback = "none" /\ ~audioSent
               /\ ~inSpeech /\ queue = <<>> /\ ~heard
               /\ ~openCalls

\* The history the model is sent, and the place where the customer's words are added to
\* it, is never between an assistant message with tool_calls and the results of those
\* calls, whatever was interrupted meanwhile (stream.py 607-618, 662-668, 735-740).
HistoryWellFormed ==
  openCalls => resp # "model" /\ worker # "told"

\* While what the customer said on a silent line is transcribed nothing is generated or
\* spoken: the reply to older words is gone before newer words are understood (stream.py
\* 574-579).
OwnTurnUninterrupted ==
  worker = "stt" /\ ~segment => resp = "idle"

\* An outcome the agent saved is never replaced by the fallback, also when the call ends
\* between the write of the file and the answer of the external system, when `saved` is
\* not yet set (call_tools.py 74-83, 86-91; stream.py 398-403).
AgentOutcomeKept == [][store = "agent" => store' = "agent"]_vars

\* Every call that is over has left an outcome, so the application never waits on
\* "pending" forever (stream.py 363-371); without a disk the code cannot promise it.
EveryCallHasOutcome ==
  run = "closed" /\ "disk" \notin Faults => store # "none"

\* The client hears of an outcome only after it is on disk, and of the agent's at most once.
OutcomeToldIsStored ==
  /\ \A i \in DOMAIN outcomes :
       store = "agent" \/ (store = "fallback" /\ outcomes[i] = "fallback")
  /\ Len(outcomes) <= 2
  /\ Len(outcomes) = 2 => outcomes = <<"agent", "fallback">>

\* A call whose outcome is saved, or that asked to end, takes no further turn, whoever
\* interrupted the tools (stream.py 665-674).
CompletedCallTakesNoTurn ==
  [][resp = "idle" /\ resp' = "model" => ~saved /\ ~endRequested]_vars

\* The room's stored outcome behaves as the application was promised: CallOutcome, with
\* its progress when the disk works.
Outcome == INSTANCE CallOutcome WITH status <- IF store = "none" THEN "pending" ELSE store
OutcomePromise == Outcome!Spec

\* Whatever the customer, the models and the network do, the call is closed and its slot
\* given back: no task is awaited forever (stream.py 361-372, 530-543).
CallCloses == <>(run = "closed")

\* Not of this code, and checked only to be refuted:

\* Words of the customer are answered once the customer is quiet
\* (docs/api/voice-followup.md:167).
WordsAnswered ==
  Serving /\ ~ending /\ pending /\ worker = "get" /\ queue = <<>> /\ ~inSpeech
    => resp # "idle" \/ Audible

\* No outcome is saved and the call is not ended before the customer was heard
\* (docs/pipecat-native-audio.md, the call's completion).
ActsOnlyAfterHearing == saved \/ endRequested => heard

\* Once the outcome is saved the call says goodbye and hangs up
\* (docs/api/voice-followup.md:79).
SavedCallHangsUp ==
  Serving /\ saved /\ ~disconnected /\ endings = {} => resp # "idle"

\* The last outcome the client was sent is the one that is stored
\* (docs/api/voice-followup.md:106).
LastOutcomeIsStored ==
  run = "closed" /\ outcomes # <<>> => outcomes[Len(outcomes)] = store
============================================================================
