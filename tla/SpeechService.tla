---------------------------- MODULE SpeechService ----------------------------
(***************************************************************************)
(* The speech models of a server: the speech recogniser, one for all, kept *)
(* behind a lock (app/features/voice_followup/stt.py), the warm-up of the  *)
(* two models when the language model is up (voice_health.py, tts.py,      *)
(* app/main.py), the health they report, and the check that refuses a call *)
(* before they are loaded (stream.py).                                     *)
(*                                                                         *)
(* A transcription runs in a thread of a pool.  Its caller, a call or an   *)
(* order, waits for a bounded time; a thread that is late goes on, and     *)
(* keeps the lock until the model is done.  The pool of TTS instances is   *)
(* the subject of TtsPool: here it is loaded or not.                       *)
(***************************************************************************)
EXTENDS Naturals, FiniteSets

CONSTANTS
  CallJobs, OrderJobs,  \* transcriptions that calls and orders ask for
  Threads,              \* bound of the run: threads of the pool
  Warm,                 \* warmup_enabled()
  None, Warmup          \* holders of the lock: nobody, the warm-up

Jobs == CallJobs \cup OrderJobs

ASSUME SpeechAssumption ==
  /\ Threads \in Nat \ {0} /\ Warm \in BOOLEAN /\ CallJobs \cap OrderJobs = {}
  /\ None # Warmup /\ Jobs \cap {None, Warmup} = {}

VARIABLES
  llmReady,   \* llm_engine.ready
  warm,       \* _warmup["state"]: "pending", "stt", "tts" (running), "done", "failed"
  warmStt,    \* _warmup["stt"]
  sttLoaded,  \* _model is not None
  ttsLoaded,  \* an instance of the voice was loaded
  ttsOk,      \* _last_synthesis["ok"] is not False
  lock,       \* who holds stt._lock
  job,        \* "idle", "queued", "waiting" for the lock, "loading", "generating", "done", "dropped"
  caller,     \* "none", "waits", "text", "failed", "late", "refused"
  last,       \* _last_transcription: "none", "ok", "failed"
  ended,      \* history: how the last transcription ended
  loads       \* history: loads of the recogniser's weights

warming == <<warm, warmStt>>
models == <<sttLoaded, ttsLoaded, ttsOk>>
speechVars == <<llmReady, warming, models, lock, job, caller, last, ended, loads>>

SpeechTypeOK ==
  /\ llmReady \in BOOLEAN /\ warmStt \in BOOLEAN
  /\ warm \in {"pending", "stt", "tts", "done", "failed"} /\ (~Warm => warm = "pending")
  /\ sttLoaded \in BOOLEAN /\ ttsLoaded \in BOOLEAN /\ ttsOk \in BOOLEAN
  /\ lock \in Jobs \cup {None, Warmup} /\ (lock = Warmup => warm = "stt")
  /\ job \in [Jobs -> {"idle", "queued", "waiting", "loading", "generating", "done", "dropped"}]
  /\ caller \in [Jobs -> {"none", "waits", "text", "failed", "late", "refused"}]
  /\ {last, ended} \subseteq {"none", "ok", "failed"}
  /\ loads \in Nat

SpeechInit ==
  /\ llmReady = FALSE /\ warm = "pending" /\ warmStt = FALSE
  /\ sttLoaded = FALSE /\ ttsLoaded = FALSE /\ ttsOk = TRUE /\ lock = None
  /\ job = [j \in Jobs |-> "idle"] /\ caller = [j \in Jobs |-> "none"]
  /\ last = "none" /\ ended = "none" /\ loads = 0

Ready == ~llmReady /\ llmReady' = TRUE /\ UNCHANGED <<warming, models, lock, job, caller, last, ended, loads>>

-----------------------------------------------------------------------------
(* The warm-up: once, when the language model has taken its memory. *)

WarmStart ==
  /\ Warm /\ llmReady /\ warm = "pending" /\ warm' = "stt"
  /\ UNCHANGED <<llmReady, warmStt, models, lock, job, caller, last, ended, loads>>

WarmLock ==
  /\ warm = "stt" /\ lock = None /\ lock' = Warmup
  /\ UNCHANGED <<llmReady, warming, models, job, caller, last, ended, loads>>

\* _load: nothing if the weights are there; they are kept only when all went well.
Load(ok) ==
  /\ sttLoaded => ok
  /\ sttLoaded' = (sttLoaded \/ ok)
  /\ loads' = loads + (IF ok /\ ~sttLoaded THEN 1 ELSE 0)

WarmStt ==
  /\ lock = Warmup /\ lock' = None /\ warm' = "tts"
  /\ \E ok \in BOOLEAN : Load(ok) /\ warmStt' = ok
  /\ UNCHANGED <<llmReady, ttsLoaded, ttsOk, job, caller, last, ended>>

WarmDone(ok) == warm' = IF ok /\ warmStt THEN "done" ELSE "failed"

\* A first sentence is spoken; a voice that was loaded may still fail to speak.
WarmTts ==
  /\ warm = "tts"
  /\ \E ok \in BOOLEAN, loaded \in BOOLEAN :
       /\ ok => loaded
       /\ ttsLoaded' = loaded /\ ttsOk' = ok
       /\ WarmDone(ok)
  /\ UNCHANGED <<llmReady, warmStt, sttLoaded, lock, job, caller, last, ended, loads>>

\* The voice of a call that goes on may fail, and speak again.
Speaks ==
  /\ ttsLoaded /\ ttsOk' = ~ttsOk
  /\ UNCHANGED <<llmReady, warming, sttLoaded, ttsLoaded, lock, job, caller, last, ended, loads>>

-----------------------------------------------------------------------------
(* A transcription. *)

\* What serve asks before it tells the client to dial.
ReadyForCalls == llmReady /\ (Warm => ttsLoaded /\ sttLoaded)

Queue(j) ==
  /\ job' = [job EXCEPT ![j] = "queued"] /\ caller' = [caller EXCEPT ![j] = "waits"]

Ask(j) ==
  /\ caller[j] = "none"
  /\ IF j \in OrderJobs \/ ReadyForCalls THEN Queue(j)
     ELSE caller' = [caller EXCEPT ![j] = "refused"] /\ UNCHANGED job
  /\ UNCHANGED <<llmReady, warming, models, lock, last, ended, loads>>

InThread(j) == job[j] \in {"waiting", "loading", "generating"}

Reply(j, result) ==
  caller' = [caller EXCEPT ![j] = IF @ = "waits" THEN result ELSE @]

\* A thread is free: silence is answered at once, any sound waits for the model.
Begin(j) ==
  /\ job[j] = "queued" /\ Cardinality({k \in Jobs : InThread(k)}) < Threads
  /\ \/ job' = [job EXCEPT ![j] = "waiting"] /\ UNCHANGED caller
     \/ job' = [job EXCEPT ![j] = "done"] /\ Reply(j, "text")
  /\ UNCHANGED <<llmReady, warming, models, lock, last, ended, loads>>

Take(j) ==
  /\ job[j] = "waiting" /\ lock = None /\ lock' = j
  /\ job' = [job EXCEPT ![j] = "loading"]
  /\ UNCHANGED <<llmReady, warming, models, caller, last, ended, loads>>

\* mutant: a failure is raised without a record of it.
ReturnsUnrecorded(j, result) ==
  /\ last' = IF result = "ok" THEN "ok" ELSE last
  /\ ended' = result /\ lock' = None
  /\ job' = [job EXCEPT ![j] = "done"] /\ Reply(j, IF result = "ok" THEN "text" ELSE "failed")

\* The thread's end: what it did is recorded and the lock is free, heard or not.
Returns(j, result) ==
  /\ last' = result /\ ended' = result /\ lock' = None
  /\ job' = [job EXCEPT ![j] = "done"] /\ Reply(j, IF result = "ok" THEN "text" ELSE "failed")

LoadFirst(j) ==
  /\ job[j] = "loading"
  /\ \E ok \in BOOLEAN :
       /\ Load(ok)
       /\ IF ok THEN job' = [job EXCEPT ![j] = "generating"] /\ UNCHANGED <<lock, caller, last, ended>>
          ELSE Returns(j, "failed")
  /\ UNCHANGED <<llmReady, warming, ttsLoaded, ttsOk>>

Generate(j) ==
  /\ job[j] = "generating"
  /\ \E result \in {"ok", "failed"} : Returns(j, result)
  /\ UNCHANGED <<llmReady, warming, models, loads>>

\* stt_timeout_seconds are over: a job that no thread has begun is dropped, another goes on.
TimesOut(j) ==
  /\ caller[j] = "waits" /\ caller' = [caller EXCEPT ![j] = "late"]
  /\ job' = [job EXCEPT ![j] = IF @ = "queued" THEN "dropped" ELSE @]
  /\ UNCHANGED <<llmReady, warming, models, lock, last, ended, loads>>

JobStep(j) == Ask(j) \/ Begin(j) \/ Take(j) \/ LoadFirst(j) \/ Generate(j) \/ TimesOut(j)

SpeechNext == Ready \/ WarmStart \/ WarmLock \/ WarmStt \/ WarmTts \/ Speaks \/ \E j \in Jobs : JobStep(j)

SpeechSpec == SpeechInit /\ [][SpeechNext]_speechVars

-----------------------------------------------------------------------------
(* Health (voice_status). *)

SttHealthy == (sttLoaded \/ ~Warm) /\ last # "failed"
Healthy == llmReady /\ SttHealthy /\ ttsOk /\ warm # "failed"

\* The weights, 9 GB of them, are loaded once, and never by a call: a call is taken when
\* they are there (stt.py 46-69, 83-85, stream.py 911-920).
LoadedOnce == loads <= 1 /\ (Warm => \A j \in CallJobs : job[j] = "loading" => sttLoaded)

\* One transcription uses the model at a time, also when its caller has long gone
\* (stt.py 83-103).
OneAtATime ==
  \A j, k \in Jobs : {job[j], job[k]} \subseteq {"loading", "generating"} => j = k /\ lock = j

\* Health says ready only when the last transcription did not fail, whether or not anyone
\* waited for it, and when the warm-up did not fail (voice_health.py 157-171, stt.py 92-98).
HealthIsTrue == Healthy => ended # "failed" /\ ~(warm = "done" /\ ~(sttLoaded /\ ttsLoaded))

\* However warm-up, calls, orders and their timeouts meet at the one lock of the model: it is
\* loaded once and used by one, and health tells how it went (stt.py 46-103).
SpeechSafe == LoadedOnce /\ OneAtATime /\ HealthIsTrue

\* No thread works for a caller who gave up before it began (stt.py 101-103).
NoWorkBegunLate ==
  [][\A j \in Jobs : job[j] = "queued" /\ job'[j] = "waiting" => caller[j] = "waits"]_speechVars

\* Every caller hears something, and every thread comes back: a failure or a late answer
\* never keeps the model from the others (stt.py 83-103).
ThreadsReturn ==
  \A j \in Jobs : (caller[j] = "waits" ~> caller[j] # "waits") /\ (InThread(j) ~> ~InThread(j))

\* The log of a warm-up that failed (tts.py 256): the voice "will be loaded by the first
\* call".  No call is refused for a model that is still loading once the warm-up is over.
\* The code does not keep this: README, section 6.
FirstCallLoads ==
  [][\A j \in CallJobs : warm \in {"done", "failed"} /\ llmReady => caller'[j] # "refused" \/ caller[j] = "refused"]_speechVars
=============================================================================
