------------------------- MODULE VoiceServices_proof -------------------------
(***************************************************************************)
(* Proofs about what a voice call stands on.                               *)
(*                                                                         *)
(* The engine, for any finite set of requests and any changes of the       *)
(* server.  The counters are compared with three sets of requests that     *)
(* exclude each other: the posted ones, the good ends and the failures.  A *)
(* refused request joins the failures uncounted, so `errors` is bounded by *)
(* them and not equal to their number; that is why `served` alone is no    *)
(* count of requests that ended, and why the invariant speaks of the       *)
(* difference.                                                             *)
(*                                                                         *)
(* The transcriptions, for any calls, orders and threads.  Whoever loads   *)
(* or generates is the one that has the lock, so the record of the last    *)
(* transcription is written by one thread at a time; the weights are       *)
(* loaded only where there are none, and stay; and a call is queued only   *)
(* when they are there.                                                    *)
(*                                                                         *)
(* The voice pipeline, for any number of texts.  From the client back to   *)
(* the model the texts lie in nine places, each a run that comes before    *)
(* the next; nothing is between them, and the end of the reply is behind   *)
(* them all.  A processor moves the head of one place to the tail of the   *)
(* one before it.                                                          *)
(*                                                                         *)
(* The splitter, for any limits and any text.  Where the loop cuts it has  *)
(* seen at most one sign more than it takes; what may be fed later can     *)
(* make a decimal point of a full stop only if it was the last sign, and   *)
(* there it is not cut.                                                    *)
(*                                                                         *)
(* The ear, for any lengths of speech, silence, preroll and queue.  Since  *)
(* the window at which it was last silent it either waits, with as many    *)
(* windows in hand as the preroll keeps and no run of speech among them    *)
(* that is long enough, or is in a turn whose windows follow each other.   *)
(* Every step of it keeps that, so the windows of a message keep it.       *)
(*                                                                         *)
(* What the chat routes know of the server: each state has the last time   *)
(* the server was in it, and what a probe found was so since it began.     *)
(***************************************************************************)
EXTENDS VoiceServices, FiniteSetTheorems, SequenceTheorems, TLAPS

-----------------------------------------------------------------------------
(* The engine. *)

Good == {"answered", "garbled", "cancelled"}
Bad == Failures

\* What the counters say of the requests.
CountInv ==
  /\ inflight = Cardinality(Posted)
  /\ served = errors + Cardinality(Ended(Good))
  /\ errors <= Cardinality(Ended(Bad))

TypeInv ==
  /\ app \in {"new", "serving", "ending", "quiet", "stopped"}
  /\ server \in Servers /\ switches \in 0 .. MaxSwitches
  /\ client \in {"none", "open", "closed"}
  /\ ready \in BOOLEAN /\ seen \in BOOLEAN
  /\ poller \in {"none", "asks", "sleeps", "ended"}
  /\ warmup \in {"none", "waits", "loads", "ended"}
  /\ request \in [Requests -> {"new", "posted"} \cup Ends]
  /\ inflight \in Nat /\ served \in Nat /\ errors \in Nat

\* Readiness comes of a probe; and nothing is left of the poller when the client is closed.
LifeInv ==
  /\ ready => seen
  /\ ServerBeforeAudio
  /\ app \in {"quiet", "stopped"} => poller = "ended"
  /\ StoppedForGood

EngineInv == TypeInv /\ CountInv /\ LifeInv

-----------------------------------------------------------------------------
LEMMA SetsFinite ==
  ASSUME NEW es
  PROVE  IsFiniteSet(Posted) /\ IsFiniteSet(Ended(es))
         /\ Cardinality(Posted) \in Nat /\ Cardinality(Ended(es)) \in Nat
<1>1. Posted \subseteq Requests /\ Ended(es) \subseteq Requests
  BY DEF Posted, Ended
<1> QED BY <1>1, EngineAssumption, FS_Subset, FS_CardinalityType

\* No request is in two of the three sets, so together they are not more than all.
LEMMA SetsFit ==
  Cardinality(Posted) + Cardinality(Ended(Good)) + Cardinality(Ended(Bad)) <= Cardinality(Requests)
<1> DEFINE G == Ended(Good)
           B == Ended(Bad)
<1>1. IsFiniteSet(Posted) /\ IsFiniteSet(G) /\ IsFiniteSet(B)
  BY SetsFinite
<1>2. G \cap B = {} /\ Posted \cap (G \cup B) = {}
  BY DEF Posted, Ended, Good, Bad, Failures
<1>3. IsFiniteSet(G \cup B) /\ Cardinality(G \cup B) = Cardinality(G) + Cardinality(B)
  <2>1. Cardinality(G \cup B) = Cardinality(G) + Cardinality(B) - Cardinality(G \cap B)
    BY <1>1, FS_Union
  <2>2. Cardinality(G \cap B) = 0
    BY <1>2, FS_EmptySet
  <2> QED BY <1>1, <2>1, <2>2, FS_Union, FS_CardinalityType
<1>4. Cardinality(Posted \cup (G \cup B)) = Cardinality(Posted) + Cardinality(G) + Cardinality(B)
  <2>1. Cardinality(Posted \cup (G \cup B))
          = Cardinality(Posted) + Cardinality(G \cup B) - Cardinality(Posted \cap (G \cup B))
    BY <1>1, <1>3, FS_Union
  <2>2. Cardinality(Posted \cap (G \cup B)) = 0
    BY <1>2, FS_EmptySet
  <2> QED BY <1>1, <1>3, <2>1, <2>2, FS_CardinalityType
<1>5. Posted \cup (G \cup B) \subseteq Requests
  BY DEF Posted, Ended
<1>6. Cardinality(Posted \cup (G \cup B)) <= Cardinality(Requests)
  BY <1>5, EngineAssumption, FS_Subset
<1> QED BY <1>4, <1>6

LEMMA InitEngine == Init => EngineInv
<1> SUFFICES ASSUME Init
             PROVE  EngineInv
  OBVIOUS
<1>1. TypeInv
  <2>1. switches \in 0 .. MaxSwitches
    BY EngineAssumption DEF Init
  <2>2. request \in [Requests -> {"new", "posted"} \cup Ends]
    BY DEF Init
  <2> QED BY <2>1, <2>2 DEF Init, TypeInv
<1>4. LifeInv
  BY DEF Init, LifeInv, ServerBeforeAudio, StoppedForGood
<1>2. Posted = {} /\ Ended(Good) = {} /\ Ended(Bad) = {}
  BY DEF Init, Posted, Ended, Good, Bad, Failures
<1>3. CountInv
  BY <1>2, FS_EmptySet DEF Init, CountInv
<1> QED BY <1>1, <1>3, <1>4 DEF EngineInv

\* A step that leaves the requests and the counters alone leaves the counts right.
LEMMA Uncounted == CountInv /\ UNCHANGED <<request, counters>> => CountInv'
  BY DEF CountInv, Posted, Ended, counters

\* The life of the application, its poller and its warm-up.
LEMMA LifeSteps ==
  ASSUME EngineInv,
         Switch \/ Start \/ Poll \/ PollAgain \/ WarmupLoads \/ WarmupEnds
           \/ Stop \/ StopPoller \/ CloseClient \/ UNCHANGED vars
  PROVE  EngineInv'
<1>1. UNCHANGED <<request, counters>>
  BY DEF Switch, Start, Poll, PollAgain, WarmupLoads, WarmupEnds, Stop, StopPoller, CloseClient, vars
<1>2. CountInv'
  BY <1>1, Uncounted DEF EngineInv
<1>3. ProbeResult \in BOOLEAN
  BY DEF ProbeResult
<1>4. CASE Poll
  <2>1. /\ ready' = ProbeResult /\ seen' = (seen \/ ProbeResult) /\ poller = "asks" /\ poller' = "sleeps"
        /\ UNCHANGED <<app, client, warmup, server, switches, request, inflight, served, errors>>
    BY <1>4 DEF Poll, PollerAnswers, counters
  <2>2. TypeInv'
    BY <1>3, <2>1 DEF EngineInv, TypeInv
  <2>3. LifeInv'
    BY <1>3, <2>1 DEF EngineInv, TypeInv, LifeInv, ServerBeforeAudio, StoppedForGood
  <2> QED BY <1>2, <2>2, <2>3 DEF EngineInv
<1>5. CASE Switch
  <2>1. switches' \in 0 .. MaxSwitches /\ server' \in Servers
    BY <1>5, EngineAssumption DEF EngineInv, TypeInv, Switch
  <2>2. TypeInv' /\ LifeInv'
    BY <1>5, <2>1
    DEF EngineInv, TypeInv, LifeInv, ServerBeforeAudio, StoppedForGood, Switch, lifecycle, counters
  <2> QED BY <1>2, <2>2 DEF EngineInv
<1>6. CASE ~Poll /\ ~Switch
  <2>1. TypeInv'
    BY <1>6
    DEF EngineInv, TypeInv, counters, lifecycle, vars, Start, PollAgain,
        WarmupLoads, WarmupEnds, Stop, StopPoller, EndPoller, CloseClient
  <2>2. LifeInv'
    BY <1>6
    DEF EngineInv, TypeInv, LifeInv, ServerBeforeAudio, StoppedForGood, lifecycle, vars,
        Start, PollAgain, WarmupLoads, WarmupMayLoad, WarmupEnds, Stop,
        StopPoller, EndPoller, CloseClient
  <2> QED BY <1>2, <2>1, <2>2 DEF EngineInv
<1> QED BY <1>4, <1>5, <1>6

\* A request that is not posted when the server is not ready is a failure no counter knows.
LEMMA RefuseStep == ASSUME EngineInv, NEW r \in Requests, Refuse(r) PROVE EngineInv'
<1>1. TypeInv'
  BY DEF EngineInv, TypeInv, Refuse, lifecycle, counters, Ends, Failures
<1>2. LifeInv'
  BY DEF EngineInv, LifeInv, ServerBeforeAudio, StoppedForGood, Refuse, lifecycle
<1>3. /\ Posted' = Posted /\ Ended(Good)' = Ended(Good)
      /\ Ended(Bad)' = Ended(Bad) \cup {r} /\ r \notin Ended(Bad)
  BY DEF EngineInv, TypeInv, Refuse, Posted, Ended, Good, Bad, Failures
<1>4. Cardinality(Ended(Bad)') = Cardinality(Ended(Bad)) + 1
  BY <1>3, SetsFinite, FS_AddElement
<1>5. CountInv'
  BY <1>3, <1>4, SetsFinite DEF EngineInv, TypeInv, CountInv, Refuse, counters
<1> QED BY <1>1, <1>2, <1>5 DEF EngineInv

LEMMA PostStep == ASSUME EngineInv, NEW r \in Requests, Post(r) PROVE EngineInv'
<1>1. TypeInv'
  BY DEF EngineInv, TypeInv, Post, lifecycle
<1>2. LifeInv'
  BY DEF EngineInv, LifeInv, ServerBeforeAudio, StoppedForGood, Post, lifecycle
<1>3. /\ Posted' = Posted \cup {r} /\ r \notin Posted
      /\ Ended(Good)' = Ended(Good) /\ Ended(Bad)' = Ended(Bad)
  BY DEF EngineInv, TypeInv, Post, Posted, Ended, Good, Bad, Failures
<1>4. Cardinality(Posted') = Cardinality(Posted) + 1
  BY <1>3, SetsFinite, FS_AddElement
<1>5. CountInv'
  BY <1>3, <1>4 DEF EngineInv, CountInv, Post
<1> QED BY <1>1, <1>2, <1>5 DEF EngineInv

\* However a posted request ends, it is counted once, in the column of its end.
LEMMA FinishStep ==
  ASSUME EngineInv, NEW r \in Requests, NEW e \in Ends, Finish(r, e)
  PROVE  EngineInv'
<1>1. request[r] = "posted" /\ request' = [request EXCEPT ![r] = e] /\ request[r] \notin Good \cup Bad
  BY DEF Finish, Good, Bad, Failures
<1>2. Posted' = Posted \ {r} /\ r \in Posted
  BY <1>1 DEF EngineInv, TypeInv, Posted, Ends, Failures
<1>3. Cardinality(Posted') = Cardinality(Posted) - 1
  BY <1>2, SetsFinite, FS_RemoveElement
<1>4. Cardinality(Posted) >= 1
  <2>1. Cardinality(Posted \ {r}) \in Nat
    BY SetsFinite, FS_RemoveElement, FS_CardinalityType
  <2> QED BY <1>2, <1>3, <2>1, SetsFinite
<1>5. LifeInv'
  BY DEF EngineInv, LifeInv, ServerBeforeAudio, StoppedForGood, Finish, lifecycle
<1>6. CASE e \in Bad
  <2>1. /\ Ended(Good)' = Ended(Good)
        /\ Ended(Bad)' = Ended(Bad) \cup {r} /\ r \notin Ended(Bad)
    BY <1>1, <1>6 DEF EngineInv, TypeInv, Ended, Good, Bad, Failures
  <2>2. Cardinality(Ended(Bad)') = Cardinality(Ended(Bad)) + 1
    BY <2>1, SetsFinite, FS_AddElement
  <2>3. inflight' = inflight - 1 /\ served' = served + 1 /\ errors' = errors + 1
    BY <1>6 DEF Finish, CountEnd, IsError, Bad
  <2>4. CountInv'
    BY <1>3, <2>1, <2>2, <2>3, SetsFinite DEF EngineInv, TypeInv, CountInv
  <2>5. TypeInv'
    BY <1>1, <1>4, <2>3 DEF EngineInv, TypeInv, CountInv, Finish, lifecycle
  <2> QED BY <1>5, <2>4, <2>5 DEF EngineInv
<1>7. CASE e \in Good
  <2>1. /\ Ended(Bad)' = Ended(Bad)
        /\ Ended(Good)' = Ended(Good) \cup {r} /\ r \notin Ended(Good)
    BY <1>1, <1>7 DEF EngineInv, TypeInv, Ended, Good, Bad, Failures
  <2>2. Cardinality(Ended(Good)') = Cardinality(Ended(Good)) + 1
    BY <2>1, SetsFinite, FS_AddElement
  <2>3. inflight' = inflight - 1 /\ served' = served + 1 /\ errors' = errors
    BY <1>7 DEF Finish, CountEnd, IsError, Good, Failures
  <2>4. CountInv'
    BY <1>3, <2>1, <2>2, <2>3, SetsFinite DEF EngineInv, TypeInv, CountInv
  <2>5. TypeInv'
    BY <1>1, <1>4, <2>3 DEF EngineInv, TypeInv, CountInv, Finish, lifecycle
  <2> QED BY <1>5, <2>4, <2>5 DEF EngineInv
<1> QED BY <1>6, <1>7 DEF Ends, Good, Bad

\* The whole of it is invariant.
THEOREM EngineInvariant == Spec => []EngineInv
<1>1. Init => EngineInv
  BY InitEngine
<1>2. EngineInv /\ [Next]_vars => EngineInv'
  <2> SUFFICES ASSUME EngineInv, [Next]_vars
               PROVE  EngineInv'
    OBVIOUS
  <2>1. ASSUME NEW r \in Requests, ServerEnds(r) \/ Cancel(r)
        PROVE  EngineInv'
    <3>1. \A s \in Servers : EndsOf(s) \subseteq Ends
      BY DEF Servers, EndsOf, Ends, Failures
    <3>2. PICK e \in Ends : Finish(r, e)
      BY <2>1, <3>1 DEF ServerEnds, Cancel, Ends, EngineInv, TypeInv
    <3> QED BY <3>2, FinishStep
  <2> QED BY <2>1, LifeSteps, RefuseStep, PostStep DEF Next, Stopped
<1> QED BY <1>1, <1>2, PTL DEF Spec

\* Every state has the type: no counter becomes negative, and none exceeds the requests.
THEOREM EngineTypes == Spec => []TypeOK
<1>1. EngineInv => TypeOK
  <2> SUFFICES ASSUME EngineInv
               PROVE  TypeOK
    OBVIOUS
  <2>1. {inflight, served, errors} \subseteq 0 .. Cardinality(Requests)
    <3>1. Cardinality(Requests) \in Nat
      BY EngineAssumption, FS_CardinalityType
    <3> QED BY <3>1, SetsFit, SetsFinite DEF EngineInv, TypeInv, CountInv
  <2> QED BY <2>1 DEF EngineInv, TypeInv, TypeOK
<1> QED BY <1>1, EngineInvariant, PTL

\* The counters agree with the requests however each of them ended (engine.py 297-318).
THEOREM EngineCounts == Spec => []CountsAgree
<1>1. EngineInv => CountsAgree
  BY SetsFinite DEF EngineInv, TypeInv, CountInv, CountsAgree, Good
<1> QED BY <1>1, EngineInvariant, PTL

\* The audio models are loaded only after the server has answered a probe (main.py 45-50).
THEOREM AudioAfterServer == Spec => []ServerBeforeAudio
<1>1. EngineInv => ServerBeforeAudio
  BY DEF EngineInv, LifeInv
<1> QED BY <1>1, EngineInvariant, PTL

\* After the shutdown nothing could use the closed client (engine.py 136-145).
THEOREM StopsForGood == Spec => []StoppedForGood
<1>1. EngineInv => StoppedForGood
  BY DEF EngineInv, LifeInv
<1> QED BY <1>1, EngineInvariant, PTL

\* All three at once, for any number of requests.
THEOREM EngineIsSafe == Spec => []EngineSafe
<1>1. EngineSafe <=> CountsAgree /\ ServerBeforeAudio /\ StoppedForGood
  BY DEF EngineSafe
<1> QED BY <1>1, EngineCounts, AudioAfterServer, StopsForGood, PTL

-----------------------------------------------------------------------------
(* The transcriptions. *)

Busy == {"loading", "generating"}

\* A thread uses the model exactly while it has the lock.
LockInv == \A j \in Jobs : job[j] \in Busy <=> lock = j

\* The weights were loaded as often as they are there; who generates has them; nobody left a
\* job in the queue; and a job of a call was queued when they were there.
WeightsInv ==
  /\ loads = IF sttLoaded THEN 1 ELSE 0
  /\ \A j \in Jobs : job[j] = "generating" => sttLoaded
  /\ \A j \in Jobs : (caller[j] = "none" => job[j] = "idle") /\ (job[j] = "queued" => caller[j] = "waits")
  /\ Warm => \A j \in CallJobs : job[j] # "idle" => sttLoaded

\* What health reads is what happened: of the last transcription and of the warm-up.
RecordInv ==
  /\ last = ended
  /\ warmStt => sttLoaded
  /\ warm = "done" => sttLoaded /\ ttsLoaded

SpeechInv == SpeechTypeOK /\ LockInv /\ WeightsInv /\ RecordInv

WarmStep == Ready \/ WarmStart \/ WarmLock \/ WarmStt \/ WarmTts \/ Speaks

-----------------------------------------------------------------------------
LEMMA Holders == None # Warmup /\ \A j \in Jobs : j # None /\ j # Warmup
  BY SpeechAssumption

LEMMA CallsAreJobs == CallJobs \subseteq Jobs
  BY DEF Jobs

LEMMA InitSpeech == SpeechInit => SpeechInv
<1> SUFFICES ASSUME SpeechInit
             PROVE  SpeechInv
  OBVIOUS
<1> USE Holders, CallsAreJobs DEF SpeechInit
<1>1. SpeechTypeOK
  BY DEF SpeechTypeOK
<1>2. LockInv /\ WeightsInv
  BY DEF LockInv, WeightsInv, Busy
<1>3. RecordInv
  BY DEF RecordInv
<1> QED BY <1>1, <1>2, <1>3 DEF SpeechInv

\* The warm-up.
LEMMA WarmSteps == SpeechInv /\ WarmStep => SpeechInv'
<1> SUFFICES ASSUME SpeechInv, WarmStep
             PROVE  SpeechInv'
  OBVIOUS
<1> USE SpeechAssumption, Holders, CallsAreJobs DEF SpeechInv, SpeechTypeOK, LockInv, WeightsInv, RecordInv, Busy, warming, models
<1>1. CASE Ready
  BY <1>1 DEF Ready
<1>2. CASE WarmStart
  BY <1>2 DEF WarmStart
<1>3. CASE WarmLock
  BY <1>3 DEF WarmLock
<1>4. CASE WarmStt
  BY <1>4 DEF WarmStt, Load
<1>5. CASE WarmTts
  BY <1>5 DEF WarmTts, WarmDone
<1>6. CASE Speaks
  BY <1>6 DEF Speaks
<1> QED BY <1>1, <1>2, <1>3, <1>4, <1>5, <1>6 DEF WarmStep

\* A transcription.
LEMMA JobSteps == ASSUME NEW j \in Jobs PROVE SpeechInv /\ JobStep(j) => SpeechInv'
<1> SUFFICES ASSUME SpeechInv, JobStep(j)
             PROVE  SpeechInv'
  OBVIOUS
<1> USE SpeechAssumption, Holders, CallsAreJobs DEF SpeechInv, SpeechTypeOK, LockInv, WeightsInv, RecordInv, Busy, warming, models
<1>1. CASE Ask(j)
  <2>1. CASE j \in OrderJobs \/ ReadyForCalls
    <3>1. j \in CallJobs => (Warm => sttLoaded)
      BY <2>1 DEF ReadyForCalls
    <3>2. job[j] \notin Busy \/ lock = j
      OBVIOUS
    <3> QED BY <1>1, <2>1, <3>1, <3>2 DEF Ask, Queue
  <2>2. CASE ~(j \in OrderJobs \/ ReadyForCalls)
    BY <1>1, <2>2 DEF Ask
  <2> QED BY <2>1, <2>2
<1>2. CASE Begin(j)
  BY <1>2 DEF Begin, Reply
<1>3. CASE Take(j)
  BY <1>3 DEF Take
<1>4. CASE LoadFirst(j)
  BY <1>4 DEF LoadFirst, Load, Returns, Reply
<1>5. CASE Generate(j)
  BY <1>5 DEF Generate, Returns, Reply
<1>6. CASE TimesOut(j)
  BY <1>6 DEF TimesOut
<1> QED BY <1>1, <1>2, <1>3, <1>4, <1>5, <1>6 DEF JobStep

\* The whole of it is invariant.
THEOREM SpeechInvariant == SpeechSpec => []SpeechInv
<1>1. SpeechInit => SpeechInv
  BY InitSpeech
<1>2. SpeechInv /\ UNCHANGED speechVars => SpeechInv'
  BY DEF SpeechInv, SpeechTypeOK, LockInv, WeightsInv, RecordInv, speechVars, warming, models
<1>3. SpeechInv /\ [SpeechNext]_speechVars => SpeechInv'
  BY <1>2, WarmSteps, JobSteps DEF SpeechNext, WarmStep
<1> QED BY <1>1, <1>3, PTL DEF SpeechSpec

\* Every state has the type.
THEOREM SpeechTypes == SpeechSpec => []SpeechTypeOK
<1>1. SpeechInv => SpeechTypeOK
  BY DEF SpeechInv
<1> QED BY <1>1, SpeechInvariant, PTL

\* The weights are loaded once at most, and never in the thread of a call (stt.py 46-69,
\* stream.py 911-920).
THEOREM WeightsLoadedOnce == SpeechSpec => []LoadedOnce
<1>1. SpeechInv => LoadedOnce
  BY DEF SpeechInv, WeightsInv, LoadedOnce
<1> QED BY <1>1, SpeechInvariant, PTL

\* However many threads, calls and orders there are, one transcription uses the model at a
\* time (stt.py 83-103).
THEOREM TranscribesOneAtATime == SpeechSpec => []OneAtATime
<1>1. SpeechInv => OneAtATime
  BY DEF SpeechInv, LockInv, OneAtATime, Busy
<1> QED BY <1>1, SpeechInvariant, PTL

\* Health never calls the speech models good after a failure of the last transcription, or
\* over a warm-up that is done without them (voice_health.py 157-171).
THEOREM HealthTold == SpeechSpec => []HealthIsTrue
<1>1. SpeechInv => HealthIsTrue
  BY DEF SpeechInv, RecordInv, HealthIsTrue, Healthy, SttHealthy
<1> QED BY <1>1, SpeechInvariant, PTL

\* A job whose caller gave up in the queue is never begun (stt.py 101-103).
THEOREM BegunInTime == SpeechSpec => NoWorkBegunLate
<1>1. ASSUME SpeechInv, NEW j \in Jobs, job[j] = "queued"
      PROVE  caller[j] = "waits"
  BY <1>1 DEF SpeechInv, WeightsInv
<1>2. SpeechInv =>
        [\A j \in Jobs : job[j] = "queued" /\ job'[j] = "waiting" => caller[j] = "waits"]_speechVars
  BY <1>1
<1> QED BY <1>2, SpeechInvariant, PTL DEF NoWorkBegunLate

\* The recogniser is loaded once and used by one at a time, and health tells of its failures.
THEOREM SpeechIsSafe == SpeechSpec => []SpeechSafe
<1>1. SpeechSafe <=> LoadedOnce /\ OneAtATime /\ HealthIsTrue
  BY DEF SpeechSafe
<1> QED BY <1>1, WeightsLoadedOnce, TranscribesOneAtATime, HealthTold, PTL

-----------------------------------------------------------------------------
(* The voice pipeline. *)

Marks == Nat \ {0}
Nums(f) == {f[i] : i \in DOMAIN f} \ {0}
Held(s) == UNION {Nums(s[i]) : i \in DOMAIN s}
Below(S, T) == \A a \in S, b \in T : a < b

\* A run of texts in their order, and what a processor takes: a phrase or End.
IsRun(f) == f \in Seq(Marks) /\ \A i, j \in DOMAIN f : i < j => f[i] < f[j]
IsFrame(f) == f = Pipeline!End \/ (IsRun(f) /\ f # <<>>)
IsLine(s) ==
  /\ s \in Seq(Seq(Nat)) /\ \A i \in DOMAIN s : IsFrame(s[i])
  /\ \A i, j \in DOMAIN s : i < j => Below(Nums(s[i]), Nums(s[j]))
HasEnd(s) == \E i \in DOMAIN s : s[i] = Pipeline!End
EndIsLast(s) == \A i \in DOMAIN s : s[i] = Pipeline!End => i = Len(s)

\* The texts from the client back to the model: what was sent is before what is with Playback, that
\* before what waits for Playback, and so on.
InOrder(a, b, c, d, e, f, g, n) ==
  /\ Below(a, b \cup c \cup d \cup e \cup f \cup g) /\ Below(b, c \cup d \cup e \cup f \cup g)
  /\ Below(c, d \cup e \cup f \cup g) /\ Below(d, e \cup f \cup g) /\ Below(e, f \cup g) /\ Below(f, g)
  /\ a \cup b \cup c \cup d \cup e \cup f \cup g \subseteq 1 .. n

LineTypes ==
  /\ texts \in Nat /\ gen \in {"reading", "over"} /\ (gen = "over" <=> stream # "open")
  /\ q \in [Pipeline!Queues -> Seq(Seq(Nat))] /\ busy \in [{"speak", "play"} -> Seq(Nat)]
  /\ \A x \in Pipeline!Queues : IsLine(q[x])
  /\ \A x \in {"speak", "play"} : busy[x] = <<>> \/ IsFrame(busy[x])
  /\ IsRun(buffer) /\ IsRun(played) /\ silent \in Seq(Marks)
  /\ {error, framework, completed} \subseteq BOOLEAN /\ (framework => error)

LineOrder ==
  InOrder(Nums(played), Nums(busy["play"]), Held(q["play"]), Nums(busy["speak"]), Held(q["speak"]),
          Nums(buffer), Held(q["aggregate"]), texts)

\* Without an error no text is lost.
NoneLost ==
  ~error => 1 .. texts = Nums(played) \cup Nums(silent) \cup Nums(busy["play"]) \cup Held(q["play"])
                         \cup Nums(busy["speak"]) \cup Held(q["speak"]) \cup Nums(buffer)
                         \cup Held(q["aggregate"])

\* Without an error the frame of the end comes last, and nothing is left behind it.
AggregateDone == q["aggregate"] = <<>> /\ buffer = <<>> /\ gen = "over"
SpeakDone == q["speak"] = <<>> /\ busy["speak"] = <<>> /\ AggregateDone
EndComesLast ==
  ~error =>
    /\ gen = "over" => stream = "whole"
    /\ \A x \in Pipeline!Queues : EndIsLast(q[x])
    /\ HasEnd(q["aggregate"]) => gen = "over"
    /\ HasEnd(q["speak"]) => AggregateDone
    /\ busy["speak"] = Pipeline!End => q["speak"] = <<>> /\ AggregateDone
    /\ HasEnd(q["play"]) => SpeakDone
    /\ busy["play"] = Pipeline!End => q["play"] = <<>> /\ SpeakDone
    /\ completed => busy["play"] = <<>> /\ q["play"] = <<>> /\ SpeakDone

CallerWaits ==
  /\ turn \in {"waits", "drains"} \cup Pipeline!Over
  /\ turn = "drains" => completed
  /\ turn = "returned" => completed /\ ~error

PipelineInv == LineTypes /\ LineOrder /\ NoneLost /\ EndComesLast /\ CallerWaits

-----------------------------------------------------------------------------
LEMMA NumsOfEnd == Nums(Pipeline!End) = {} /\ Nums(<<>>) = {} /\ Held(<<>>) = {}
BY DEF Nums, Held, Pipeline!End

LEMMA NumsOfRun ==
  ASSUME NEW f \in Seq(Marks)
  PROVE  Nums(f) = {f[i] : i \in 1 .. Len(f)} /\ Nums(f) \subseteq Marks /\ f \in Seq(Nat)
<1>1. \A i \in 1 .. Len(f) : f[i] \in Marks BY ElementOfSeq
<1>2. DOMAIN f = 1 .. Len(f) BY LenProperties
<1> QED BY <1>1, <1>2, SeqMonotonic DEF Nums, Marks

LEMMA FrameIsSeq ==
  ASSUME NEW f, IsFrame(f)
  PROVE  f \in Seq(Nat) /\ f # <<>> /\ Nums(f) \subseteq Marks
<1>1. CASE f = Pipeline!End BY <1>1, NumsOfEnd DEF Pipeline!End
<1>2. CASE IsRun(f) /\ f # <<>> BY <1>2, NumsOfRun DEF IsRun
<1> QED BY <1>1, <1>2 DEF IsFrame

LEMMA NumsOfConcat ==
  ASSUME NEW f \in Seq(Marks), NEW h \in Seq(Marks)
  PROVE  Nums(f \o h) = Nums(f) \cup Nums(h)
<1> DEFINE b == f \o h
<1>1. /\ b \in Seq(Marks) /\ Len(b) = Len(f) + Len(h) /\ Len(f) \in Nat /\ Len(h) \in Nat
      /\ \A i \in 1 .. Len(f) + Len(h) : b[i] = IF i <= Len(f) THEN f[i] ELSE h[i - Len(f)]
  BY ConcatProperties, LenProperties
<1> HIDE DEF b
<1>2. ASSUME NEW x \in Nums(b) PROVE x \in Nums(f) \cup Nums(h)
  <2>1. PICK i \in 1 .. Len(b) : x = b[i] BY <1>1, <1>2, NumsOfRun
  <2>2. CASE i <= Len(f)
    <3>1. i \in 1 .. Len(f) /\ x = f[i] BY <1>1, <2>1, <2>2
    <3> QED BY <3>1, NumsOfRun
  <2>3. CASE ~(i <= Len(f))
    <3>1. i - Len(f) \in 1 .. Len(h) /\ x = h[i - Len(f)] BY <1>1, <2>1, <2>3
    <3> QED BY <3>1, NumsOfRun
  <2> QED BY <2>2, <2>3
<1>3. ASSUME NEW x \in Nums(f) PROVE x \in Nums(b)
  <2>1. PICK i \in 1 .. Len(f) : x = f[i] BY <1>3, NumsOfRun
  <2>2. i \in 1 .. Len(b) /\ b[i] = x BY <1>1, <2>1
  <2> QED BY <1>1, <2>2, NumsOfRun
<1>4. ASSUME NEW x \in Nums(h) PROVE x \in Nums(b)
  <2>1. PICK i \in 1 .. Len(h) : x = h[i] BY <1>4, NumsOfRun
  <2>2. /\ i + Len(f) \in 1 .. Len(f) + Len(h) /\ ~(i + Len(f) <= Len(f))
        /\ i + Len(f) - Len(f) = i
    BY <1>1, <2>1
  <2>3. i + Len(f) \in 1 .. Len(b) /\ b[i + Len(f)] = h[i] BY <1>1, <2>2
  <2> QED BY <1>1, <2>1, <2>3, NumsOfRun
<1> QED BY <1>2, <1>3, <1>4 DEF b

\* A run may go on with another that is after it.
LEMMA RunGoesOn ==
  ASSUME NEW f, NEW h, IsRun(f), IsRun(h), Below(Nums(f), Nums(h))
  PROVE  IsRun(f \o h) /\ Nums(f \o h) = Nums(f) \cup Nums(h)
<1> DEFINE b == f \o h
<1>0. f \in Seq(Marks) /\ h \in Seq(Marks) BY DEF IsRun
<1>1. /\ b \in Seq(Marks) /\ Len(b) = Len(f) + Len(h) /\ Len(f) \in Nat /\ Len(h) \in Nat
      /\ \A i \in 1 .. Len(f) + Len(h) : b[i] = IF i <= Len(f) THEN f[i] ELSE h[i - Len(f)]
  BY <1>0, ConcatProperties, LenProperties
<1>2. /\ DOMAIN b = 1 .. Len(b) /\ DOMAIN f = 1 .. Len(f) /\ DOMAIN h = 1 .. Len(h)
      /\ \A i \in 1 .. Len(f) : f[i] \in Nums(f)
      /\ \A i \in 1 .. Len(h) : h[i] \in Nums(h)
  BY <1>0, <1>1, LenProperties, NumsOfRun
<1> HIDE DEF b
<1>3. ASSUME NEW i \in 1 .. Len(b), NEW j \in 1 .. Len(b), i < j PROVE b[i] < b[j]
  <2>1. CASE j <= Len(f)
    <3>1. i \in DOMAIN f /\ j \in DOMAIN f /\ i <= Len(f) BY <1>1, <1>2, <1>3, <2>1
    <3>2. b[i] = f[i] /\ b[j] = f[j] BY <1>1, <2>1, <3>1
    <3> QED BY <1>3, <3>1, <3>2 DEF IsRun
  <2>2. CASE ~(j <= Len(f)) /\ i <= Len(f)
    <3>1. j - Len(f) \in 1 .. Len(h) /\ i \in 1 .. Len(f) BY <1>1, <1>3, <2>2
    <3>2. b[i] = f[i] /\ b[j] = h[j - Len(f)] BY <1>1, <2>2
    <3> QED BY <1>2, <3>1, <3>2 DEF Below
  <2>3. CASE ~(i <= Len(f))
    <3>1. i - Len(f) \in 1 .. Len(h) /\ j - Len(f) \in 1 .. Len(h) /\ i - Len(f) < j - Len(f)
      BY <1>1, <1>3, <2>3
    <3>2. b[i] = h[i - Len(f)] /\ b[j] = h[j - Len(f)] BY <1>1, <1>3, <2>3
    <3> QED BY <1>2, <3>1, <3>2 DEF IsRun
  <2> QED BY <1>1, <2>1, <2>2, <2>3
<1> QED BY <1>0, <1>1, <1>2, <1>3, NumsOfConcat DEF IsRun, b

\* A run that is cut gives two, the first before the second.
LEMMA RunIsCut ==
  ASSUME NEW h, IsRun(h), NEW cut \in 0 .. Len(h)
  PROVE  LET a == SubSeq(h, 1, cut) b == SubSeq(h, cut + 1, Len(h))
         IN  /\ IsRun(a) /\ IsRun(b) /\ (cut > 0 => a # <<>>) /\ (cut = 0 => a = <<>>)
             /\ Nums(h) = Nums(a) \cup Nums(b) /\ Below(Nums(a), Nums(b))
<1> DEFINE a == SubSeq(h, 1, cut)
           b == SubSeq(h, cut + 1, Len(h))
<1>0. h \in Seq(Marks) /\ Len(h) \in Nat /\ cut \in Nat /\ cut <= Len(h) /\ DOMAIN h = 1 .. Len(h)
  BY LenProperties DEF IsRun
<1>1. /\ a \in Seq(Marks) /\ Len(a) = cut /\ \A i \in 1 .. cut : a[i] = h[i]
      /\ b \in Seq(Marks) /\ Len(b) = Len(h) - cut /\ \A i \in 1 .. Len(h) - cut : b[i] = h[cut + i]
  <2>1. \A i \in 1 .. Len(h) : h[i] \in Marks BY <1>0, ElementOfSeq
  <2>2. /\ a \in Seq(Marks) /\ Len(a) = (IF 1 <= cut THEN cut - 1 + 1 ELSE 0)
        /\ \A i \in 1 .. cut - 1 + 1 : a[i] = h[1 + i - 1]
    <3>1. \A i \in 1 .. cut : h[i] \in Marks BY <1>0, <2>1
    <3> QED BY <1>0, <3>1, SubSeqProperties
  <2>3. /\ b \in Seq(Marks) /\ Len(b) = (IF cut + 1 <= Len(h) THEN Len(h) - (cut + 1) + 1 ELSE 0)
        /\ \A i \in 1 .. Len(h) - (cut + 1) + 1 : b[i] = h[cut + 1 + i - 1]
    <3>1. \A i \in cut + 1 .. Len(h) : h[i] \in Marks BY <1>0, <2>1
    <3> QED BY <1>0, <3>1, SubSeqProperties
  <2> HIDE DEF a, b
  <2>4. Len(a) = cut /\ \A i \in 1 .. cut : a[i] = h[i] BY <1>0, <2>2
  <2>5. Len(b) = Len(h) - cut
    <3>1. CASE cut + 1 <= Len(h) BY <1>0, <2>3, <3>1
    <3>2. CASE cut = Len(h) BY <1>0, <2>3, <3>2
    <3>3. \A l \in Nat, c \in Nat : c <= l => c + 1 <= l \/ c = l OBVIOUS
    <3> QED BY <1>0, <3>1, <3>2, <3>3
  <2>6. \A i \in 1 .. Len(h) - cut : b[i] = h[cut + i]
    <3> SUFFICES ASSUME NEW i \in 1 .. Len(h) - cut PROVE b[i] = h[cut + i] OBVIOUS
    <3>1. i \in 1 .. Len(h) - (cut + 1) + 1 /\ cut + 1 + i - 1 = cut + i BY <1>0
    <3> QED BY <2>3, <3>1
  <2> QED BY <2>2, <2>3, <2>4, <2>5, <2>6
<1>2. DOMAIN a = 1 .. cut /\ DOMAIN b = 1 .. Len(h) - cut BY <1>1, LenProperties
<1> HIDE DEF a, b
<1>3. /\ Nums(h) = {h[i] : i \in 1 .. Len(h)} /\ Nums(a) = {a[i] : i \in 1 .. cut}
      /\ Nums(b) = {b[i] : i \in 1 .. Len(h) - cut}
  BY <1>0, <1>1, NumsOfRun
<1>4. IsRun(a) BY <1>0, <1>1, <1>2 DEF IsRun
<1>5. IsRun(b)
  <2> SUFFICES ASSUME NEW i \in 1 .. Len(h) - cut, NEW j \in 1 .. Len(h) - cut, i < j PROVE b[i] < b[j]
    BY <1>1, <1>2 DEF IsRun
  <2>1. cut + i \in 1 .. Len(h) /\ cut + j \in 1 .. Len(h) /\ cut + i < cut + j BY <1>0
  <2> QED BY <1>0, <1>1, <2>1 DEF IsRun
<1>6. Below(Nums(a), Nums(b))
  <2> SUFFICES ASSUME NEW i \in 1 .. cut, NEW j \in 1 .. Len(h) - cut PROVE a[i] < b[j]
    BY <1>3 DEF Below
  <2>1. i \in 1 .. Len(h) /\ cut + j \in 1 .. Len(h) /\ i < cut + j BY <1>0
  <2> QED BY <1>0, <1>1, <2>1 DEF IsRun
<1>7. Nums(h) = Nums(a) \cup Nums(b)
  <2>1. ASSUME NEW i \in 1 .. Len(h) PROVE h[i] \in Nums(a) \cup Nums(b)
    <3>1. CASE i <= cut BY <1>0, <1>1, <1>3, <3>1
    <3>2. CASE ~(i <= cut)
      <4>1. i - cut \in 1 .. Len(h) - cut /\ cut + (i - cut) = i BY <1>0, <3>2
      <4>2. h[i] = b[i - cut] BY <1>1, <4>1
      <4> QED BY <1>3, <4>1, <4>2
    <3> QED BY <3>1, <3>2
  <2>2. ASSUME NEW i \in 1 .. cut PROVE a[i] \in Nums(h) BY <1>0, <1>1, <1>3
  <2>3. ASSUME NEW i \in 1 .. Len(h) - cut PROVE b[i] \in Nums(h)
    <3>1. cut + i \in 1 .. Len(h) BY <1>0
    <3> QED BY <1>1, <1>3, <3>1
  <2> QED BY <1>3, <2>1, <2>2, <2>3
<1>8. (cut > 0 => a # <<>>) /\ (cut = 0 => a = <<>>) BY <1>1, EmptySeq
<1> QED BY <1>4, <1>5, <1>6, <1>7, <1>8 DEF a, b

\* A line with one frame more at its end.
LEMMA LineGrows ==
  ASSUME NEW s, NEW f, IsLine(s), IsFrame(f), Below(Held(s), Nums(f))
  PROVE  /\ IsLine(Append(s, f)) /\ Held(Append(s, f)) = Held(s) \cup Nums(f)
         /\ Append(s, f) # <<>>
         /\ ~HasEnd(s) => EndIsLast(Append(s, f))
         /\ HasEnd(Append(s, f)) <=> HasEnd(s) \/ f = Pipeline!End
<1> DEFINE t == Append(s, f)
<1>0. s \in Seq(Seq(Nat)) /\ f \in Seq(Nat) BY FrameIsSeq DEF IsLine
<1>1. /\ t \in Seq(Seq(Nat)) /\ t # <<>> /\ Len(s) \in Nat /\ Len(t) = Len(s) + 1
      /\ DOMAIN s = 1 .. Len(s) /\ DOMAIN t = 1 .. Len(s) + 1
      /\ (\A i \in 1 .. Len(s) : t[i] = s[i]) /\ t[Len(s) + 1] = f
  BY <1>0, AppendProperties, LenProperties
<1> HIDE DEF t
<1>2. Held(t) = Held(s) \cup Nums(f)
  <2>1. ASSUME NEW x \in Held(t) PROVE x \in Held(s) \cup Nums(f)
    <3>1. PICK i \in 1 .. Len(s) + 1 : x \in Nums(t[i]) BY <1>1, <2>1 DEF Held
    <3>2. i \in 1 .. Len(s) \/ i = Len(s) + 1 BY <1>1
    <3> QED BY <1>1, <3>1, <3>2 DEF Held
  <2>2. ASSUME NEW x \in Held(s) PROVE x \in Held(t)
    <3>1. PICK i \in 1 .. Len(s) : x \in Nums(s[i]) BY <1>1, <2>2 DEF Held
    <3>2. i \in 1 .. Len(s) + 1 BY <1>1
    <3> QED BY <1>1, <3>1, <3>2 DEF Held
  <2>3. Nums(f) \subseteq Held(t)
    <3>1. Len(s) + 1 \in DOMAIN t BY <1>1
    <3> QED BY <1>1, <3>1 DEF Held
  <2> QED BY <2>1, <2>2, <2>3
<1>3. IsLine(t)
  <2>1. \A i \in DOMAIN t : IsFrame(t[i])
    <3> SUFFICES ASSUME NEW i \in DOMAIN t PROVE IsFrame(t[i]) OBVIOUS
    <3>1. i \in 1 .. Len(s) \/ i = Len(s) + 1 BY <1>1
    <3> QED BY <1>1, <3>1 DEF IsLine
  <2>2. ASSUME NEW i \in DOMAIN t, NEW j \in DOMAIN t, i < j PROVE Below(Nums(t[i]), Nums(t[j]))
    <3>1. i \in 1 .. Len(s) /\ (j \in 1 .. Len(s) \/ j = Len(s) + 1) BY <1>1, <2>2
    <3>2. CASE j \in 1 .. Len(s) BY <1>1, <2>2, <3>1, <3>2 DEF IsLine
    <3>3. CASE j = Len(s) + 1
      <4>1. Nums(s[i]) \subseteq Held(s) BY <1>1, <3>1 DEF Held
      <4> QED BY <1>1, <3>1, <3>3, <4>1 DEF Below
    <3> QED BY <3>1, <3>2, <3>3
  <2> QED BY <1>1, <2>1, <2>2 DEF IsLine
<1>4. HasEnd(t) <=> HasEnd(s) \/ f = Pipeline!End
  <2>1. ASSUME NEW i \in DOMAIN t, t[i] = Pipeline!End PROVE HasEnd(s) \/ f = Pipeline!End
    <3>1. i \in 1 .. Len(s) \/ i = Len(s) + 1 BY <1>1
    <3> QED BY <1>1, <2>1, <3>1 DEF HasEnd
  <2>2. ASSUME NEW i \in DOMAIN s, s[i] = Pipeline!End PROVE HasEnd(t)
    <3>1. i \in 1 .. Len(s) /\ i \in 1 .. Len(s) + 1 BY <1>1
    <3> QED BY <1>1, <2>2, <3>1 DEF HasEnd
  <2>3. ASSUME f = Pipeline!End PROVE HasEnd(t)
    <3>1. Len(s) + 1 \in DOMAIN t BY <1>1
    <3> QED BY <1>1, <2>3, <3>1 DEF HasEnd
  <2> QED BY <2>1, <2>2, <2>3 DEF HasEnd
<1>5. ASSUME ~HasEnd(s) PROVE EndIsLast(t)
  <2> SUFFICES ASSUME NEW i \in DOMAIN t, t[i] = Pipeline!End PROVE i = Len(t) BY DEF EndIsLast
  <2>1. i \in 1 .. Len(s) \/ i = Len(s) + 1 BY <1>1
  <2> QED BY <1>1, <1>5, <2>1 DEF HasEnd
<1> QED BY <1>1, <1>2, <1>3, <1>4, <1>5 DEF t

\* A line whose first frame is taken.
LEMMA LineMoves ==
  ASSUME NEW s, IsLine(s), s # <<>>
  PROVE  /\ IsFrame(Head(s)) /\ IsLine(Tail(s))
         /\ Held(s) = Nums(Head(s)) \cup Held(Tail(s)) /\ Below(Nums(Head(s)), Held(Tail(s)))
         /\ EndIsLast(s) => EndIsLast(Tail(s))
         /\ EndIsLast(s) /\ Head(s) = Pipeline!End => Tail(s) = <<>>
         /\ HasEnd(s) <=> Head(s) = Pipeline!End \/ HasEnd(Tail(s))
<1> DEFINE t == Tail(s)
<1>0. s \in Seq(Seq(Nat)) BY DEF IsLine
<1>1. /\ Head(s) = s[1] /\ t \in Seq(Seq(Nat)) /\ Len(s) \in Nat \ {0} /\ Len(t) = Len(s) - 1
      /\ DOMAIN s = 1 .. Len(s) /\ DOMAIN t = 1 .. Len(s) - 1
      /\ \A i \in 1 .. Len(s) - 1 : t[i] = s[i + 1]
  <2>1. t \in Seq(Seq(Nat)) /\ Len(t) = Len(s) - 1 /\ \A i \in 1 .. Len(t) : t[i] = s[i + 1]
    BY <1>0, HeadTailProperties
  <2>2. DOMAIN s = 1 .. Len(s) /\ DOMAIN t = 1 .. Len(t) /\ Len(s) \in Nat \ {0}
    BY <1>0, <2>1, LenProperties, EmptySeq
  <2>3. Head(s) = s[1] BY <1>0
  <2> HIDE DEF t
  <2> QED BY <2>1, <2>2, <2>3
<1>2. 1 \in DOMAIN s /\ \A i \in DOMAIN t : i + 1 \in DOMAIN s /\ 1 < i + 1 /\ t[i] = s[i + 1]
  BY <1>1
<1>3. \A i \in DOMAIN s : i = 1 \/ (i - 1 \in DOMAIN t /\ s[i] = t[i - 1])
  BY <1>1
<1> HIDE DEF t
<1>4. IsFrame(Head(s)) BY <1>1, <1>2 DEF IsLine
<1>5. IsLine(t)
  <2>1. \A i \in DOMAIN t : IsFrame(t[i]) BY <1>2 DEF IsLine
  <2>2. ASSUME NEW i \in DOMAIN t, NEW j \in DOMAIN t, i < j PROVE Below(Nums(t[i]), Nums(t[j]))
    <3>1. i + 1 < j + 1 BY <1>1, <2>2
    <3> QED BY <1>2, <3>1 DEF IsLine
  <2> QED BY <1>1, <2>1, <2>2 DEF IsLine
<1>6. Held(s) = Nums(Head(s)) \cup Held(t) BY <1>1, <1>2, <1>3 DEF Held
<1>7. Below(Nums(Head(s)), Held(t))
  <2> SUFFICES ASSUME NEW i \in DOMAIN t PROVE Below(Nums(Head(s)), Nums(t[i])) BY DEF Below, Held
  <2> QED BY <1>1, <1>2 DEF IsLine
<1>8. ASSUME EndIsLast(s) PROVE EndIsLast(t)
  <2> SUFFICES ASSUME NEW i \in DOMAIN t, t[i] = Pipeline!End PROVE i = Len(t) BY DEF EndIsLast
  <2>1. i + 1 = Len(s) BY <1>2, <1>8 DEF EndIsLast
  <2> QED BY <1>1, <2>1
<1>9. ASSUME EndIsLast(s), Head(s) = Pipeline!End PROVE t = <<>>
  <2>1. Len(s) = 1 BY <1>1, <1>2, <1>9 DEF EndIsLast
  <2> QED BY <1>1, <2>1, EmptySeq
<1>10. HasEnd(s) <=> Head(s) = Pipeline!End \/ HasEnd(t) BY <1>1, <1>2, <1>3 DEF HasEnd
<1> QED BY <1>4, <1>5, <1>6, <1>7, <1>8, <1>9, <1>10 DEF t

-----------------------------------------------------------------------------
\* Frames taken from one place and put into the next stay in order.
LEMMA OrderAfterTake ==
  ASSUME NEW a, NEW b, NEW c, NEW d, NEW e, NEW f, NEW g, NEW n, NEW h, NEW r,
         Below(h, r)
  PROVE  /\ InOrder(a, {}, h \cup r, d, e, f, g, n) => InOrder(a, h, r, d, e, f, g, n) /\ InOrder(a, {}, r, d, e, f, g, n)
         /\ InOrder(a, b, c, {}, h \cup r, f, g, n) => InOrder(a, b, c, h, r, f, g, n) /\ InOrder(a, b, c, {}, r, f, g, n)
BY DEF InOrder, Below

LEMMA OrderAfterMove ==
  ASSUME NEW a, NEW b, NEW c, NEW d, NEW e, NEW f, NEW g, NEW n
  PROVE  InOrder(a, b, c, d, e, f, g, n) =>
           /\ InOrder(a \cup b, {}, c, d, e, f, g, n) /\ InOrder(a, {}, c, d, e, f, g, n)
           /\ InOrder(a, b, c \cup d, {}, e, f, g, n) /\ InOrder(a, b, c, {}, e, f, g, n)
           /\ InOrder(a, b, c, d, e \cup f, {}, g, n)
BY DEF InOrder, Below

LEMMA OrderAfterText ==
  ASSUME NEW a, NEW b, NEW c, NEW d, NEW e, NEW f, NEW g, NEW n \in Nat
  PROVE  InOrder(a, b, c, d, e, f, g, n) => Below(g, {n + 1}) /\ InOrder(a, b, c, d, e, f, g \cup {n + 1}, n + 1)
<1> SUFFICES ASSUME InOrder(a, b, c, d, e, f, g, n)
    PROVE  Below(g, {n + 1}) /\ InOrder(a, b, c, d, e, f, g \cup {n + 1}, n + 1)
  OBVIOUS
<1>1. /\ Below(a, {n + 1}) /\ Below(b, {n + 1}) /\ Below(c, {n + 1}) /\ Below(d, {n + 1})
      /\ Below(e, {n + 1}) /\ Below(f, {n + 1}) /\ Below(g, {n + 1})
  BY DEF InOrder, Below
<1>2. a \cup b \cup c \cup d \cup e \cup f \cup (g \cup {n + 1}) \subseteq 1 .. (n + 1)
  BY DEF InOrder
<1> QED BY <1>1, <1>2 DEF InOrder, Below

LEMMA OrderAfterCut ==
  ASSUME NEW a, NEW b, NEW c, NEW d, NEW e, NEW f, NEW g, NEW n, NEW h, NEW r, NEW x, NEW y,
         InOrder(a, b, c, d, e, f, h \cup r, n), Below(h, r), f \cup h = x \cup y, Below(x, y)
  PROVE  InOrder(a, b, c, d, e \cup x, y, r, n)
<1>1. /\ Below(a, x \cup y) /\ Below(b, x \cup y) /\ Below(c, x \cup y) /\ Below(d, x \cup y)
      /\ Below(e, x \cup y) /\ Below(x \cup y, r)
  BY DEF InOrder, Below
<1> QED BY <1>1 DEF InOrder, Below

\* What is left when nothing is taken from its place.
LEMMA OrderAfterDrop ==
  ASSUME NEW a, NEW b, NEW c, NEW d, NEW e, NEW f, NEW g, NEW n, NEW h,
         InOrder(a, b, c, d, e, f, h \cup g, n)
  PROVE  InOrder(a, b, c, d, e, f, g, n)
BY DEF InOrder, Below

-----------------------------------------------------------------------------
LEMMA QueueOf ==
  ASSUME LineTypes, NEW x \in Pipeline!Queues
  PROVE  IsLine(q[x]) /\ q[x] \in Seq(Seq(Nat))
BY DEF LineTypes

LEMMA PipelineStarts == Pipeline!Init => PipelineInv
<1> SUFFICES ASSUME Pipeline!Init PROVE PipelineInv OBVIOUS
<1>1. /\ stream = "open" /\ texts = 0 /\ gen = "reading" /\ buffer = <<>> /\ played = <<>> /\ silent = <<>>
      /\ q = [x \in Pipeline!Queues |-> <<>>] /\ busy = [x \in {"speak", "play"} |-> <<>>]
      /\ error = FALSE /\ framework = FALSE /\ completed = FALSE /\ turn = "waits"
  BY DEF Pipeline!Init
<1>2. IsLine(<<>>) /\ IsRun(<<>>) /\ ~HasEnd(<<>>) /\ EndIsLast(<<>>) /\ <<>> # Pipeline!End
      /\ <<>> \in Seq(Nat) /\ <<>> \in Seq(Seq(Nat)) /\ <<>> \in Seq(Marks)
  BY EmptySeq DEF IsLine, IsRun, HasEnd, EndIsLast, Pipeline!End
<1>3. /\ q["aggregate"] = <<>> /\ q["speak"] = <<>> /\ q["play"] = <<>>
      /\ busy["speak"] = <<>> /\ busy["play"] = <<>>
  BY <1>1 DEF Pipeline!Queues
<1>4. LineTypes BY <1>1, <1>2 DEF LineTypes
<1>5. LineOrder BY <1>1, <1>3, NumsOfEnd DEF LineOrder, InOrder, Below
<1>6. NoneLost BY <1>1, <1>3, NumsOfEnd DEF NoneLost
<1>7. EndComesLast BY <1>1, <1>2, <1>3 DEF EndComesLast, Pipeline!Queues
<1>8. CallerWaits BY <1>1 DEF CallerWaits
<1> QED BY <1>4, <1>5, <1>6, <1>7, <1>8 DEF PipelineInv

\* A queue gets a frame that is after all it holds.
LEMMA PutTypes ==
  ASSUME LineTypes, NEW x \in Pipeline!Queues, NEW f, IsFrame(f), Below(Held(q[x]), Nums(f)),
         q' = Pipeline!Put(x, f)
  PROVE  /\ q' \in [Pipeline!Queues -> Seq(Seq(Nat))] /\ \A y \in Pipeline!Queues : IsLine(q'[y])
         /\ q'[x] = Append(q[x], f) /\ \A y \in Pipeline!Queues \ {x} : q'[y] = q[y]
<1>1. q' = [q EXCEPT ![x] = Append(q[x], f)] /\ q \in [Pipeline!Queues -> Seq(Seq(Nat))]
  BY DEF Pipeline!Put, LineTypes
<1>2. q'[x] = Append(q[x], f) /\ \A y \in Pipeline!Queues \ {x} : q'[y] = q[y]
  BY <1>1
<1>3. IsLine(Append(q[x], f)) /\ Append(q[x], f) \in Seq(Seq(Nat))
  BY LineGrows, QueueOf DEF IsLine
<1>4. \A y \in Pipeline!Queues : IsLine(q'[y])
  BY <1>2, <1>3 DEF LineTypes
<1>5. q' \in [Pipeline!Queues -> Seq(Seq(Nat))]
  BY <1>1, <1>3
<1> QED BY <1>2, <1>4, <1>5

\* The first frame of a queue is taken.
LEMMA TakeTypes ==
  ASSUME LineTypes, NEW x \in Pipeline!Queues, q[x] # <<>>, q' = [q EXCEPT ![x] = Tail(@)]
  PROVE  /\ q' \in [Pipeline!Queues -> Seq(Seq(Nat))] /\ \A y \in Pipeline!Queues : IsLine(q'[y])
         /\ q'[x] = Tail(q[x]) /\ \A y \in Pipeline!Queues \ {x} : q'[y] = q[y]
<1>1. q' = [q EXCEPT ![x] = Tail(q[x])] /\ q \in [Pipeline!Queues -> Seq(Seq(Nat))]
  BY DEF LineTypes
<1>2. q'[x] = Tail(q[x]) /\ \A y \in Pipeline!Queues \ {x} : q'[y] = q[y]
  BY <1>1
<1>3. IsLine(Tail(q[x])) /\ Tail(q[x]) \in Seq(Seq(Nat))
  BY LineMoves, QueueOf DEF IsLine
<1>4. \A y \in Pipeline!Queues : IsLine(q'[y])
  BY <1>2, <1>3 DEF LineTypes
<1>5. q' \in [Pipeline!Queues -> Seq(Seq(Nat))]
  BY <1>1, <1>3
<1> QED BY <1>2, <1>4, <1>5

\* As long as the model is read, no end is on its way.
LEMMA NoEndYet ==
  ASSUME PipelineInv, gen = "reading", ~error
  PROVE  /\ \A x \in Pipeline!Queues : ~HasEnd(q[x])
         /\ busy["speak"] # Pipeline!End /\ busy["play"] # Pipeline!End /\ ~completed
BY DEF PipelineInv, EndComesLast, AggregateDone, SpeakDone, Pipeline!Queues

LEMMA ReadTextStep == ASSUME PipelineInv, Pipeline!ReadText PROVE PipelineInv'
<1> DEFINE f == <<texts + 1>>
<1>0. /\ stream = "open" /\ texts' = texts + 1 /\ q' = Pipeline!Put("aggregate", f)
      /\ UNCHANGED <<stream, gen, busy, buffer, error, framework, completed, turn, played, silent>>
  BY DEF Pipeline!ReadText, Pipeline!shared, Pipeline!past
<1>1. texts \in Nat /\ LineTypes /\ gen = "reading" /\ "aggregate" \in Pipeline!Queues
  BY <1>0 DEF PipelineInv, LineTypes, Pipeline!Queues
<1>2. IsFrame(f) /\ Nums(f) = {texts + 1} /\ f # Pipeline!End
  <2>1. f \in Seq(Marks) /\ Len(f) = 1 /\ f[1] = texts + 1 /\ DOMAIN f = {1} BY <1>1 DEF Marks
  <2> HIDE DEF f
  <2>2. f # <<>> /\ IsRun(f) BY <2>1 DEF IsRun
  <2>3. Nums(f) = {texts + 1} BY <1>1, <2>1 DEF Nums
  <2>4. f # Pipeline!End BY <1>1, <2>1 DEF Pipeline!End
  <2> QED BY <2>2, <2>3, <2>4 DEF IsFrame
<1> HIDE DEF f
<1>o. InOrder(Nums(played), Nums(busy["play"]), Held(q["play"]), Nums(busy["speak"]), Held(q["speak"]),
              Nums(buffer), Held(q["aggregate"]), texts)
  BY DEF PipelineInv, LineOrder
<1>t. /\ Below(Held(q["aggregate"]), {texts + 1})
      /\ InOrder(Nums(played), Nums(busy["play"]), Held(q["play"]), Nums(busy["speak"]), Held(q["speak"]),
                 Nums(buffer), Held(q["aggregate"]) \cup {texts + 1}, texts + 1)
  BY <1>1, <1>o, OrderAfterText
<1>3. Below(Held(q["aggregate"]), Nums(f))
  BY <1>2, <1>t
<1>4. /\ q' \in [Pipeline!Queues -> Seq(Seq(Nat))] /\ \A y \in Pipeline!Queues : IsLine(q'[y])
      /\ q'["aggregate"] = Append(q["aggregate"], f) /\ q'["speak"] = q["speak"] /\ q'["play"] = q["play"]
  BY <1>0, <1>1, <1>2, <1>3, PutTypes DEF Pipeline!Queues
<1>5. /\ Held(q'["aggregate"]) = Held(q["aggregate"]) \cup {texts + 1}
      /\ HasEnd(q'["aggregate"]) <=> HasEnd(q["aggregate"])
      /\ ~HasEnd(q["aggregate"]) => EndIsLast(q'["aggregate"])
  BY <1>1, <1>2, <1>3, <1>4, LineGrows, QueueOf
<1>6. LineTypes' BY <1>0, <1>1, <1>4 DEF LineTypes
<1>7. LineOrder' BY <1>0, <1>4, <1>5, <1>t DEF LineOrder
<1>8. NoneLost'
  <2>1. 1 .. texts' = (1 .. texts) \cup {texts + 1} BY <1>0, <1>1
  <2> QED BY <1>0, <1>4, <1>5, <2>1 DEF PipelineInv, NoneLost
<1>9. EndComesLast'
  <2> SUFFICES ASSUME ~error PROVE EndComesLast' BY <1>0 DEF EndComesLast
  <2> QED BY <1>0, <1>1, <1>4, <1>5, NoEndYet DEF PipelineInv, EndComesLast, Pipeline!Queues
<1>10. CallerWaits' BY <1>0 DEF PipelineInv, CallerWaits
<1> QED BY <1>6, <1>7, <1>8, <1>9, <1>10 DEF PipelineInv

LEMMA EndStep ==
  ASSUME PipelineInv, stream = "open", gen' = "over", q' = Pipeline!Put("aggregate", Pipeline!End),
         (stream' = "whole" /\ error' = error) \/ (stream' = "broken" /\ error' = TRUE), Pipeline!Running,
         UNCHANGED <<texts, busy, buffer, framework, completed, turn, played, silent>>
  PROVE  PipelineInv'
<1> DEFINE f == Pipeline!End
<1>1. texts \in Nat /\ LineTypes /\ gen = "reading" /\ "aggregate" \in Pipeline!Queues
  BY DEF PipelineInv, LineTypes, Pipeline!Queues
<1>2. IsFrame(f) /\ Nums(f) = {} BY NumsOfEnd DEF IsFrame
<1> HIDE DEF f
<1>3. Below(Held(q["aggregate"]), Nums(f)) BY <1>2 DEF Below
<1>4. /\ q' \in [Pipeline!Queues -> Seq(Seq(Nat))] /\ \A y \in Pipeline!Queues : IsLine(q'[y])
      /\ q'["aggregate"] = Append(q["aggregate"], f) /\ q'["speak"] = q["speak"] /\ q'["play"] = q["play"]
  BY <1>1, <1>2, <1>3, PutTypes DEF Pipeline!Queues, f
<1>5. /\ Held(q'["aggregate"]) = Held(q["aggregate"])
      /\ ~HasEnd(q["aggregate"]) => EndIsLast(q'["aggregate"])
  BY <1>1, <1>2, <1>3, <1>4, LineGrows, QueueOf
<1>6. LineTypes' BY <1>1, <1>4 DEF LineTypes
<1>7. LineOrder' BY <1>4, <1>5 DEF PipelineInv, LineOrder
<1>8. NoneLost' BY <1>4, <1>5 DEF PipelineInv, NoneLost
<1>9. EndComesLast'
  <2> SUFFICES ASSUME ~error' PROVE EndComesLast' BY DEF EndComesLast
  <2>1. ~error /\ stream' = "whole" OBVIOUS
  <2> QED BY <1>1, <1>4, <1>5, <2>1, NoEndYet DEF PipelineInv, EndComesLast, Pipeline!Queues
<1>10. CallerWaits' BY DEF PipelineInv, CallerWaits, Pipeline!Running, Pipeline!Over
<1> QED BY <1>6, <1>7, <1>8, <1>9, <1>10 DEF PipelineInv

\* Before Aggregate has the end, nobody after it has.
LEMMA NoEndPassed ==
  ASSUME PipelineInv, q["aggregate"] # <<>>, ~error
  PROVE  /\ ~HasEnd(q["speak"]) /\ ~HasEnd(q["play"])
         /\ busy["speak"] # Pipeline!End /\ busy["play"] # Pipeline!End /\ ~completed
BY DEF PipelineInv, EndComesLast, AggregateDone, SpeakDone

LEMMA AggregateTypes ==
  ASSUME LineTypes, q["aggregate"] # <<>>, NEW line, IsLine(line),
         q' = [q EXCEPT !["aggregate"] = Tail(@), !["speak"] = line]
  PROVE  /\ q' \in [Pipeline!Queues -> Seq(Seq(Nat))] /\ \A y \in Pipeline!Queues : IsLine(q'[y])
         /\ q'["aggregate"] = Tail(q["aggregate"]) /\ q'["speak"] = line /\ q'["play"] = q["play"]
<1>1. q \in [Pipeline!Queues -> Seq(Seq(Nat))] /\ \A y \in Pipeline!Queues : IsLine(q[y])
  BY DEF LineTypes
<1>2. /\ IsLine(Tail(q["aggregate"])) /\ Tail(q["aggregate"]) \in Seq(Seq(Nat)) /\ line \in Seq(Seq(Nat))
  <2>1. "aggregate" \in Pipeline!Queues BY DEF Pipeline!Queues
  <2> QED BY <1>1, <2>1, LineMoves DEF IsLine
<1>3. q' = [q EXCEPT !["aggregate"] = Tail(q["aggregate"]), !["speak"] = line] OBVIOUS
<1>4. q'["aggregate"] = Tail(q["aggregate"]) /\ q'["speak"] = line /\ q'["play"] = q["play"]
  BY <1>1, <1>3 DEF Pipeline!Queues
<1>5. q' \in [Pipeline!Queues -> Seq(Seq(Nat))] BY <1>1, <1>2, <1>3
<1>6. \A y \in Pipeline!Queues : IsLine(q'[y]) BY <1>1, <1>2, <1>4 DEF Pipeline!Queues
<1> QED BY <1>4, <1>5, <1>6

\* What is true before each step of Aggregate; `h` is the frame it takes.
LEMMA BeforeAggregate ==
  ASSUME PipelineInv, q["aggregate"] # <<>>
  PROVE  LET h == Head(q["aggregate"]) r == Tail(q["aggregate"])
         IN  /\ LineTypes /\ IsLine(q["aggregate"]) /\ IsLine(q["speak"]) /\ IsRun(buffer) /\ texts \in Nat
             /\ IsFrame(h) /\ IsLine(r) /\ Held(q["aggregate"]) = Nums(h) \cup Held(r) /\ Below(Nums(h), Held(r))
             /\ InOrder(Nums(played), Nums(busy["play"]), Held(q["play"]), Nums(busy["speak"]), Held(q["speak"]),
                        Nums(buffer), Nums(h) \cup Held(r), texts)
             /\ Below(Held(q["speak"]), Nums(buffer)) /\ Below(Held(q["speak"]), Nums(h))
             /\ Below(Nums(buffer), Nums(h))
             /\ EndIsLast(q["aggregate"]) => EndIsLast(r) /\ (h = Pipeline!End => r = <<>>)
             /\ HasEnd(q["aggregate"]) <=> h = Pipeline!End \/ HasEnd(r)
<1> DEFINE h == Head(q["aggregate"])
           r == Tail(q["aggregate"])
<1>1. LineTypes /\ IsLine(q["aggregate"]) /\ IsLine(q["speak"]) /\ IsRun(buffer) /\ texts \in Nat
  BY DEF PipelineInv, LineTypes, Pipeline!Queues
<1>2. /\ IsFrame(h) /\ IsLine(r) /\ Held(q["aggregate"]) = Nums(h) \cup Held(r) /\ Below(Nums(h), Held(r))
      /\ EndIsLast(q["aggregate"]) => EndIsLast(r) /\ (h = Pipeline!End => r = <<>>)
      /\ HasEnd(q["aggregate"]) <=> h = Pipeline!End \/ HasEnd(r)
  BY <1>1, LineMoves
<1> HIDE DEF h, r
<1>3. InOrder(Nums(played), Nums(busy["play"]), Held(q["play"]), Nums(busy["speak"]), Held(q["speak"]),
              Nums(buffer), Nums(h) \cup Held(r), texts)
  BY <1>2 DEF PipelineInv, LineOrder
<1>4. /\ Below(Held(q["speak"]), Nums(buffer)) /\ Below(Held(q["speak"]), Nums(h))
      /\ Below(Nums(buffer), Nums(h))
  BY <1>3 DEF InOrder, Below
<1> QED BY <1>1, <1>2, <1>3, <1>4 DEF h, r

\* The line of Aggregate without its first frame, when all else stays or the frame of the end goes on.
LEMMA AggregateDrops ==
  ASSUME PipelineInv, q["aggregate"] # <<>>, error, error' = error, buffer' = buffer,
         NEW line, line = q["speak"] \/ line = Append(q["speak"], Pipeline!End),
         q' = [q EXCEPT !["aggregate"] = Tail(@), !["speak"] = line],
         UNCHANGED <<stream, texts, gen, busy, framework, completed, turn, played, silent>>
  PROVE  PipelineInv'
<1> USE BeforeAggregate
<1>1. IsLine(line) /\ Held(line) = Held(q["speak"])
  <2>1. IsFrame(Pipeline!End) /\ Nums(Pipeline!End) = {} BY NumsOfEnd DEF IsFrame
  <2>2. Below(Held(q["speak"]), {}) BY DEF Below
  <2> QED BY <2>1, <2>2, LineGrows
<1>2. /\ q' \in [Pipeline!Queues -> Seq(Seq(Nat))] /\ \A y \in Pipeline!Queues : IsLine(q'[y])
      /\ q'["aggregate"] = Tail(q["aggregate"]) /\ q'["speak"] = line /\ q'["play"] = q["play"]
  BY <1>1, AggregateTypes
<1>3. LineTypes' BY <1>2 DEF LineTypes
<1>4. LineOrder'
  <2>1. InOrder(Nums(played), Nums(busy["play"]), Held(q["play"]), Nums(busy["speak"]), Held(q["speak"]),
                Nums(buffer), Held(Tail(q["aggregate"])), texts)
    BY OrderAfterDrop
  <2> QED BY <1>1, <1>2, <2>1 DEF LineOrder
<1>5. NoneLost' /\ EndComesLast' BY DEF NoneLost, EndComesLast
<1>6. CallerWaits' BY DEF PipelineInv, CallerWaits
<1> QED BY <1>3, <1>4, <1>5, <1>6 DEF PipelineInv

LEMMA TwoMore ==
  ASSUME NEW S, NEW s \in Seq(S), NEW a \in S, NEW b \in S
  PROVE  s \o <<a, b>> = Append(Append(s, a), b)
<1>1. /\ Append(s, a) \in Seq(S) /\ Append(s, a) = s \o <<a>>
      /\ Append(Append(s, a), b) = Append(s, a) \o <<b>>
  BY AppendProperties, AppendIsConcat
<1>2. <<a>> \in Seq(S) /\ <<b>> \in Seq(S) /\ <<a, b>> = <<a>> \o <<b>>
  <2>1. <<a>> \in Seq(S) /\ <<b>> \in Seq(S) OBVIOUS
  <2>2. Len(<<a>>) = 1 /\ Len(<<b>>) = 1 /\ Len(<<a, b>>) = 2 /\ <<a, b>> \in Seq(S) OBVIOUS
  <2>3. <<a>> \o <<b>> \in Seq(S) /\ Len(<<a>> \o <<b>>) = 2 BY <2>1, <2>2, ConcatProperties
  <2>4. (<<a>> \o <<b>>)[1] = a /\ (<<a>> \o <<b>>)[2] = b BY <2>1, <2>2
  <2>5. \A i \in 1 .. 2 : <<a, b>>[i] = (<<a>> \o <<b>>)[i]
    <3>1. \A i \in 1 .. 2 : i = 1 \/ i = 2 OBVIOUS
    <3> QED BY <2>4, <3>1
  <2> QED BY <2>1, <2>2, <2>3, <2>5, SeqEqual
<1>3. (s \o <<a>>) \o <<b>> = s \o (<<a>> \o <<b>>) BY <1>2, ConcatAssociative
<1> QED BY <1>1, <1>2, <1>3

\* The end comes to Aggregate, which gives what it holds.
LEMMA AggregateEnds ==
  ASSUME PipelineInv, q["aggregate"] # <<>>, ~error, error' = error, Head(q["aggregate"]) = Pipeline!End,
         buffer' = <<>>, NEW line,
         line = IF buffer = <<>> THEN Append(q["speak"], Pipeline!End) ELSE q["speak"] \o <<buffer, Pipeline!End>>,
         q' = [q EXCEPT !["aggregate"] = Tail(@), !["speak"] = line],
         UNCHANGED <<stream, texts, gen, busy, framework, completed, turn, played, silent>>
  PROVE  PipelineInv'
<1> USE BeforeAggregate
<1>0. IsFrame(Pipeline!End) /\ Nums(Pipeline!End) = {} /\ Nums(<<>>) = {} /\ Held(<<>>) = {}
  BY NumsOfEnd DEF IsFrame
<1>1. /\ IsLine(line) /\ Held(line) = Held(q["speak"]) \cup Nums(buffer) /\ EndIsLast(line)
  <2>1. CASE buffer = <<>>
    <3>1. Below(Held(q["speak"]), Nums(Pipeline!End)) BY <1>0 DEF Below
    <3> QED BY <1>0, <2>1, <3>1, LineGrows, NoEndPassed
  <2>2. CASE buffer # <<>>
    <3> DEFINE more == Append(q["speak"], buffer)
    <3>1. IsFrame(buffer) /\ buffer # Pipeline!End
      <4>1. buffer[1] \in Marks BY <2>2, EmptySeq, ElementOfSeq DEF IsRun
      <4> QED BY <2>2, <4>1 DEF IsFrame, Pipeline!End, Marks
    <3>2. /\ IsLine(more) /\ Held(more) = Held(q["speak"]) \cup Nums(buffer) /\ ~HasEnd(more)
      BY <3>1, LineGrows, NoEndPassed
    <3>3. line = Append(more, Pipeline!End)
      <4>1. q["speak"] \in Seq(Seq(Nat)) /\ buffer \in Seq(Nat) /\ Pipeline!End \in Seq(Nat)
        BY <1>0, <3>1, FrameIsSeq DEF IsLine
      <4>2. q["speak"] \o <<buffer, Pipeline!End>> = Append(Append(q["speak"], buffer), Pipeline!End)
        <5> HIDE DEF more
        <5>1. \A z \in Seq(Seq(Nat)), a \in Seq(Nat), b \in Seq(Nat) : z \o <<a, b>> = Append(Append(z, a), b)
          BY TwoMore
        <5> QED BY <4>1, <5>1
      <4> QED BY <2>2, <4>2
    <3> HIDE DEF more
    <3>4. Below(Held(more), Nums(Pipeline!End)) BY <1>0 DEF Below
    <3>5. /\ IsLine(Append(more, Pipeline!End)) /\ EndIsLast(Append(more, Pipeline!End))
          /\ Held(Append(more, Pipeline!End)) = Held(more) \cup Nums(Pipeline!End)
      BY <1>0, <3>2, <3>4, LineGrows
    <3> QED BY <1>0, <3>2, <3>3, <3>5
  <2> QED BY <2>1, <2>2
<1>2. /\ q' \in [Pipeline!Queues -> Seq(Seq(Nat))] /\ \A y \in Pipeline!Queues : IsLine(q'[y])
      /\ q'["aggregate"] = Tail(q["aggregate"]) /\ q'["speak"] = line /\ q'["play"] = q["play"]
  BY <1>1, AggregateTypes
<1>e. Tail(q["aggregate"]) = <<>> /\ gen = "over" /\ Held(q["aggregate"]) = {} /\ EndIsLast(q["play"])
  BY <1>0, NumsOfEnd DEF PipelineInv, EndComesLast, Pipeline!Queues
<1>3. IsRun(<<>>) BY EmptySeq DEF IsRun
<1>4. LineTypes' BY <1>2, <1>3 DEF LineTypes
<1>5. LineOrder'
  <2>1. InOrder(Nums(played), Nums(busy["play"]), Held(q["play"]), Nums(busy["speak"]), Held(q["speak"]),
                Nums(buffer), {}, texts)
    BY <1>e DEF PipelineInv, LineOrder
  <2>2. InOrder(Nums(played), Nums(busy["play"]), Held(q["play"]), Nums(busy["speak"]),
                Held(q["speak"]) \cup Nums(buffer), {}, {}, texts)
    BY <2>1, OrderAfterMove
  <2> QED BY <1>0, <1>1, <1>2, <1>e, <2>2 DEF LineOrder
<1>6. NoneLost' BY <1>0, <1>1, <1>2, <1>e DEF PipelineInv, NoneLost
<1>7. EndComesLast'
  <2>1. AggregateDone' BY <1>2, <1>e DEF AggregateDone
  <2>2. EndIsLast(<<>>) BY DEF EndIsLast
  <2>3. /\ ~HasEnd(q'["play"]) /\ busy'["speak"] # Pipeline!End /\ busy'["play"] # Pipeline!End /\ ~completed'
        /\ \A x \in Pipeline!Queues : EndIsLast(q'[x])
        /\ gen' = "over" /\ stream' = "whole"
    BY <1>1, <1>2, <1>e, <2>2, NoEndPassed DEF Pipeline!Queues, PipelineInv, EndComesLast
  <2> QED BY <2>1, <2>3 DEF EndComesLast
<1>8. CallerWaits' BY DEF PipelineInv, CallerWaits
<1> QED BY <1>4, <1>5, <1>6, <1>7, <1>8 DEF PipelineInv

\* A text comes to Aggregate, and perhaps a phrase is complete.
LEMMA AggregateCuts ==
  ASSUME PipelineInv, q["aggregate"] # <<>>, ~error, error' = error, Head(q["aggregate"]) # Pipeline!End,
         NEW cut \in 0 .. Len(buffer \o Head(q["aggregate"])),
         buffer' = SubSeq(buffer \o Head(q["aggregate"]), cut + 1, Len(buffer \o Head(q["aggregate"]))),
         NEW line,
         line = IF cut > 0 THEN Append(q["speak"], SubSeq(buffer \o Head(q["aggregate"]), 1, cut)) ELSE q["speak"],
         q' = [q EXCEPT !["aggregate"] = Tail(@), !["speak"] = line],
         UNCHANGED <<stream, texts, gen, busy, framework, completed, turn, played, silent>>
  PROVE  PipelineInv'
<1> DEFINE h == Head(q["aggregate"])
           r == Tail(q["aggregate"])
           held == buffer \o h
           x == SubSeq(held, 1, cut)
           y == SubSeq(held, cut + 1, Len(held))
<1>0. /\ LineTypes /\ IsLine(q["aggregate"]) /\ IsLine(q["speak"]) /\ IsRun(buffer) /\ texts \in Nat
      /\ IsFrame(h) /\ IsLine(r) /\ Held(q["aggregate"]) = Nums(h) \cup Held(r) /\ Below(Nums(h), Held(r))
      /\ InOrder(Nums(played), Nums(busy["play"]), Held(q["play"]), Nums(busy["speak"]), Held(q["speak"]),
                 Nums(buffer), Nums(h) \cup Held(r), texts)
      /\ Below(Held(q["speak"]), Nums(buffer)) /\ Below(Held(q["speak"]), Nums(h))
      /\ Below(Nums(buffer), Nums(h))
      /\ EndIsLast(q["aggregate"]) => EndIsLast(r)
      /\ HasEnd(r) => HasEnd(q["aggregate"])
      /\ h # Pipeline!End
  BY BeforeAggregate
<1>1. /\ buffer' = y /\ cut \in 0 .. Len(held) /\ line = IF cut > 0 THEN Append(q["speak"], x) ELSE q["speak"]
      /\ q' = [q EXCEPT !["aggregate"] = Tail(@), !["speak"] = line]
  OBVIOUS
<1>2. IsRun(held) /\ Nums(held) = Nums(buffer) \cup Nums(h)
  <2> HIDE DEF h
  <2> QED BY <1>0, RunGoesOn DEF IsFrame
<1>3. /\ IsRun(x) /\ IsRun(y) /\ (cut > 0 => x # <<>>) /\ (cut = 0 => x = <<>>)
      /\ Nums(held) = Nums(x) \cup Nums(y) /\ Below(Nums(x), Nums(y))
  <2> HIDE DEF held
  <2> QED BY <1>1, <1>2, RunIsCut
<1>c. cut = 0 \/ cut > 0
  <2>1. Len(held) \in Nat BY <1>2, LenProperties DEF IsRun
  <2> QED BY <1>1, <2>1
<1> HIDE DEF h, r, held, x, y
<1>4. /\ IsLine(line) /\ Held(line) = Held(q["speak"]) \cup Nums(x)
      /\ HasEnd(line) => HasEnd(q["speak"])
      /\ EndIsLast(q["speak"]) /\ ~HasEnd(q["speak"]) => EndIsLast(line)
  <2>1. CASE cut = 0 BY <1>0, <1>1, <1>3, <2>1, NumsOfEnd
  <2>2. CASE cut > 0
    <3>1. IsFrame(x) /\ x # Pipeline!End
      <4>1. x[1] \in Marks BY <1>3, <2>2, EmptySeq, ElementOfSeq DEF IsRun
      <4> QED BY <1>3, <2>2, <4>1 DEF IsFrame, Pipeline!End, Marks
    <3>2. Below(Held(q["speak"]), Nums(x)) BY <1>0, <1>2, <1>3 DEF Below
    <3> QED BY <1>0, <1>1, <2>2, <3>1, <3>2, LineGrows
  <2> QED BY <1>c, <2>1, <2>2
<1>5. /\ q' \in [Pipeline!Queues -> Seq(Seq(Nat))] /\ \A z \in Pipeline!Queues : IsLine(q'[z])
      /\ q'["aggregate"] = r /\ q'["speak"] = line /\ q'["play"] = q["play"]
  BY <1>0, <1>1, <1>4, AggregateTypes DEF r
<1>6. LineTypes' BY <1>0, <1>1, <1>3, <1>5 DEF LineTypes
<1>7. LineOrder'
  <2>1. Nums(buffer) \cup Nums(h) = Nums(x) \cup Nums(y) BY <1>2, <1>3
  <2>2. InOrder(Nums(played), Nums(busy["play"]), Held(q["play"]), Nums(busy["speak"]),
                Held(q["speak"]) \cup Nums(x), Nums(y), Held(r), texts)
    BY <1>0, <1>3, <2>1, OrderAfterCut
  <2> QED BY <1>1, <1>4, <1>5, <2>2 DEF LineOrder
<1>8. NoneLost' BY <1>0, <1>1, <1>2, <1>3, <1>4, <1>5 DEF PipelineInv, NoneLost
<1>9. EndComesLast'
  <2>1. /\ ~HasEnd(q'["speak"]) /\ ~HasEnd(q'["play"]) /\ busy'["speak"] # Pipeline!End
        /\ busy'["play"] # Pipeline!End /\ ~completed'
    BY <1>4, <1>5, NoEndPassed
  <2>2. \A z \in Pipeline!Queues : EndIsLast(q'[z])
    BY <1>0, <1>4, <1>5, NoEndPassed DEF Pipeline!Queues, PipelineInv, EndComesLast
  <2>3. gen' = "over" => stream' = "whole" BY DEF PipelineInv, EndComesLast
  <2>4. HasEnd(q'["aggregate"]) => gen' = "over" BY <1>0, <1>5 DEF PipelineInv, EndComesLast
  <2> QED BY <2>1, <2>2, <2>3, <2>4 DEF EndComesLast
<1>10. CallerWaits' BY DEF PipelineInv, CallerWaits
<1> QED BY <1>6, <1>7, <1>8, <1>9, <1>10 DEF PipelineInv

LEMMA AggregateStep == ASSUME PipelineInv, Pipeline!Aggregate PROVE PipelineInv'
<1> DEFINE h == Head(q["aggregate"])
           held == buffer \o h
<1>0. /\ q["aggregate"] # <<>> /\ error' = error /\ error \in BOOLEAN
      /\ UNCHANGED <<stream, texts, gen, busy, framework, completed, turn, played, silent>>
  BY DEF Pipeline!Aggregate, Pipeline!shared, Pipeline!past, PipelineInv, LineTypes
<1>1. CASE error /\ h = Pipeline!End
  <2>1. /\ buffer' = buffer
        /\ q' = [q EXCEPT !["aggregate"] = Tail(@), !["speak"] = Append(@, Pipeline!End)]
    BY <1>1 DEF Pipeline!Aggregate
  <2>2. q' = [q EXCEPT !["aggregate"] = Tail(@), !["speak"] = Append(q["speak"], Pipeline!End)] BY <2>1
  <2> QED BY <1>0, <1>1, <2>1, <2>2, AggregateDrops
<1>2. CASE error /\ h # Pipeline!End
  <2>1. buffer' = buffer /\ q' = [q EXCEPT !["aggregate"] = Tail(@)] BY <1>2 DEF Pipeline!Aggregate
  <2>2. q' = [q EXCEPT !["aggregate"] = Tail(@), !["speak"] = q["speak"]]
    BY <2>1 DEF PipelineInv, LineTypes, Pipeline!Queues
  <2> QED BY <1>0, <1>2, <2>1, <2>2, AggregateDrops
<1>3. CASE ~error /\ h = Pipeline!End
  <2>1. /\ buffer' = <<>>
        /\ q' = [q EXCEPT !["aggregate"] = Tail(@),
                          !["speak"] = IF buffer = <<>> THEN Append(q["speak"], Pipeline!End)
                                       ELSE q["speak"] \o <<buffer, Pipeline!End>>]
    BY <1>3 DEF Pipeline!Aggregate
  <2> QED BY <1>0, <1>3, <2>1, AggregateEnds
<1>4. CASE ~error /\ h # Pipeline!End
  <2>1. PICK cut \in 0 .. Len(held) :
          /\ buffer' = SubSeq(held, cut + 1, Len(held))
          /\ q' = [q EXCEPT !["aggregate"] = Tail(@),
                            !["speak"] = IF cut > 0 THEN Append(q["speak"], SubSeq(held, 1, cut)) ELSE q["speak"]]
    BY <1>4 DEF Pipeline!Aggregate
  <2> QED BY <1>0, <1>4, <2>1, AggregateCuts
<1> QED BY <1>0, <1>1, <1>2, <1>3, <1>4

LEMMA TakeSpeakStep == ASSUME PipelineInv, Pipeline!Take("speak") PROVE PipelineInv'
<1> DEFINE h == Head(q["speak"])
           r == Tail(q["speak"])
<1>0. /\ q["speak"] # <<>> /\ busy["speak"] = <<>> /\ q' = [q EXCEPT !["speak"] = Tail(@)]
      /\ busy' = IF error /\ h # Pipeline!End THEN busy ELSE [busy EXCEPT !["speak"] = h]
      /\ UNCHANGED <<stream, texts, gen, buffer, error, framework, completed, turn, played, silent>>
  BY DEF Pipeline!Take, Pipeline!shared, Pipeline!past
<1>1. LineTypes /\ IsLine(q["speak"]) /\ "speak" \in Pipeline!Queues
  BY DEF PipelineInv, LineTypes, Pipeline!Queues
<1>2. /\ IsFrame(h) /\ h \in Seq(Nat) /\ Held(q["speak"]) = Nums(h) \cup Held(r) /\ Below(Nums(h), Held(r))
      /\ EndIsLast(q["speak"]) => EndIsLast(r) /\ (h = Pipeline!End => r = <<>>)
      /\ HasEnd(q["speak"]) <=> h = Pipeline!End \/ HasEnd(r)
  BY <1>0, <1>1, LineMoves, FrameIsSeq
<1>3. /\ q' \in [Pipeline!Queues -> Seq(Seq(Nat))] /\ \A y \in Pipeline!Queues : IsLine(q'[y])
      /\ q'["speak"] = r /\ q'["aggregate"] = q["aggregate"] /\ q'["play"] = q["play"]
  BY <1>0, <1>1, TakeTypes DEF Pipeline!Queues
<1> HIDE DEF h, r
<1>4. /\ busy' \in [{"speak", "play"} -> Seq(Nat)] /\ busy'["play"] = busy["play"]
      /\ busy'["speak"] = h \/ (error /\ h # Pipeline!End /\ busy'["speak"] = <<>>)
  BY <1>0, <1>1, <1>2 DEF LineTypes
<1>5. LineTypes'
  <2>1. \A x \in {"speak", "play"} : busy'[x] = <<>> \/ IsFrame(busy'[x]) BY <1>1, <1>2, <1>4 DEF LineTypes
  <2> QED BY <1>0, <1>1, <1>3, <1>4, <2>1 DEF LineTypes
<1>6. LineOrder'
  <2>1. InOrder(Nums(played), Nums(busy["play"]), Held(q["play"]), {}, Nums(h) \cup Held(r),
                Nums(buffer), Held(q["aggregate"]), texts)
    BY <1>0, <1>2, NumsOfEnd DEF PipelineInv, LineOrder
  <2>2. /\ InOrder(Nums(played), Nums(busy["play"]), Held(q["play"]), Nums(h), Held(r),
                   Nums(buffer), Held(q["aggregate"]), texts)
        /\ InOrder(Nums(played), Nums(busy["play"]), Held(q["play"]), {}, Held(r),
                   Nums(buffer), Held(q["aggregate"]), texts)
    BY <1>2, <2>1, OrderAfterTake
  <2> QED BY <1>0, <1>3, <1>4, <2>2, NumsOfEnd DEF LineOrder
<1>7. NoneLost' BY <1>0, <1>2, <1>3, <1>4, NumsOfEnd DEF PipelineInv, NoneLost
<1>8. EndComesLast'
  <2> SUFFICES ASSUME ~error PROVE EndComesLast' BY <1>0 DEF EndComesLast
  <2>1. AggregateDone' <=> AggregateDone BY <1>0, <1>3 DEF AggregateDone
  <2>2. ~SpeakDone BY <1>0 DEF SpeakDone
  <2>3. ~HasEnd(q'["play"]) /\ busy'["play"] # Pipeline!End /\ ~completed'
    BY <1>0, <1>3, <1>4, <2>2 DEF PipelineInv, EndComesLast
  <2>4. \A x \in Pipeline!Queues : EndIsLast(q'[x])
    BY <1>2, <1>3 DEF Pipeline!Queues, PipelineInv, EndComesLast
  <2>5. (HasEnd(q'["speak"]) => AggregateDone) /\ (h = Pipeline!End => r = <<>> /\ AggregateDone)
    BY <1>1, <1>2, <1>3 DEF PipelineInv, EndComesLast
  <2> QED BY <1>0, <1>3, <1>4, <2>1, <2>3, <2>4, <2>5 DEF PipelineInv, EndComesLast
<1>9. CallerWaits' BY <1>0 DEF PipelineInv, CallerWaits
<1> QED BY <1>5, <1>6, <1>7, <1>8, <1>9 DEF PipelineInv

LEMMA TakePlayStep == ASSUME PipelineInv, Pipeline!Take("play") PROVE PipelineInv'
<1> DEFINE h == Head(q["play"])
           r == Tail(q["play"])
<1>0. /\ q["play"] # <<>> /\ busy["play"] = <<>> /\ q' = [q EXCEPT !["play"] = Tail(@)]
      /\ busy' = IF error /\ h # Pipeline!End THEN busy ELSE [busy EXCEPT !["play"] = h]
      /\ UNCHANGED <<stream, texts, gen, buffer, error, framework, completed, turn, played, silent>>
  BY DEF Pipeline!Take, Pipeline!shared, Pipeline!past
<1>1. LineTypes /\ IsLine(q["play"]) /\ "play" \in Pipeline!Queues
  BY DEF PipelineInv, LineTypes, Pipeline!Queues
<1>2. /\ IsFrame(h) /\ h \in Seq(Nat) /\ Held(q["play"]) = Nums(h) \cup Held(r) /\ Below(Nums(h), Held(r))
      /\ EndIsLast(q["play"]) => EndIsLast(r) /\ (h = Pipeline!End => r = <<>>)
      /\ HasEnd(q["play"]) <=> h = Pipeline!End \/ HasEnd(r)
  BY <1>0, <1>1, LineMoves, FrameIsSeq
<1>3. /\ q' \in [Pipeline!Queues -> Seq(Seq(Nat))] /\ \A y \in Pipeline!Queues : IsLine(q'[y])
      /\ q'["play"] = r /\ q'["aggregate"] = q["aggregate"] /\ q'["speak"] = q["speak"]
  BY <1>0, <1>1, TakeTypes DEF Pipeline!Queues
<1> HIDE DEF h, r
<1>4. /\ busy' \in [{"speak", "play"} -> Seq(Nat)] /\ busy'["speak"] = busy["speak"]
      /\ busy'["play"] = h \/ (error /\ h # Pipeline!End /\ busy'["play"] = <<>>)
  BY <1>0, <1>1, <1>2 DEF LineTypes
<1>5. LineTypes'
  <2>1. \A x \in {"speak", "play"} : busy'[x] = <<>> \/ IsFrame(busy'[x]) BY <1>1, <1>2, <1>4 DEF LineTypes
  <2> QED BY <1>0, <1>1, <1>3, <1>4, <2>1 DEF LineTypes
<1>6. LineOrder'
  <2>1. InOrder(Nums(played), {}, Nums(h) \cup Held(r), Nums(busy["speak"]), Held(q["speak"]),
                Nums(buffer), Held(q["aggregate"]), texts)
    BY <1>0, <1>2, NumsOfEnd DEF PipelineInv, LineOrder
  <2>2. /\ InOrder(Nums(played), Nums(h), Held(r), Nums(busy["speak"]), Held(q["speak"]),
                   Nums(buffer), Held(q["aggregate"]), texts)
        /\ InOrder(Nums(played), {}, Held(r), Nums(busy["speak"]), Held(q["speak"]),
                   Nums(buffer), Held(q["aggregate"]), texts)
    BY <1>2, <2>1, OrderAfterTake
  <2> QED BY <1>0, <1>3, <1>4, <2>2, NumsOfEnd DEF LineOrder
<1>7. NoneLost' BY <1>0, <1>2, <1>3, <1>4, NumsOfEnd DEF PipelineInv, NoneLost
<1>8. EndComesLast'
  <2> SUFFICES ASSUME ~error PROVE EndComesLast' BY <1>0 DEF EndComesLast
  <2>1. (AggregateDone' <=> AggregateDone) /\ (SpeakDone' <=> SpeakDone)
    BY <1>0, <1>3, <1>4 DEF AggregateDone, SpeakDone
  <2>3. ~completed' BY <1>0 DEF PipelineInv, EndComesLast
  <2>4. \A x \in Pipeline!Queues : EndIsLast(q'[x])
    BY <1>2, <1>3 DEF Pipeline!Queues, PipelineInv, EndComesLast
  <2>5. (HasEnd(q'["play"]) => SpeakDone) /\ (h = Pipeline!End => r = <<>> /\ SpeakDone)
    BY <1>1, <1>2, <1>3 DEF PipelineInv, EndComesLast
  <2> QED BY <1>0, <1>3, <1>4, <2>1, <2>3, <2>4, <2>5 DEF PipelineInv, EndComesLast
<1>9. CallerWaits' BY <1>0 DEF PipelineInv, CallerWaits
<1> QED BY <1>5, <1>6, <1>7, <1>8, <1>9 DEF PipelineInv

LEMMA SpokenStep == ASSUME PipelineInv, Pipeline!Spoken PROVE PipelineInv'
<1> DEFINE f == busy["speak"]
<1>0. /\ f # <<>> /\ busy' = [busy EXCEPT !["speak"] = <<>>] /\ q' = Pipeline!Put("play", f)
      /\ UNCHANGED <<stream, texts, gen, buffer, error, framework, completed, turn, played, silent>>
  BY DEF Pipeline!Spoken, Pipeline!shared, Pipeline!past
<1>1. LineTypes /\ IsFrame(f) /\ IsLine(q["play"]) /\ "play" \in Pipeline!Queues
  BY <1>0 DEF PipelineInv, LineTypes, Pipeline!Queues
<1>2. InOrder(Nums(played), Nums(busy["play"]), Held(q["play"]), Nums(f), Held(q["speak"]),
              Nums(buffer), Held(q["aggregate"]), texts)
  BY DEF PipelineInv, LineOrder
<1>3. /\ Below(Held(q["play"]), Nums(f))
      /\ InOrder(Nums(played), Nums(busy["play"]), Held(q["play"]) \cup Nums(f), {}, Held(q["speak"]),
                 Nums(buffer), Held(q["aggregate"]), texts)
  BY <1>2, OrderAfterMove DEF InOrder, Below
<1>4. /\ q' \in [Pipeline!Queues -> Seq(Seq(Nat))] /\ \A y \in Pipeline!Queues : IsLine(q'[y])
      /\ q'["play"] = Append(q["play"], f) /\ q'["aggregate"] = q["aggregate"] /\ q'["speak"] = q["speak"]
  BY <1>0, <1>1, <1>3, PutTypes DEF Pipeline!Queues
<1>5. /\ Held(q'["play"]) = Held(q["play"]) \cup Nums(f)
      /\ ~HasEnd(q["play"]) => EndIsLast(q'["play"])
      /\ HasEnd(q'["play"]) <=> HasEnd(q["play"]) \/ f = Pipeline!End
  BY <1>1, <1>3, <1>4, LineGrows
<1>6. /\ busy' \in [{"speak", "play"} -> Seq(Nat)] /\ busy'["speak"] = <<>> /\ busy'["play"] = busy["play"]
  BY <1>0, <1>1, EmptySeq DEF LineTypes
<1>7. LineTypes'
  <2>1. \A x \in {"speak", "play"} : busy'[x] = <<>> \/ IsFrame(busy'[x]) BY <1>1, <1>6 DEF LineTypes
  <2> QED BY <1>0, <1>1, <1>4, <1>6, <2>1 DEF LineTypes
<1>8. LineOrder' BY <1>0, <1>3, <1>4, <1>5, <1>6, NumsOfEnd DEF LineOrder
<1>9. NoneLost' BY <1>0, <1>4, <1>5, <1>6, NumsOfEnd DEF PipelineInv, NoneLost
<1>10. EndComesLast'
  <2> SUFFICES ASSUME ~error PROVE EndComesLast' BY <1>0 DEF EndComesLast
  <2>1. ~SpeakDone BY <1>0 DEF SpeakDone
  <2>2. ~HasEnd(q["play"]) /\ busy'["play"] # Pipeline!End /\ ~completed'
    BY <1>0, <1>6, <2>1 DEF PipelineInv, EndComesLast
  <2>3. AggregateDone' <=> AggregateDone BY <1>0, <1>4 DEF AggregateDone
  <2>4. f = Pipeline!End => q["speak"] = <<>> /\ AggregateDone BY DEF PipelineInv, EndComesLast
  <2>5. HasEnd(q'["play"]) => SpeakDone' BY <1>4, <1>5, <1>6, <2>2, <2>3, <2>4 DEF SpeakDone
  <2>6. \A x \in Pipeline!Queues : EndIsLast(q'[x])
    BY <1>4, <1>5, <2>2 DEF Pipeline!Queues, PipelineInv, EndComesLast
  <2>7. <<>> # Pipeline!End BY DEF Pipeline!End
  <2> QED BY <1>0, <1>4, <1>6, <2>2, <2>3, <2>5, <2>6, <2>7 DEF PipelineInv, EndComesLast
<1>11. CallerWaits' BY <1>0 DEF PipelineInv, CallerWaits
<1> QED BY <1>7, <1>8, <1>9, <1>10, <1>11 DEF PipelineInv

\* What is with a processor is put away: sent, without speech, or lost with an error.
LEMMA PutAwayTypes ==
  ASSUME LineTypes, NEW x \in {"speak", "play"}, busy' = [busy EXCEPT ![x] = <<>>], q' = q
  PROVE  /\ busy' \in [{"speak", "play"} -> Seq(Nat)] /\ busy'[x] = <<>>
         /\ \A y \in {"speak", "play"} \ {x} : busy'[y] = busy[y]
         /\ \A y \in {"speak", "play"} : busy'[y] = <<>> \/ IsFrame(busy'[y])
         /\ busy'[x] # Pipeline!End
BY EmptySeq DEF LineTypes, Pipeline!End

LEMMA SpokenNothingStep == ASSUME PipelineInv, Pipeline!SpokenNothing PROVE PipelineInv'
<1> DEFINE f == busy["speak"]
<1>0. /\ f # <<>> /\ f # Pipeline!End /\ busy' = [busy EXCEPT !["speak"] = <<>>] /\ silent' = silent \o f
      /\ UNCHANGED <<stream, texts, gen, q, buffer, error, framework, completed, turn, played>>
  BY DEF Pipeline!SpokenNothing, Pipeline!shared
<1>1. LineTypes /\ IsRun(f) /\ silent \in Seq(Marks)
  BY <1>0 DEF PipelineInv, LineTypes, IsFrame
<1>2. silent' \in Seq(Marks) /\ Nums(silent') = Nums(silent) \cup Nums(f)
  BY <1>0, <1>1, NumsOfConcat, ConcatProperties DEF IsRun
<1>3. /\ busy' \in [{"speak", "play"} -> Seq(Nat)] /\ busy'["speak"] = <<>> /\ busy'["play"] = busy["play"]
      /\ \A y \in {"speak", "play"} : busy'[y] = <<>> \/ IsFrame(busy'[y])
      /\ busy'["speak"] # Pipeline!End
  BY <1>0, <1>1, PutAwayTypes
<1>4. LineTypes' BY <1>0, <1>1, <1>2, <1>3 DEF LineTypes
<1>5. LineOrder'
  <2>1. InOrder(Nums(played), Nums(busy["play"]), Held(q["play"]), Nums(f), Held(q["speak"]),
                Nums(buffer), Held(q["aggregate"]), texts)
    BY DEF PipelineInv, LineOrder
  <2>2. InOrder(Nums(played), Nums(busy["play"]), Held(q["play"]), {}, Held(q["speak"]),
                Nums(buffer), Held(q["aggregate"]), texts)
    BY <2>1, OrderAfterMove
  <2> QED BY <1>0, <1>3, <2>2, NumsOfEnd DEF LineOrder
<1>6. NoneLost' BY <1>0, <1>2, <1>3, NumsOfEnd DEF PipelineInv, NoneLost
<1>7. EndComesLast'
  <2> SUFFICES ASSUME ~error PROVE EndComesLast' BY <1>0 DEF EndComesLast
  <2>1. ~SpeakDone BY <1>0 DEF SpeakDone
  <2>2. ~HasEnd(q["play"]) /\ busy["play"] # Pipeline!End /\ ~completed BY <2>1 DEF PipelineInv, EndComesLast
  <2>3. AggregateDone' <=> AggregateDone BY <1>0 DEF AggregateDone
  <2> QED BY <1>0, <1>3, <2>2, <2>3 DEF PipelineInv, EndComesLast
<1>8. CallerWaits' BY <1>0 DEF PipelineInv, CallerWaits
<1> QED BY <1>4, <1>5, <1>6, <1>7, <1>8 DEF PipelineInv

LEMMA PlayedStep == ASSUME PipelineInv, Pipeline!Played PROVE PipelineInv'
<1> DEFINE f == busy["play"]
<1>0. /\ f # <<>> /\ busy' = [busy EXCEPT !["play"] = <<>>]
      /\ IF f = Pipeline!End THEN completed' = TRUE /\ played' = played
         ELSE played' = played \o f /\ completed' = completed
      /\ Pipeline!Running
      /\ UNCHANGED <<stream, texts, gen, q, buffer, error, framework, turn, silent>>
  BY DEF Pipeline!Played
<1>1. LineTypes /\ IsFrame(f) /\ IsRun(played) /\ completed' \in BOOLEAN
  BY <1>0 DEF PipelineInv, LineTypes
<1>2. InOrder(Nums(played), Nums(f), Held(q["play"]), Nums(busy["speak"]), Held(q["speak"]),
              Nums(buffer), Held(q["aggregate"]), texts)
  BY DEF PipelineInv, LineOrder
<1>3. /\ Below(Nums(played), Nums(f))
      /\ InOrder(Nums(played) \cup Nums(f), {}, Held(q["play"]), Nums(busy["speak"]), Held(q["speak"]),
                 Nums(buffer), Held(q["aggregate"]), texts)
  BY <1>2, OrderAfterMove DEF InOrder, Below
<1>4. IsRun(played') /\ Nums(played') = Nums(played) \cup Nums(f)
  <2>1. CASE f = Pipeline!End BY <1>0, <1>1, <2>1, NumsOfEnd
  <2>2. CASE f # Pipeline!End BY <1>0, <1>1, <1>3, <2>2, RunGoesOn DEF IsFrame
  <2> QED BY <2>1, <2>2
<1>5. /\ busy' \in [{"speak", "play"} -> Seq(Nat)] /\ busy'["play"] = <<>> /\ busy'["speak"] = busy["speak"]
      /\ \A y \in {"speak", "play"} : busy'[y] = <<>> \/ IsFrame(busy'[y])
      /\ busy'["play"] # Pipeline!End
  BY <1>0, <1>1, PutAwayTypes
<1>6. LineTypes' BY <1>0, <1>1, <1>4, <1>5 DEF LineTypes
<1>7. LineOrder' BY <1>0, <1>3, <1>4, <1>5, NumsOfEnd DEF LineOrder
<1>8. NoneLost' BY <1>0, <1>4, <1>5, NumsOfEnd DEF PipelineInv, NoneLost
<1>9. EndComesLast'
  <2> SUFFICES ASSUME ~error PROVE EndComesLast' BY <1>0 DEF EndComesLast
  <2>1. (AggregateDone' <=> AggregateDone) /\ (SpeakDone' <=> SpeakDone)
    BY <1>0, <1>5 DEF AggregateDone, SpeakDone
  <2>2. completed' => q["play"] = <<>> /\ SpeakDone
    BY <1>0 DEF PipelineInv, EndComesLast
  <2> QED BY <1>0, <1>5, <2>1, <2>2 DEF PipelineInv, EndComesLast
<1>10. CallerWaits' BY <1>0 DEF PipelineInv, CallerWaits, Pipeline!Running, Pipeline!Over
<1> QED BY <1>6, <1>7, <1>8, <1>9, <1>10 DEF PipelineInv

LEMMA RaisesStep ==
  ASSUME PipelineInv, NEW x \in {"speak", "play"}, Pipeline!Raises(x)
  PROVE  PipelineInv'
<1>0. /\ busy' = [busy EXCEPT ![x] = <<>>] /\ error' = TRUE /\ Pipeline!Running
      /\ UNCHANGED <<stream, texts, gen, q, buffer, framework, completed, turn, played, silent>>
  BY DEF Pipeline!Raises, Pipeline!past
<1>1. /\ busy' \in [{"speak", "play"} -> Seq(Nat)] /\ busy'[x] = <<>>
      /\ \A y \in {"speak", "play"} \ {x} : busy'[y] = busy[y]
      /\ \A y \in {"speak", "play"} : busy'[y] = <<>> \/ IsFrame(busy'[y])
  BY <1>0, PutAwayTypes DEF PipelineInv
<1>2. LineTypes' BY <1>0, <1>1 DEF PipelineInv, LineTypes
<1>3. LineOrder'
  <2>1. /\ InOrder(Nums(played), {}, Held(q["play"]), Nums(busy["speak"]), Held(q["speak"]),
                   Nums(buffer), Held(q["aggregate"]), texts)
        /\ InOrder(Nums(played), Nums(busy["play"]), Held(q["play"]), {}, Held(q["speak"]),
                   Nums(buffer), Held(q["aggregate"]), texts)
    BY OrderAfterMove DEF PipelineInv, LineOrder
  <2>2. CASE x = "speak" BY <1>0, <1>1, <2>1, <2>2, NumsOfEnd DEF LineOrder
  <2>3. CASE x = "play" BY <1>0, <1>1, <2>1, <2>3, NumsOfEnd DEF LineOrder
  <2> QED BY <2>2, <2>3
<1>4. NoneLost' /\ EndComesLast' BY <1>0 DEF NoneLost, EndComesLast
<1>5. CallerWaits' BY <1>0 DEF PipelineInv, CallerWaits, Pipeline!Running, Pipeline!Over
<1> QED BY <1>2, <1>3, <1>4, <1>5 DEF PipelineInv

LEMMA PipelineSteps == PipelineInv /\ [Pipeline!Next]_pipelineVars => PipelineInv'
<1> SUFFICES ASSUME PipelineInv, [Pipeline!Next]_pipelineVars PROVE PipelineInv' OBVIOUS
<1>1. CASE Pipeline!Read
  <2>1. CASE Pipeline!ReadText BY <2>1, ReadTextStep
  <2>2. CASE Pipeline!ReadReason \/ Pipeline!ReadCall
    <3>1. UNCHANGED <<stream, texts, gen, q, busy, buffer, error, framework, completed, turn, played, silent>>
      BY <2>2 DEF Pipeline!ReadReason, Pipeline!ReadCall, Pipeline!chain, Pipeline!shared, Pipeline!past
    <3> QED BY <3>1 DEF PipelineInv, LineTypes, LineOrder, NoneLost, EndComesLast, AggregateDone, SpeakDone,
                        CallerWaits
  <2>3. CASE Pipeline!Eof
    BY <2>3, EndStep DEF Pipeline!Eof, Pipeline!past
  <2>4. CASE Pipeline!Breaks
    BY <2>4, EndStep DEF Pipeline!Breaks, Pipeline!past
  <2> QED BY <1>1, <2>1, <2>2, <2>3, <2>4 DEF Pipeline!Read
<1>2. CASE Pipeline!Aggregate BY <1>2, AggregateStep
<1>3. CASE Pipeline!Speak
  BY <1>3, TakeSpeakStep, SpokenStep, SpokenNothingStep, RaisesStep DEF Pipeline!Speak
<1>4. CASE Pipeline!Play
  BY <1>4, TakePlayStep, PlayedStep, RaisesStep DEF Pipeline!Play
<1>5. CASE Pipeline!Collapses
  <2>1. LineTypes' /\ LineOrder'
    BY <1>5 DEF Pipeline!Collapses, Pipeline!chain, Pipeline!past, PipelineInv, LineTypes, LineOrder
  <2>2. NoneLost' /\ EndComesLast' BY <1>5 DEF Pipeline!Collapses, NoneLost, EndComesLast
  <2>3. CallerWaits' BY <1>5 DEF Pipeline!Collapses, Pipeline!Running, Pipeline!Over, PipelineInv, CallerWaits
  <2> QED BY <2>1, <2>2, <2>3 DEF PipelineInv
<1>6. CASE Pipeline!Completes \/ Pipeline!Leaves \/ Pipeline!Cancel
  <2>1. UNCHANGED <<stream, finish, texts, gen, q, busy, buffer, error, framework, completed, tools, played, silent>>
    BY <1>6 DEF Pipeline!Completes, Pipeline!Leaves, Pipeline!Cancel, Pipeline!chain, Pipeline!shared, Pipeline!past
  <2>2. LineTypes' /\ LineOrder' /\ NoneLost' /\ EndComesLast'
    BY <2>1 DEF PipelineInv, LineTypes, LineOrder, NoneLost, EndComesLast, AggregateDone, SpeakDone
  <2>3. CallerWaits'
    BY <1>6, <2>1 DEF Pipeline!Completes, Pipeline!Leaves, Pipeline!Cancel, Pipeline!Over, PipelineInv, CallerWaits
  <2> QED BY <2>2, <2>3 DEF PipelineInv
<1>7. CASE UNCHANGED pipelineVars
  BY <1>7 DEF pipelineVars, PipelineInv, LineTypes, LineOrder, NoneLost, EndComesLast, AggregateDone,
              SpeakDone, CallerWaits
<1> QED BY <1>1, <1>2, <1>3, <1>4, <1>5, <1>6, <1>7 DEF Pipeline!Next

LEMMA PipelineHolds == PipelineInv => Pipeline!HeardInOrder /\ Pipeline!ReturnedIsWhole
<1> SUFFICES ASSUME PipelineInv PROVE Pipeline!HeardInOrder /\ Pipeline!ReturnedIsWhole OBVIOUS
<1>1. played \in Seq(Marks) /\ silent \in Seq(Marks) /\ IsRun(played)
  BY DEF PipelineInv, LineTypes, IsRun
<1>2. /\ Pipeline!ToSet(played) = Nums(played) /\ Pipeline!ToSet(silent) = Nums(silent)
      /\ DOMAIN played = 1 .. Len(played) /\ Len(played) \in Nat
  <2>1. DOMAIN played = 1 .. Len(played) /\ DOMAIN silent = 1 .. Len(silent) /\ Len(played) \in Nat
    BY <1>1, LenProperties
  <2> QED BY <1>1, <2>1, NumsOfRun DEF Pipeline!ToSet
<1>3. Pipeline!HeardInOrder
  <2> SUFFICES ASSUME NEW i \in 1 .. (Len(played) - 1) PROVE played[i] < played[i + 1]
    BY DEF Pipeline!HeardInOrder, Pipeline!IsIncreasing
  <2>1. i \in DOMAIN played /\ i + 1 \in DOMAIN played /\ i < i + 1 BY <1>2
  <2> QED BY <1>1, <2>1 DEF IsRun
<1>4. ASSUME turn = "returned" PROVE stream = "whole" /\ Nums(played) \cup Nums(silent) = 1 .. texts
  <2>1. completed /\ ~error BY <1>4 DEF PipelineInv, CallerWaits
  <2>2. busy["play"] = <<>> /\ q["play"] = <<>> /\ SpeakDone /\ stream = "whole"
    BY <2>1 DEF PipelineInv, EndComesLast, SpeakDone, AggregateDone
  <2> QED BY <2>1, <2>2, NumsOfEnd DEF PipelineInv, NoneLost, SpeakDone, AggregateDone
<1> QED BY <1>2, <1>3, <1>4 DEF Pipeline!ReturnedIsWhole

\* What the customer hears is in the order of the model's texts, and a turn that returns lost none of
\* them, for any number of texts and any interleaving and failure of the processors.
THEOREM TurnIsWhole == Pipeline!Spec => [](Pipeline!HeardInOrder /\ Pipeline!ReturnedIsWhole)
<1>1. PipelineInv /\ [Pipeline!Next]_(Pipeline!vars) => PipelineInv'
  <2>1. Pipeline!vars' = Pipeline!vars => UNCHANGED pipelineVars
    BY DEF Pipeline!vars, Pipeline!chain, Pipeline!shared, Pipeline!past, pipelineVars
  <2> QED BY <2>1, PipelineSteps
<1> QED BY PipelineStarts, <1>1, PipelineHolds, PTL DEF Pipeline!Spec

-----------------------------------------------------------------------------
(* The splitter. *)

LEMMA LeastOf ==
  ASSUME NEW S \in SUBSET Nat, S # {}
  PROVE  \E i \in S : \A j \in S : i <= j
<1> DEFINE Under == OpToRel(<, Nat)
<1>1. PICK i \in S : \A j \in S : ~(<<j, i>> \in Under)
  <2> HIDE DEF Under
  <2>1. IsWellFoundedOn(Under, Nat) BY NatLessThanWellFounded DEF Under
  <2> QED BY <2>1, WFMin
<1>2. ASSUME NEW j \in S PROVE i <= j
  <2>1. ~(j < i) => i <= j OBVIOUS
  <2>2. <<j, i>> \in Under <=> j < i
    <3>1. <<j, i>> \in Nat \X Nat /\ <<j, i>>[1] = j /\ <<j, i>>[2] = i OBVIOUS
    <3> QED BY ONLY <3>1 DEF OpToRel
  <2> QED BY <1>1, <2>1, <2>2
<1> QED BY <1>2

LEMMA GreatestOf ==
  ASSUME NEW n \in Nat, NEW S \in SUBSET (1 .. n), S # {}
  PROVE  \E i \in S : \A j \in S : j <= i
<1> DEFINE Mirror == {n - i : i \in S}
<1>1. PICK m \in Mirror : \A k \in Mirror : m <= k
  <2>1. \A i \in S : n - i \in Nat OBVIOUS
  <2>2. Mirror \in SUBSET Nat BY <2>1
  <2>3. PICK i \in S : TRUE OBVIOUS
  <2>4. n - i \in Mirror OBVIOUS
  <2> HIDE DEF Mirror
  <2> QED BY <2>2, <2>4, LeastOf
<1>2. PICK i \in S : m = n - i BY <1>1
<1>3. ASSUME NEW j \in S PROVE j <= i
  <2>1. n - i <= n - j BY <1>1, <1>2
  <2> QED BY <2>1
<1> QED BY <1>3

Text == Seq(Split!Chars)

LEMMA BlankText ==
  ASSUME NEW s \in Text
  PROVE  /\ Split!IsBlank(s) <=> \A i \in 1 .. Len(s) : s[i] = "blank"
         /\ "blank" \in Split!ToSet(s) <=> \E i \in 1 .. Len(s) : s[i] = "blank"
         /\ Len(s) \in Nat
<1>1. DOMAIN s = 1 .. Len(s) /\ Len(s) \in Nat BY LenProperties DEF Text
<1>2. Split!ToSet(s) = {s[i] : i \in 1 .. Len(s)} BY <1>1 DEF Split!ToSet
<1> QED BY <1>1, <1>2 DEF Split!IsBlank

\* What is spoken of a phrase: nothing, or it from its first sign to its last.
LEMMA Stripped ==
  ASSUME NEW s \in Text, NEW t, t = Split!Strip(s)
  PROVE  /\ t \in Text /\ Len(t) \in Nat
         /\ t = <<>> \/ \E lo \in 1 .. Len(s), hi \in 1 .. Len(s) :
              lo <= hi /\ t = SubSeq(s, lo, hi) /\ s[lo] # "blank" /\ s[hi] # "blank"
<1>1. CASE Split!IsBlank(s)
  BY <1>1, EmptySeq DEF Split!Strip, Text
<1>2. CASE ~Split!IsBlank(s)
  <2> DEFINE on == Split!Inked(s)
  <2>1. on = {i \in 1 .. Len(s) : s[i] # "blank"} /\ on # {} /\ Len(s) \in Nat
    BY <1>2, BlankText, LenProperties DEF Text, Split!Inked
  <2> HIDE DEF on
  <2>2. \E i \in on : \A j \in on : i <= j
    <3>1. on \in SUBSET Nat BY <2>1
    <3> QED BY <2>1, <3>1, LeastOf
  <2>3. \E i \in on : \A j \in on : j <= i
    <3>1. on \in SUBSET (1 .. Len(s)) BY <2>1
    <3> QED BY <2>1, <3>1, GreatestOf
  <2> DEFINE lo == CHOOSE i \in on : \A j \in on : i <= j
             hi == CHOOSE i \in on : \A j \in on : j <= i
  <2>4. lo \in on /\ \A j \in on : lo <= j BY <2>2
  <2>5. hi \in on /\ \A j \in on : j <= hi BY <2>3
  <2>6. t = SubSeq(s, lo, hi) BY <1>2 DEF Split!Strip, on
  <2> HIDE DEF lo, hi
  <2>7. lo \in 1 .. Len(s) /\ hi \in 1 .. Len(s) /\ s[lo] # "blank" /\ s[hi] # "blank" /\ lo <= hi
    BY <2>1, <2>4, <2>5
  <2>8. t \in Text /\ Len(t) \in Nat
    <3>1. \A i \in lo .. hi : s[i] \in Split!Chars BY <2>1, <2>7, ElementOfSeq DEF Text
    <3>2. t \in Text BY <2>6, <2>7, <3>1, SubSeqProperties DEF Text
    <3> QED BY <3>2, LenProperties DEF Text
  <2> QED BY <2>6, <2>7, <2>8
<1> QED BY <1>1, <1>2

LEMMA StrippedFits ==
  ASSUME NEW s \in Text
  PROVE  /\ Len(Split!Strip(s)) \in Nat /\ Len(Split!Strip(s)) <= Len(s)
         /\ Len(s) > 0 /\ s[Len(s)] = "blank" => Len(Split!Strip(s)) <= Len(s) - 1
         /\ (\A i \in 1 .. Len(s) - 1 : s[i] # "blank") => "blank" \notin Split!ToSet(Split!Strip(s))
<1> DEFINE t == Split!Strip(s)
<1>1. /\ t \in Text /\ Len(t) \in Nat
      /\ t = <<>> \/ \E lo \in 1 .. Len(s), hi \in 1 .. Len(s) :
              lo <= hi /\ t = SubSeq(s, lo, hi) /\ s[lo] # "blank" /\ s[hi] # "blank"
  <2> HIDE DEF t
  <2>1. t = Split!Strip(s) BY DEF t
  <2> QED BY <2>1, Stripped
<1> HIDE DEF t
<1>2. Len(s) \in Nat BY BlankText
<1>3. CASE t = <<>>
  <2>1. Len(t) = 0 BY <1>3, EmptySeq
  <2>2. "blank" \notin Split!ToSet(t)  BY <1>1, <2>1, BlankText
  <2> QED BY <1>2, <2>1, <2>2 DEF t
<1>4. CASE t # <<>>
  <2>1. PICK lo \in 1 .. Len(s), hi \in 1 .. Len(s) :
              lo <= hi /\ t = SubSeq(s, lo, hi) /\ s[lo] # "blank" /\ s[hi] # "blank"
    BY <1>1, <1>4
  <2>2. Len(t) = hi - lo + 1 /\ \A i \in 1 .. hi - lo + 1 : t[i] = s[lo + i - 1]
    <3>1. \A i \in lo .. hi : s[i] \in Split!Chars BY <1>2, <2>1, ElementOfSeq DEF Text
    <3> QED BY <1>2, <2>1, <3>1, SubSeqProperties
  <2>3. Len(t) <= Len(s) BY <1>2, <2>1, <2>2
  <2>4. ASSUME Len(s) > 0, s[Len(s)] = "blank" PROVE Len(t) <= Len(s) - 1
    <3>1. hi # Len(s) BY <2>1, <2>4
    <3> QED BY <1>2, <2>1, <2>2, <3>1
  <2>5. ASSUME \A i \in 1 .. Len(s) - 1 : s[i] # "blank" PROVE "blank" \notin Split!ToSet(t)
    <3>1. \A i \in 1 .. Len(t) : t[i] # "blank"
      <4> SUFFICES ASSUME NEW i \in 1 .. Len(t) PROVE t[i] # "blank" OBVIOUS
      <4>1. t[i] = s[lo + i - 1] /\ lo + i - 1 \in 1 .. hi BY <1>2, <2>1, <2>2
      <4>2. CASE lo + i - 1 = hi BY <2>1, <4>1, <4>2
      <4>3. CASE lo + i - 1 < hi
        <5>1. lo + i - 1 \in 1 .. Len(s) - 1 BY <1>2, <2>1, <4>1, <4>3
        <5> QED BY <2>5, <4>1, <5>1
      <4> QED BY <1>2, <2>1, <4>1, <4>2, <4>3
    <3> QED BY <1>1, <3>1, BlankText
  <2> QED BY <2>3, <2>4, <2>5, <1>1 DEF t
<1> QED BY <1>3, <1>4

LEMMA TheSmallest ==
  ASSUME NEW S \in SUBSET Nat, S # {}
  PROVE  Split!Smallest(S) \in S /\ \A j \in S : Split!Smallest(S) <= j
BY LeastOf DEF Split!Smallest

LEMMA TheGreatest ==
  ASSUME NEW n \in Nat, NEW S \in SUBSET (1 .. n), S # {}
  PROVE  Split!Greatest(S) \in S /\ \A j \in S : j <= Split!Greatest(S)
BY GreatestOf DEF Split!Greatest

NoBlank(s, n) == \A i \in 1 .. n : s[i] # "blank"

\* Where the loop cuts the buffer, and what it is when it is not cut.
CutAt(c) ==
  \/ first /\ c <= FirstChars /\ Split!Buf[c] = "comma"
  \/ c <= Split!Limit /\ Split!Buf[c] = "mark"
  \/ c <= Split!Limit /\ Split!Buf[c] = "stop" /\ (c < Len(Split!Buf) => Split!Buf[c + 1] # "digit")
       /\ ~(c = Len(Split!Buf) /\ c > 1 /\ Split!Buf[c - 1] = "digit")
  \/ c <= Split!Limit + 1 /\ Split!Buf[c] = "blank"
  \/ c <= MaxChars /\ Split!Buf[c] = "blank" /\ NoBlank(Split!Buf, c - 1)
  \/ c = MaxChars /\ NoBlank(Split!Buf, c)

LEMMA CutCases ==
  ASSUME Split!Buf \in Text, first \in BOOLEAN
  PROVE  /\ Split!Cut \in 0 .. Len(Split!Buf)
         /\ Split!Cut # 0 => CutAt(Split!Cut)
         /\ Split!Cut = 0 => \/ Len(Split!Buf) <= Split!Limit
                             \/ Len(Split!Buf) <= MaxChars /\ NoBlank(Split!Buf, Len(Split!Buf))
<1> DEFINE b == Split!Buf
<1>1. /\ {MinChars, MaxChars, FirstChars, Intro, MaxText} \subseteq Nat \ {0}
      /\ Intro <= FirstChars /\ FirstChars < MaxChars
  BY ServicesAssumption DEF Split!SplitterAssumption
<1>2. Split!Limit \in Nat \ {0} /\ Split!Limit <= MaxChars /\ (first => Split!Limit = FirstChars)
  BY <1>1 DEF Split!Limit
<1>3. DOMAIN b = 1 .. Len(b) /\ Len(b) \in Nat BY LenProperties DEF Text
<1>4. CASE Split!Clauses # {}
  <2>1. first /\ Split!Clauses = {i \in Intro .. Split!Limit : i \in 1 .. Len(b) /\ b[i] = "comma"}
    BY <1>3, <1>4 DEF Split!Clauses
  <2>2. Split!Clauses \in SUBSET Nat BY <1>1, <1>2, <2>1
  <2>3. Split!Cut \in Split!Clauses BY <1>4, <2>2, TheSmallest DEF Split!Cut
  <2>4. Split!Cut \in 1 .. Len(b) /\ b[Split!Cut] = "comma" /\ Split!Cut <= FirstChars
    BY <1>1, <1>2, <1>3, <2>1, <2>3
  <2> QED BY <1>3, <2>1, <2>4 DEF CutAt
<1>5. CASE Split!Clauses = {} /\ Split!Sentences # {}
  <2>1. Split!Sentences \in SUBSET Nat BY <1>3 DEF Split!Sentences
  <2>2. Split!Cut \in Split!Sentences BY <1>5, <2>1, TheSmallest DEF Split!Cut
  <2> QED BY <1>3, <2>2 DEF Split!Sentences, CutAt
<1>6. CASE Split!Clauses = {} /\ Split!Sentences = {}
  <2> DEFINE near == Split!AtMost(Split!Blanks, Split!Limit + 1)
             far == Split!AtMost(Split!Blanks, MaxChars)
  <2>1. /\ near = {i \in 1 .. Len(b) : b[i] = "blank" /\ i <= Split!Limit + 1}
        /\ far = {i \in 1 .. Len(b) : b[i] = "blank" /\ i <= MaxChars}
    BY <1>3 DEF Split!AtMost, Split!Blanks
  <2>2. Split!Cut = IF Len(b) <= Split!Limit THEN 0
                    ELSE IF near # {} THEN Split!Greatest(near)
                    ELSE IF far # {} THEN Split!Smallest(far)
                    ELSE IF Len(b) > MaxChars THEN MaxChars ELSE 0
    BY <1>6 DEF Split!Cut, Split!Forced
  <2> HIDE DEF near, far
  <2>3. CASE Len(b) <= Split!Limit BY <1>3, <2>2, <2>3
  <2>4. CASE ~(Len(b) <= Split!Limit) /\ near # {}
    <3>1. near \in SUBSET (1 .. Len(b)) BY <2>1
    <3>2. Split!Cut \in near BY <1>3, <2>2, <2>4, <3>1, TheGreatest
    <3> QED BY <1>3, <2>1, <3>2 DEF CutAt
  <2>5. CASE ~(Len(b) <= Split!Limit) /\ near = {} /\ far # {}
    <3>1. far \in SUBSET Nat BY <1>3, <2>1
    <3>2. Split!Cut \in far /\ \A j \in far : Split!Cut <= j BY <2>2, <2>5, <3>1, TheSmallest
    <3>3. Split!Cut \in 1 .. Len(b) /\ b[Split!Cut] = "blank" /\ Split!Cut <= MaxChars BY <2>1, <3>2
    <3>4. NoBlank(b, Split!Cut - 1)
      <4> SUFFICES ASSUME NEW i \in 1 .. Split!Cut - 1, b[i] = "blank" PROVE FALSE BY DEF NoBlank
      <4>1. i \in 1 .. Len(b) /\ i <= MaxChars /\ ~(Split!Cut <= i) BY <1>1, <1>3, <3>3
      <4> QED BY <2>1, <3>2, <4>1
    <3> QED BY <3>3, <3>4 DEF CutAt
  <2>6. CASE ~(Len(b) <= Split!Limit) /\ near = {} /\ far = {}
    <3>1. \A i \in 1 .. Len(b) : i <= MaxChars => b[i] # "blank" BY <2>1, <2>6
    <3>2. CASE Len(b) > MaxChars
      <4>1. Split!Cut = MaxChars /\ MaxChars \in 1 .. Len(b) BY <1>1, <1>3, <2>2, <2>6, <3>2
      <4>2. NoBlank(b, MaxChars) BY <1>1, <1>3, <3>1, <3>2 DEF NoBlank
      <4> QED BY <1>3, <4>1, <4>2 DEF CutAt
    <3>3. CASE ~(Len(b) > MaxChars)
      <4>1. Split!Cut = 0 /\ Len(b) <= MaxChars BY <1>1, <1>3, <2>2, <2>6, <3>3
      <4>2. NoBlank(b, Len(b)) BY <1>1, <1>3, <3>1, <3>3 DEF NoBlank
      <4> QED BY <1>3, <4>1, <4>2
    <3> QED BY <3>2, <3>3
  <2> QED BY <2>3, <2>4, <2>5, <2>6
<1> QED BY <1>4, <1>5, <1>6

-----------------------------------------------------------------------------
BlankTo(t, n) == \A i \in 1 .. n : t[i] = "blank"

\* What is spoken of the characters a to c of t is not too long.
Fits(t, a, c) ==
  /\ Len(Split!Strip(SubSeq(t, a, c))) <= MaxChars
  /\ BlankTo(t, a - 1) /\ Len(Split!Strip(SubSeq(t, a, c))) > FirstChars
       => "blank" \notin Split!ToSet(Split!Strip(SubSeq(t, a, c)))

\* They end where they may, and whatever comes next they still do.
EndsRight(t, a, c) ==
  \/ c - a + 1 = MaxChars /\ \A i \in a .. c : t[i] # "blank"
  \/ t[c] \in {"blank", "mark"}
  \/ t[c] = "comma" /\ BlankTo(t, a - 1)
  \/ t[c] = "stop" /\ ~(c > a /\ t[c - 1] = "digit" /\ (c = Len(t) \/ t[c + 1] = "digit"))

Phrase(t, a, c) ==
  /\ a \in 1 .. c /\ c \in 1 .. Len(t)
  /\ Fits(t, a, c) /\ (EndsRight(t, a, c) \/ (flushed /\ c = Len(t)))

SplitInv ==
  /\ text \in Text /\ cuts \in Seq(Nat) /\ first \in BOOLEAN /\ flushed \in BOOLEAN
  /\ \A k \in 1 .. Len(cuts) : Phrase(text, Split!From(k), cuts[k])
  /\ ~flushed => (first <=> BlankTo(text, Split!Start - 1))
  /\ flushed => Split!IsBlank(Split!Buf)

\* Characters a to c of t, one by one.
LEMMA PartOf ==
  ASSUME NEW t \in Text, NEW a \in 1 .. Len(t) + 1, NEW c \in a - 1 .. Len(t)
  PROVE  /\ SubSeq(t, a, c) \in Text /\ Len(SubSeq(t, a, c)) = c - a + 1
         /\ \A i \in 1 .. c - a + 1 : SubSeq(t, a, c)[i] = t[a + i - 1]
         /\ Len(t) \in Nat
<1>1. Len(t) \in Nat BY LenProperties DEF Text
<1>2. \A i \in a .. c : t[i] \in Split!Chars BY <1>1, ElementOfSeq DEF Text
<1>3. a \in Int /\ c \in Int BY <1>1
<1>4. /\ SubSeq(t, a, c) \in Seq(Split!Chars)
      /\ Len(SubSeq(t, a, c)) = IF a <= c THEN c - a + 1 ELSE 0
      /\ \A i \in 1 .. c - a + 1 : SubSeq(t, a, c)[i] = t[a + i - 1]
  BY <1>2, <1>3, SubSeqProperties
<1> QED BY <1>1, <1>4 DEF Text

LEMMA BlankStart ==
  ASSUME NEW t \in Text, NEW n \in 0 .. Len(t)
  PROVE  Split!IsBlank(SubSeq(t, 1, n)) <=> BlankTo(t, n)
<1>1. /\ SubSeq(t, 1, n) \in Text /\ Len(SubSeq(t, 1, n)) = n
      /\ \A i \in 1 .. n : SubSeq(t, 1, n)[i] = t[i]
  <2>1. 1 \in 1 .. Len(t) + 1 /\ n \in 1 - 1 .. Len(t) /\ Len(t) \in Nat BY LenProperties DEF Text
  <2>2. /\ SubSeq(t, 1, n) \in Text /\ Len(SubSeq(t, 1, n)) = n - 1 + 1
        /\ \A i \in 1 .. n - 1 + 1 : SubSeq(t, 1, n)[i] = t[1 + i - 1]
    BY <2>1, PartOf
  <2>3. n - 1 + 1 = n /\ \A i \in 1 .. n : 1 + i - 1 = i BY <2>1
  <2> QED BY <2>2, <2>3
<1> QED BY <1>1, BlankText DEF BlankTo

\* What more is fed leaves the phrases as they are.
LEMMA MoreText ==
  ASSUME NEW t \in Text, NEW u \in Text, NEW c \in 1 .. Len(t), NEW a \in 1 .. c
  PROVE  /\ Fits(t, a, c) => Fits(t \o u, a, c)
         /\ EndsRight(t, a, c) => EndsRight(t \o u, a, c)
         /\ BlankTo(t \o u, a - 1) <=> BlankTo(t, a - 1)
<1> DEFINE l == t \o u
<1>1. Len(t) \in Nat /\ Len(u) \in Nat BY LenProperties DEF Text
<1>2. /\ l \in Text /\ Len(l) = Len(t) + Len(u)
      /\ \A i \in 1 .. Len(t) + Len(u) : l[i] = IF i <= Len(t) THEN t[i] ELSE u[i - Len(t)]
  BY ConcatProperties DEF Text
<1>3. \A i \in 1 .. Len(t) : l[i] = t[i] BY <1>1, <1>2
<1>4. a \in 1 .. Len(t) BY <1>1
<1>5. SubSeq(l, a, c) = SubSeq(t, a, c) BY <1>4, SubSeqOfConcat1 DEF Text
<1> HIDE DEF l
<1>6. BlankTo(l, a - 1) <=> BlankTo(t, a - 1)
  <2>1. \A i \in 1 .. a - 1 : i \in 1 .. Len(t) BY <1>1
  <2> QED BY <1>3, <2>1 DEF BlankTo
<1>7. Fits(t, a, c) => Fits(l, a, c) BY <1>5, <1>6 DEF Fits
<1>8. ASSUME EndsRight(t, a, c) PROVE EndsRight(l, a, c)
  <2>1. CASE c - a + 1 = MaxChars /\ \A i \in a .. c : t[i] # "blank"
    <3>1. \A i \in a .. c : i \in 1 .. Len(t) BY <1>1
    <3> QED BY <1>3, <2>1, <3>1 DEF EndsRight
  <2>2. CASE t[c] \in {"blank", "mark"} BY <1>3, <2>2 DEF EndsRight
  <2>3. CASE t[c] = "comma" /\ BlankTo(t, a - 1) BY <1>3, <1>6, <2>3 DEF EndsRight
  <2>4. CASE t[c] = "stop" /\ ~(c > a /\ t[c - 1] = "digit" /\ (c = Len(t) \/ t[c + 1] = "digit"))
    <3>1. SUFFICES ASSUME c > a, l[c - 1] = "digit", c = Len(l) \/ l[c + 1] = "digit" PROVE FALSE
      BY <1>3, <2>4 DEF EndsRight
    <3>2. c - 1 \in 1 .. Len(t) /\ t[c - 1] = "digit" BY <1>1, <1>3, <3>1
    <3>3. c # Len(t) /\ t[c + 1] # "digit" BY <2>4, <3>1, <3>2
    <3>4. c + 1 \in 1 .. Len(t) /\ c # Len(l) BY <1>1, <1>2, <3>3
    <3> QED BY <1>3, <3>1, <3>3, <3>4
  <2> QED BY <1>8, <2>1, <2>2, <2>3, <2>4 DEF EndsRight
<1> QED BY <1>6, <1>7, <1>8 DEF l

LEMMA BufferIs ==
  ASSUME SplitInv
  PROVE  /\ Split!Start \in 1 .. Len(text) + 1 /\ Len(text) \in Nat /\ Len(cuts) \in Nat
         /\ Split!Buf \in Text /\ Len(Split!Buf) = Len(text) - Split!Start + 1
         /\ \A i \in 1 .. Len(Split!Buf) : Split!Buf[i] = text[Split!Start + i - 1]
<1>1. Len(text) \in Nat /\ Len(cuts) \in Nat BY LenProperties DEF SplitInv, Text
<1>2. Split!Start \in 1 .. Len(text) + 1
  <2>1. CASE Len(cuts) = 0 BY <1>1, <2>1 DEF Split!Start, Split!From
  <2>2. CASE Len(cuts) # 0
    <3>1. Len(cuts) \in 1 .. Len(cuts) /\ Len(cuts) + 1 # 1 /\ (Len(cuts) + 1) - 1 = Len(cuts) BY <1>1, <2>2
    <3>2. cuts[Len(cuts)] \in 1 .. Len(text) BY <3>1 DEF SplitInv, Phrase
    <3>3. Split!Start = cuts[Len(cuts)] + 1 BY <3>1 DEF Split!Start, Split!From
    <3> QED BY <1>1, <3>2, <3>3
  <2> QED BY <2>1, <2>2
<1>3. Len(text) \in Split!Start - 1 .. Len(text) BY <1>1, <1>2
<1>4. text \in Text BY DEF SplitInv
<1>5. /\ Split!Buf \in Text /\ Len(Split!Buf) = Len(text) - Split!Start + 1
      /\ \A i \in 1 .. Len(text) - Split!Start + 1 : Split!Buf[i] = text[Split!Start + i - 1]
  BY <1>2, <1>3, <1>4, PartOf DEF Split!Buf
<1> QED BY <1>1, <1>2, <1>5

-----------------------------------------------------------------------------
LEMMA SplitStarts == Split!Init => SplitInv
<1> SUFFICES ASSUME Split!Init PROVE SplitInv OBVIOUS
<1>1. text = <<>> /\ cuts = <<>> /\ first = TRUE /\ flushed = FALSE BY DEF Split!Init
<1>2. text \in Text /\ cuts \in Seq(Nat) /\ Len(cuts) = 0 BY <1>1, EmptySeq DEF Text
<1>3. Split!Start = 1 BY <1>2 DEF Split!Start, Split!From
<1>4. BlankTo(text, Split!Start - 1) BY <1>3 DEF BlankTo
<1>5. 1 .. Len(cuts) = {} BY <1>2
<1>6. ~flushed /\ first /\ first \in BOOLEAN /\ flushed \in BOOLEAN BY <1>1
<1> QED BY <1>2, <1>4, <1>5, <1>6 DEF SplitInv

\* A phrase more: the others are where they were.
LEMMA OneMoreCut ==
  ASSUME SplitInv, NEW x \in Nat, cuts' = Append(cuts, x)
  PROVE  /\ cuts' \in Seq(Nat) /\ Len(cuts') = Len(cuts) + 1
         /\ \A k \in 1 .. Len(cuts) : cuts'[k] = cuts[k]
         /\ \A k \in 1 .. Len(cuts) + 1 : Split!From(k)' = Split!From(k)
         /\ cuts'[Len(cuts) + 1] = x
         /\ Split!Start' = x + 1
<1>1. Len(cuts) \in Nat /\ cuts \in Seq(Nat) BY BufferIs DEF SplitInv
<1>2. /\ cuts' \in Seq(Nat) /\ Len(cuts') = Len(cuts) + 1
      /\ \A k \in 1 .. Len(cuts) : cuts'[k] = cuts[k]
      /\ cuts'[Len(cuts) + 1] = x
  BY <1>1, AppendProperties
<1>3. ASSUME NEW k \in 1 .. Len(cuts) + 1 PROVE Split!From(k)' = Split!From(k)
  <2>1. CASE k = 1 BY <2>1 DEF Split!From
  <2>2. CASE k # 1
    <3>1. k - 1 \in 1 .. Len(cuts) BY <1>1, <2>2
    <3> QED BY <1>2, <2>2, <3>1 DEF Split!From
  <2> QED BY <2>1, <2>2
<1>4. Split!Start' = x + 1
  <2>1. Len(cuts') + 1 # 1 /\ (Len(cuts') + 1) - 1 = Len(cuts) + 1 BY <1>1, <1>2
  <2> QED BY <1>2, <2>1 DEF Split!Start, Split!From
<1> QED BY <1>2, <1>3, <1>4

LEMMA FeedStep == SplitInv /\ Split!Feed => SplitInv'
<1> SUFFICES ASSUME SplitInv, Split!Feed PROVE SplitInv' OBVIOUS
<1>1. PICK token \in Split!Tokens : text' = text \o token BY DEF Split!Feed
<1>2. ~flushed /\ cuts' = cuts /\ first' = first /\ flushed' = flushed BY DEF Split!Feed
<1>3. token \in Text
  <2>1. PICK n \in 1 .. 2 : token \in [1 .. n -> Split!Chars] BY DEF Split!Tokens
  <2>2. n \in Nat BY <2>1
  <2> QED BY <2>1, <2>2, SeqDef DEF Text
<1>4. text \in Text /\ cuts \in Seq(Nat) BY DEF SplitInv
<1>5. text' \in Text /\ Len(text') = Len(text) + Len(token) BY <1>1, <1>3, <1>4, ConcatProperties DEF Text
<1>6. Len(text) \in Nat /\ Len(token) \in Nat BY <1>3, <1>4, LenProperties DEF Text
<1>7. Split!Start' = Split!Start /\ \A k \in 1 .. Len(cuts) : Split!From(k)' = Split!From(k)
  BY <1>2 DEF Split!Start, Split!From
<1>8. ASSUME NEW k \in 1 .. Len(cuts) PROVE Phrase(text, Split!From(k), cuts[k])'
  <2>1. Phrase(text, Split!From(k), cuts[k]) BY DEF SplitInv
  <2>2. cuts[k] \in 1 .. Len(text) /\ Split!From(k) \in 1 .. cuts[k] BY <2>1 DEF Phrase
  <2>3. /\ Fits(text', Split!From(k), cuts[k]) /\ EndsRight(text', Split!From(k), cuts[k])
    <3>1. Fits(text, Split!From(k), cuts[k]) /\ EndsRight(text, Split!From(k), cuts[k])
      BY <1>2, <2>1 DEF Phrase
    <3>2. /\ Fits(text, Split!From(k), cuts[k]) => Fits(text \o token, Split!From(k), cuts[k])
          /\ EndsRight(text, Split!From(k), cuts[k]) => EndsRight(text \o token, Split!From(k), cuts[k])
      BY <1>3, <1>4, <2>2, MoreText
    <3> QED BY <1>1, <3>1, <3>2
  <2>4. cuts[k] \in 1 .. Len(text') BY <1>5, <1>6, <2>2
  <2>5. cuts'[k] = cuts[k] /\ Split!From(k)' = Split!From(k) BY <1>2, <1>7
  <2> QED BY <2>2, <2>3, <2>4, <2>5 DEF Phrase
<1>9. BlankTo(text', Split!Start - 1) <=> BlankTo(text, Split!Start - 1)
  <2>1. /\ Split!Start \in 1 .. Len(text) + 1
    BY BufferIs
  <2>2. /\ \A i \in 1 .. Len(text) + Len(token) : text'[i] = IF i <= Len(text) THEN text[i] ELSE token[i - Len(text)]
    BY <1>1, <1>3, <1>4, ConcatProperties DEF Text
  <2>3. \A i \in 1 .. Split!Start - 1 : text'[i] = text[i]
    <3>1. \A i \in 1 .. Split!Start - 1 : i \in 1 .. Len(text) + Len(token) /\ i <= Len(text) BY <1>6, <2>1
    <3> QED BY <2>2, <3>1
  <2> QED BY <2>3 DEF BlankTo
<1>10. (first <=> BlankTo(text, Split!Start - 1))'
  <2>1. first <=> BlankTo(text, Split!Start - 1) BY <1>2 DEF SplitInv
  <2> QED BY <1>2, <1>7, <1>9, <2>1 DEF BlankTo
<1>11. first \in BOOLEAN /\ flushed \in BOOLEAN BY DEF SplitInv
<1> QED BY <1>2, <1>4, <1>5, <1>8, <1>10, <1>11 DEF SplitInv

\* The characters from the last end up to the n-th of the buffer, as a phrase to be.
LEMMA NextPhrase ==
  ASSUME SplitInv, NEW n \in 0 .. Len(Split!Buf), NEW x, x = Split!Start + n - 1
  PROVE  /\ x \in Split!Start - 1 .. Len(text)
         /\ SubSeq(text, Split!Start, x) \in Text /\ Len(SubSeq(text, Split!Start, x)) = n
         /\ \A i \in 1 .. n : SubSeq(text, Split!Start, x)[i] = Split!Buf[i]
         /\ Split!IsBlank(SubSeq(text, Split!Start, x)) <=> \A i \in Split!Start .. x : text[i] = "blank"
<1>1. /\ Split!Start \in 1 .. Len(text) + 1 /\ Len(text) \in Nat
      /\ Split!Buf \in Text /\ Len(Split!Buf) = Len(text) - Split!Start + 1
      /\ \A i \in 1 .. Len(Split!Buf) : Split!Buf[i] = text[Split!Start + i - 1]
  BY BufferIs
<1>2. x \in Split!Start - 1 .. Len(text) /\ x - Split!Start + 1 = n BY <1>1
<1>3. text \in Text BY DEF SplitInv
<1> DEFINE s == SubSeq(text, Split!Start, x)
<1>4. /\ s \in Text /\ Len(s) = x - Split!Start + 1
      /\ \A i \in 1 .. x - Split!Start + 1 : s[i] = text[Split!Start + i - 1]
  BY <1>1, <1>2, <1>3, PartOf
<1> HIDE DEF s
<1>5. Len(s) = n /\ \A i \in 1 .. n : s[i] = text[Split!Start + i - 1] BY <1>2, <1>4
<1>6. \A i \in 1 .. n : s[i] = Split!Buf[i]
  <2>1. \A i \in 1 .. n : i \in 1 .. Len(Split!Buf) BY <1>1
  <2> QED BY <1>1, <1>5, <2>1
<1>7. Split!IsBlank(s) <=> \A i \in Split!Start .. x : text[i] = "blank"
  <2>1. Split!IsBlank(s) <=> \A i \in 1 .. n : s[i] = "blank" BY <1>4, <1>5, BlankText
  <2>2. ASSUME \A i \in 1 .. n : s[i] = "blank", NEW i \in Split!Start .. x PROVE text[i] = "blank"
    <3>1. i - Split!Start + 1 \in 1 .. n /\ Split!Start + (i - Split!Start + 1) - 1 = i BY <1>1, <1>2
    <3> QED BY <1>5, <2>2, <3>1
  <2>3. ASSUME \A i \in Split!Start .. x : text[i] = "blank", NEW i \in 1 .. n PROVE s[i] = "blank"
    <3>1. Split!Start + i - 1 \in Split!Start .. x BY <1>1, <1>2
    <3> QED BY <1>5, <2>3, <3>1
  <2> QED BY <2>1, <2>2, <2>3
<1> QED BY <1>2, <1>4, <1>5, <1>6, <1>7 DEF s

\* The blanks so far and those of the next phrase are the blanks up to its end.
LEMMA BlankSoFar ==
  ASSUME SplitInv, ~flushed, NEW n \in 1 .. Len(Split!Buf), NEW x, x = Split!Start + n - 1
  PROVE  (first /\ Split!IsBlank(SubSeq(Split!Buf, 1, n))) <=> BlankTo(text, x)
<1>1. /\ Split!Start \in 1 .. Len(text) + 1 /\ Len(text) \in Nat
      /\ Split!Buf \in Text /\ Len(Split!Buf) = Len(text) - Split!Start + 1
      /\ \A i \in 1 .. Len(Split!Buf) : Split!Buf[i] = text[Split!Start + i - 1]
  BY BufferIs
<1>2. x \in 1 .. Len(text) /\ n \in 0 .. Len(Split!Buf) BY <1>1
<1>3. first <=> BlankTo(text, Split!Start - 1) BY DEF SplitInv
<1>4. Split!IsBlank(SubSeq(Split!Buf, 1, n)) <=> BlankTo(Split!Buf, n) BY <1>1, <1>2, BlankStart
<1>5. BlankTo(Split!Buf, n) <=> \A i \in Split!Start .. x : text[i] = "blank"
  <2>1. ASSUME BlankTo(Split!Buf, n), NEW i \in Split!Start .. x PROVE text[i] = "blank"
    <3>1. i - Split!Start + 1 \in 1 .. n /\ i - Split!Start + 1 \in 1 .. Len(Split!Buf)
          /\ Split!Start + (i - Split!Start + 1) - 1 = i
      BY <1>1, <1>2
    <3> QED BY <1>1, <2>1, <3>1 DEF BlankTo
  <2>2. ASSUME \A i \in Split!Start .. x : text[i] = "blank", NEW i \in 1 .. n PROVE Split!Buf[i] = "blank"
    <3>1. Split!Start + i - 1 \in Split!Start .. x /\ i \in 1 .. Len(Split!Buf) BY <1>1, <1>2
    <3> QED BY <1>1, <2>2, <3>1
  <2> QED BY <2>1, <2>2 DEF BlankTo
<1>6. BlankTo(text, x) <=> BlankTo(text, Split!Start - 1) /\ \A i \in Split!Start .. x : text[i] = "blank"
  <2>1. \A i \in 1 .. x : i \in 1 .. Split!Start - 1 \/ i \in Split!Start .. x BY <1>1, <1>2
  <2>2. \A i \in Split!Start .. x : i \in 1 .. x BY <1>1, <1>2
  <2>3. \A i \in 1 .. Split!Start - 1 : i \in 1 .. x BY <1>1, <1>2
  <2> QED BY <2>1, <2>2, <2>3 DEF BlankTo
<1> QED BY <1>3, <1>4, <1>5, <1>6

LEMMA SplitStep == SplitInv /\ Split!Split => SplitInv'
<1> SUFFICES ASSUME SplitInv, Split!Split PROVE SplitInv' OBVIOUS
<1> DEFINE c == Split!Cut
           x == Split!Start + Split!Cut - 1
           b == Split!Buf
           s == SubSeq(text, Split!Start, x)
<1>1. /\ ~flushed /\ c # 0 /\ cuts' = Append(cuts, x) /\ text' = text /\ flushed' = flushed
      /\ first' = (first /\ Split!IsBlank(SubSeq(b, 1, c)))
  BY DEF Split!Split
<1>2. /\ Split!Start \in 1 .. Len(text) + 1 /\ Len(text) \in Nat /\ Len(cuts) \in Nat
      /\ b \in Text /\ Len(b) = Len(text) - Split!Start + 1
      /\ \A i \in 1 .. Len(b) : b[i] = text[Split!Start + i - 1]
  BY BufferIs
<1>3. c \in 1 .. Len(b) /\ CutAt(c)
  <2>1. first \in BOOLEAN BY DEF SplitInv
  <2>2. c \in 0 .. Len(b) /\ CutAt(c) BY <1>1, <1>2, <2>1, CutCases
  <2> QED BY <1>1, <1>2, <2>2
<1>4. x = Split!Start + c - 1 /\ x \in Split!Start .. Len(text) /\ x \in Nat /\ x - Split!Start + 1 = c
  BY <1>2, <1>3
<1>5. s \in Text /\ Len(s) = c /\ \A i \in 1 .. c : s[i] = b[i]
  <2>1. c \in 0 .. Len(b) BY <1>2, <1>3
  <2> HIDE DEF c, x
  <2> QED BY <1>4, <2>1, NextPhrase
<1>6. b[c] = text[x] /\ (c > 1 => b[c - 1] = text[x - 1]) /\ (c < Len(b) => b[c + 1] = text[x + 1])
  <2>1. \A i \in 1 .. Len(b) : b[i] = text[Split!Start + i - 1] BY <1>2
  <2>2. Split!Start + c - 1 = x /\ Split!Start + (c - 1) - 1 = x - 1 /\ Split!Start + (c + 1) - 1 = x + 1
    BY <1>2, <1>3
  <2>3. (c > 1 => c - 1 \in 1 .. Len(b)) /\ (c < Len(b) => c + 1 \in 1 .. Len(b)) BY <1>2, <1>3
  <2> HIDE DEF c, x, b
  <2> QED BY <1>3, <2>1, <2>2, <2>3
<1>7. (c = Len(b) <=> x = Len(text)) /\ (c > 1 <=> x > Split!Start)
  BY <1>2, <1>3
<1>8. first <=> BlankTo(text, Split!Start - 1) BY <1>1 DEF SplitInv
<1>9. /\ MaxChars \in Nat /\ FirstChars \in Nat /\ FirstChars < MaxChars
      /\ Split!Limit \in Nat /\ Split!Limit <= MaxChars /\ (first => Split!Limit = FirstChars)
  BY ServicesAssumption DEF Split!SplitterAssumption, Split!Limit
<1> HIDE DEF c, x, b, s
<1>10. Fits(text, Split!Start, x)
  <2>1. /\ Len(Split!Strip(s)) \in Nat /\ Len(Split!Strip(s)) <= c
        /\ s[c] = "blank" => Len(Split!Strip(s)) <= c - 1
        /\ NoBlank(s, c - 1) => "blank" \notin Split!ToSet(Split!Strip(s))
    <3>1. c > 0 BY <1>2, <1>3
    <3> QED BY <1>5, <3>1, StrippedFits DEF NoBlank
  <2>2. s[c] = b[c] /\ (NoBlank(b, c - 1) => NoBlank(s, c - 1)) /\ (NoBlank(b, c) => NoBlank(s, c - 1))
    BY <1>2, <1>3, <1>5 DEF NoBlank
  <2>3. CASE c <= Split!Limit \/ (c <= Split!Limit + 1 /\ b[c] = "blank")
    <3>1. Len(Split!Strip(s)) <= Split!Limit BY <1>2, <1>3, <1>9, <2>1, <2>2, <2>3
    <3>2. Len(Split!Strip(s)) <= MaxChars /\ (first => ~(Len(Split!Strip(s)) > FirstChars))
      BY <1>9, <2>1, <3>1
    <3> QED BY <1>8, <3>2 DEF Fits, s
  <2>4. CASE c <= MaxChars /\ (NoBlank(b, c - 1) \/ NoBlank(b, c))
    <3>1. Len(Split!Strip(s)) <= MaxChars BY <1>2, <1>3, <1>9, <2>1, <2>4
    <3> QED BY <2>1, <2>2, <2>4, <3>1 DEF Fits, s
  <2>5. CASE first /\ c <= FirstChars BY <1>9, <2>3, <2>5
  <2> QED BY <1>3, <1>9, <2>3, <2>4, <2>5 DEF CutAt, b
<1>11. EndsRight(text, Split!Start, x)
  <2>1. CASE first /\ c <= FirstChars /\ b[c] = "comma" BY <1>6, <1>8, <2>1 DEF EndsRight
  <2>2. CASE b[c] \in {"mark", "blank"} BY <1>6, <2>2 DEF EndsRight
  <2>3. CASE /\ b[c] = "stop" /\ (c < Len(b) => b[c + 1] # "digit")
             /\ ~(c = Len(b) /\ c > 1 /\ b[c - 1] = "digit")
    <3>1. SUFFICES ASSUME x > Split!Start, text[x - 1] = "digit", x = Len(text) \/ text[x + 1] = "digit"
                   PROVE FALSE
      BY <1>6, <2>3 DEF EndsRight
    <3>2. c > 1 /\ b[c - 1] = "digit" BY <1>6, <1>7, <3>1
    <3>3. c # Len(b) /\ x # Len(text) BY <1>7, <2>3, <3>2
    <3>4. c < Len(b) BY <1>2, <1>3, <3>3
    <3> QED BY <1>6, <2>3, <3>1, <3>3, <3>4
  <2>4. CASE c = MaxChars /\ NoBlank(b, c)
    <3>1. \A i \in Split!Start .. x : text[i] # "blank"
      <4> SUFFICES ASSUME NEW i \in Split!Start .. x PROVE text[i] # "blank" OBVIOUS
      <4>1. i - Split!Start + 1 \in 1 .. c /\ i - Split!Start + 1 \in 1 .. Len(b)
            /\ Split!Start + (i - Split!Start + 1) - 1 = i
        BY <1>2, <1>3, <1>4
      <4> QED BY <1>2, <2>4, <4>1 DEF NoBlank
    <3>2. x - Split!Start + 1 = MaxChars BY <1>4, <2>4
    <3> QED BY <3>1, <3>2 DEF EndsRight
  <2> QED BY <1>3, <2>1, <2>2, <2>3, <2>4 DEF CutAt, b
<1>12. /\ cuts' \in Seq(Nat) /\ Len(cuts') = Len(cuts) + 1
       /\ \A k \in 1 .. Len(cuts) : cuts'[k] = cuts[k]
       /\ \A k \in 1 .. Len(cuts) + 1 : Split!From(k)' = Split!From(k)
       /\ cuts'[Len(cuts) + 1] = x /\ Split!Start' = x + 1
  BY <1>1, <1>4, OneMoreCut
<1>13. ASSUME NEW k \in 1 .. Len(cuts') PROVE Phrase(text, Split!From(k), cuts[k])'
  <2>1. k \in 1 .. Len(cuts) + 1 BY <1>12
  <2>2. CASE k \in 1 .. Len(cuts)
    <3>1. Phrase(text, Split!From(k), cuts[k]) BY <2>2 DEF SplitInv
    <3> QED BY <1>1, <1>12, <2>1, <2>2, <3>1 DEF Phrase
  <2>3. CASE k = Len(cuts) + 1
    <3>1. Split!From(k)' = Split!Start /\ cuts'[k] = x BY <1>12, <2>1, <2>3 DEF Split!Start
    <3>2. Split!Start \in 1 .. x /\ x \in 1 .. Len(text) BY <1>2, <1>4
    <3> QED BY <1>1, <1>10, <1>11, <3>1, <3>2 DEF Phrase
  <2> QED BY <1>2, <2>1, <2>2, <2>3
<1>14. (first <=> BlankTo(text, Split!Start - 1))'
  <2>1. first' <=> BlankTo(text, x) BY <1>1, <1>3, <1>4, BlankSoFar DEF b
  <2>2. x + 1 - 1 = x BY <1>4
  <2> QED BY <1>1, <1>12, <2>1, <2>2
<1>15. text \in Text /\ first' \in BOOLEAN /\ flushed' \in BOOLEAN BY <1>1 DEF SplitInv
<1> QED BY <1>1, <1>12, <1>13, <1>14, <1>15 DEF SplitInv

LEMMA FlushStep == SplitInv /\ Split!Flush => SplitInv'
<1> SUFFICES ASSUME SplitInv, Split!Flush PROVE SplitInv' OBVIOUS
<1> DEFINE b == Split!Buf
           x == Len(text)
           s == SubSeq(text, Split!Start, x)
<1>1. /\ ~flushed /\ flushed' /\ flushed' \in BOOLEAN /\ Split!Cut = 0
      /\ text' = text /\ first' = first
      /\ cuts' = IF Split!IsBlank(b) THEN cuts ELSE Append(cuts, x)
  BY DEF Split!Flush
<1>2. /\ Split!Start \in 1 .. x + 1 /\ x \in Nat /\ Len(cuts) \in Nat
      /\ b \in Text /\ Len(b) = x - Split!Start + 1
      /\ \A i \in 1 .. Len(b) : b[i] = text[Split!Start + i - 1]
  BY BufferIs
<1>3. text \in Text /\ first' \in BOOLEAN /\ cuts \in Seq(Nat) BY <1>1 DEF SplitInv
<1>4. CASE Split!IsBlank(b)
  <2>1. cuts' = cuts BY <1>1, <1>4
  <2>2. \A k \in 1 .. Len(cuts) : Split!From(k)' = Split!From(k) BY <2>1 DEF Split!From
  <2>3. Split!IsBlank(Split!Buf)'
    BY <1>1, <1>4, <2>1 DEF Split!Buf, Split!Start, Split!From, Split!IsBlank, Split!ToSet
  <2>4. ASSUME NEW k \in 1 .. Len(cuts') PROVE Phrase(text, Split!From(k), cuts[k])'
    <3>1. Phrase(text, Split!From(k), cuts[k]) /\ Split!From(k)' = Split!From(k)
      BY <2>1, <2>2 DEF SplitInv
    <3> QED BY <1>1, <2>1, <3>1 DEF Phrase
  <2> QED BY <1>1, <1>3, <2>1, <2>3, <2>4 DEF SplitInv
<1>5. CASE ~Split!IsBlank(b)
  <2>1. cuts' = Append(cuts, x) BY <1>1, <1>5
  <2>2. /\ cuts' \in Seq(Nat) /\ Len(cuts') = Len(cuts) + 1
        /\ \A k \in 1 .. Len(cuts) : cuts'[k] = cuts[k]
        /\ \A k \in 1 .. Len(cuts) + 1 : Split!From(k)' = Split!From(k)
        /\ cuts'[Len(cuts) + 1] = x /\ Split!Start' = x + 1
    <3> HIDE DEF x
    <3> QED BY <1>2, <2>1, OneMoreCut
  <2>3. Len(b) # 0
    <3>1. Len(b) = 0 => Split!IsBlank(b) BY <1>2, BlankText
    <3> QED BY <1>5, <3>1
  <2>4. Len(b) \in 1 .. Len(b) /\ x = Split!Start + Len(b) - 1 BY <1>2, <2>3
  <2>5. s \in Text /\ Len(s) = Len(b) /\ \A i \in 1 .. Len(b) : s[i] = b[i]
    <3>1. Len(b) \in 0 .. Len(b) BY <2>4
    <3> HIDE DEF x
    <3> QED BY <2>4, <3>1, NextPhrase
  <2>6. Fits(text, Split!Start, x)
    <3>1. /\ Len(Split!Strip(s)) \in Nat /\ Len(Split!Strip(s)) <= Len(b)
          /\ NoBlank(s, Len(b) - 1) => "blank" \notin Split!ToSet(Split!Strip(s))
      BY <2>5, StrippedFits DEF NoBlank
    <3>2. NoBlank(b, Len(b)) => NoBlank(s, Len(b) - 1)
      <4> HIDE DEF b, x, s
      <4>1. \A i \in 1 .. Len(b) - 1 : i \in 1 .. Len(b) BY <1>2, <2>4
      <4> QED BY <2>5, <4>1 DEF NoBlank
    <3>3. Len(b) <= Split!Limit \/ (Len(b) <= MaxChars /\ NoBlank(b, Len(b)))
      <4>1. first \in BOOLEAN BY DEF SplitInv
      <4> QED BY <1>1, <1>2, <4>1, CutCases
    <3>4. /\ MaxChars \in Nat /\ FirstChars \in Nat /\ FirstChars < MaxChars
          /\ Split!Limit \in Nat /\ Split!Limit <= MaxChars /\ (first => Split!Limit = FirstChars)
      BY ServicesAssumption DEF Split!SplitterAssumption, Split!Limit
    <3>5. first <=> BlankTo(text, Split!Start - 1) BY <1>1 DEF SplitInv
    <3> HIDE DEF s, x, b
    <3>6. Len(Split!Strip(s)) <= MaxChars BY <1>2, <2>4, <3>1, <3>3, <3>4
    <3>7. CASE Len(b) <= Split!Limit
      <4>1. first => ~(Len(Split!Strip(s)) > FirstChars) BY <2>4, <3>1, <3>4, <3>7
      <4> QED BY <3>5, <3>6, <4>1 DEF Fits, s
    <3>8. CASE NoBlank(b, Len(b)) BY <3>1, <3>2, <3>6, <3>8 DEF Fits, s
    <3> QED BY <3>3, <3>7, <3>8
  <2>7. ASSUME NEW k \in 1 .. Len(cuts') PROVE Phrase(text, Split!From(k), cuts[k])'
    <3>1. k \in 1 .. Len(cuts) + 1 BY <2>2
    <3>2. CASE k \in 1 .. Len(cuts)
      <4>1. Phrase(text, Split!From(k), cuts[k]) BY <3>2 DEF SplitInv
      <4> QED BY <1>1, <2>2, <3>1, <3>2, <4>1 DEF Phrase
    <3>3. CASE k = Len(cuts) + 1
      <4>1. Split!From(k)' = Split!Start /\ cuts'[k] = x BY <2>2, <3>1, <3>3 DEF Split!Start
      <4>2. Split!Start \in 1 .. x /\ x \in 1 .. Len(text) BY <1>2, <2>4
      <4> QED BY <1>1, <2>6, <4>1, <4>2 DEF Phrase
    <3>4. k \in 1 .. Len(cuts) \/ k = Len(cuts) + 1
      <4>1. Len(cuts) \in Nat BY <1>2
      <4> QED BY <3>1, <4>1
    <3> QED BY <3>2, <3>3, <3>4
  <2>8. Split!IsBlank(Split!Buf)'
    <3>1. SubSeq(text, x + 1, x) = <<>>
      <4>1. x + 1 \in Int /\ x \in Int /\ x < x + 1 BY <1>2
      <4> QED BY <4>1, SubSeqEmpty
    <3>2. <<>> \in Text /\ Len(<<>>) = 0 BY EmptySeq DEF Text
    <3>3. 1 .. 0 = {} OBVIOUS
    <3>4. Split!IsBlank(SubSeq(text, x + 1, x)) BY <3>1, <3>2, <3>3, BlankText
    <3>5. Split!Buf' = SubSeq(text, x + 1, x) BY <1>1, <2>2 DEF Split!Buf
    <3> QED BY <3>4, <3>5 DEF Split!IsBlank, Split!ToSet
  <2> QED BY <1>1, <1>3, <2>2, <2>7, <2>8 DEF SplitInv
<1> QED BY <1>4, <1>5

LEMMA SplitSteps == SplitInv /\ [Split!Next]_splitVars => SplitInv'
<1>1. SplitInv /\ UNCHANGED splitVars => SplitInv'
  <2> SUFFICES ASSUME SplitInv, text' = text, cuts' = cuts, first' = first, flushed' = flushed PROVE SplitInv'
    BY DEF splitVars
  <2>1. \A k \in 1 .. Len(cuts) : Split!From(k)' = Split!From(k) BY DEF Split!From
  <2>2. Split!Start' = Split!Start /\ Split!Buf' = Split!Buf
    BY DEF Split!Buf, Split!Start, Split!From
  <2>3. ASSUME NEW k \in 1 .. Len(cuts) PROVE Phrase(text, Split!From(k), cuts[k])'
    <3>1. Phrase(text, Split!From(k), cuts[k]) /\ Split!From(k)' = Split!From(k) BY <2>1 DEF SplitInv
    <3> QED BY <3>1 DEF Phrase
  <2>4. Split!IsBlank(Split!Buf)' <=> Split!IsBlank(Split!Buf) BY <2>2 DEF Split!IsBlank, Split!ToSet
  <2> QED BY <2>2, <2>3, <2>4 DEF SplitInv
<1> QED BY <1>1, FeedStep, SplitStep, FlushStep DEF Split!Next

LEMMA SplitHolds == SplitInv => Split!NothingIsHalved /\ Split!PhrasesFit /\ Split!AllIsSaid
<1> SUFFICES ASSUME SplitInv PROVE Split!NothingIsHalved /\ Split!PhrasesFit /\ Split!AllIsSaid OBVIOUS
<1>1. DOMAIN cuts = 1 .. Len(cuts) /\ Len(text) \in Nat /\ text \in Text
  BY LenProperties DEF SplitInv, Text
<1>2. ASSUME NEW k \in DOMAIN cuts
      PROVE  /\ Phrase(text, Split!From(k), cuts[k])
             /\ Split!IsBlank(SubSeq(text, 1, Split!From(k) - 1)) <=> BlankTo(text, Split!From(k) - 1)
  <2>1. Phrase(text, Split!From(k), cuts[k]) BY <1>1 DEF SplitInv
  <2>2. Split!From(k) - 1 \in 0 .. Len(text) BY <1>1, <2>1 DEF Phrase
  <2> QED BY <1>1, <2>1, <2>2, BlankStart
<1>3. Split!PhrasesFit BY <1>2 DEF Split!PhrasesFit, Split!Raw, Phrase, Fits
<1>4. ASSUME NEW k \in DOMAIN cuts,
             cuts[k] - Split!From(k) + 1 = MaxChars, \A i \in Split!From(k) .. cuts[k] : text[i] # "blank"
      PROVE  Split!IsHard(k)
  <2> DEFINE a == Split!From(k)
             c == cuts[k]
  <2>1. a \in 1 .. Len(text) + 1 /\ c \in a - 1 .. Len(text) BY <1>1, <1>2 DEF Phrase
  <2> HIDE DEF a, c
  <2>2. /\ SubSeq(text, a, c) \in Text /\ Len(SubSeq(text, a, c)) = c - a + 1
        /\ \A i \in 1 .. c - a + 1 : SubSeq(text, a, c)[i] = text[a + i - 1]
    BY <1>1, <2>1, PartOf
  <2>3. \A i \in 1 .. c - a + 1 : a + i - 1 \in a .. c BY <1>1, <2>1
  <2>4. \A i \in 1 .. Len(SubSeq(text, a, c)) : SubSeq(text, a, c)[i] # "blank"
    BY <1>4, <2>2, <2>3 DEF a, c
  <2>5. "blank" \notin Split!ToSet(SubSeq(text, a, c)) BY <2>2, <2>4, BlankText
  <2> QED BY <1>4, <2>2, <2>5 DEF Split!IsHard, Split!Raw, a, c
<1>5. Split!NothingIsHalved
  <2> SUFFICES ASSUME NEW k \in DOMAIN cuts
               PROVE  \/ Split!IsHard(k) \/ Split!IsWhole(k)
                      \/ text[cuts[k]] \in {"blank", "mark"}
                      \/ text[cuts[k]] = "comma" /\ BlankTo(text, Split!From(k) - 1)
                      \/ text[cuts[k]] = "stop"
                           /\ ~(cuts[k] > Split!From(k) /\ text[cuts[k] - 1] = "digit"
                                /\ cuts[k] < Len(text) /\ text[cuts[k] + 1] = "digit")
    BY <1>2 DEF Split!NothingIsHalved
  <2>1. Phrase(text, Split!From(k), cuts[k]) BY <1>2
  <2> QED BY <1>1, <1>4, <2>1 DEF Phrase, EndsRight, Split!IsWhole
<1>6. Split!AllIsSaid BY DEF Split!AllIsSaid, SplitInv
<1> QED BY <1>3, <1>5, <1>6

\* However the tokens fall, no phrase ends inside a word or a decimal, none is longer than the speech
\* model takes, and at the end all of the reply is in one (stream.py 200-234).
THEOREM SplitIsRight == Split!Spec => [](Split!NothingIsHalved /\ Split!PhrasesFit /\ Split!AllIsSaid)
<1>1. SplitInv /\ [Split!Next]_(Split!vars) => SplitInv'
  <2>1. Split!vars' = Split!vars => UNCHANGED splitVars BY DEF Split!vars, splitVars
  <2> QED BY <2>1, SplitSteps
<1> QED BY SplitStarts, <1>1, SplitHolds, PTL DEF Split!Spec

-----------------------------------------------------------------------------
\* The reply reaches the customer whole: the voice pipeline keeps its order and loses none of it, and
\* no phrase of it is cut inside a word or too long (pipecat_voice.py 44-156, stream.py 200-234).
THEOREM ReplyIsSpokenWhole == Together => []SpokenWhole
<1>1. SpokenWhole <=> /\ Pipeline!HeardInOrder /\ Pipeline!ReturnedIsWhole
                      /\ Split!NothingIsHalved /\ Split!PhrasesFit /\ Split!AllIsSaid
  BY DEF SpokenWhole
<1>2. Together => Pipeline!Spec /\ Split!Spec BY DEF Together
<1> QED BY <1>1, <1>2, TurnIsWhole, SplitIsRight, PTL

-----------------------------------------------------------------------------
(* The ear. *)

\* The windows a to b.
Win(a, b) == [k \in 1 .. b - a + 1 |-> a + k - 1]

LEMMA WinIs ==
  ASSUME NEW a \in Nat, NEW b \in Nat, a <= b + 1
  PROVE  /\ Win(a, b) \in Seq(Nat) /\ Len(Win(a, b)) = b - a + 1
         /\ \A k \in 1 .. b - a + 1 : Win(a, b)[k] = a + k - 1
         /\ Win(a, b) = <<>> <=> b < a
<1> DEFINE n == b - a + 1
           w == Win(a, b)
<1>1. n \in Nat OBVIOUS
<1>2. w \in [1 .. n -> Nat] /\ DOMAIN w = 1 .. n
  <2>1. \A k \in 1 .. n : a + k - 1 \in Nat OBVIOUS
  <2> QED BY <2>1 DEF Win
<1>3. w \in Seq(Nat) BY <1>1, <1>2, SeqDef
<1>4. \A k \in 1 .. n : w[k] = a + k - 1 BY DEF Win
<1> HIDE DEF w, n
<1>5. Len(w) \in Nat /\ 1 .. Len(w) = 1 .. n BY <1>2, <1>3, LenProperties
<1>6. Len(w) = n
  <2>1. \A i, j \in Nat : 1 .. i = 1 .. j => i = j
    <3> SUFFICES ASSUME NEW i \in Nat, NEW j \in Nat, 1 .. i = 1 .. j, i # j PROVE FALSE OBVIOUS
    <3>1. CASE i < j
      <4>1. j \in 1 .. j /\ j \notin 1 .. i BY <3>1
      <4> QED BY <4>1
    <3>2. CASE j < i
      <4>1. i \in 1 .. i /\ i \notin 1 .. j BY <3>2
      <4> QED BY <4>1
    <3> QED BY <3>1, <3>2
  <2> QED BY <1>1, <1>5, <2>1
<1>7. w = <<>> <=> n = 0
  <2>1. w = <<>> => Len(w) = 0 BY EmptySeq
  <2>2. w # <<>> => Len(w) # 0 BY <1>3, EmptySeq
  <2> QED BY <1>6, <2>1, <2>2
<1>8. n = 0 <=> b < a BY DEF n
<1> QED BY <1>3, <1>4, <1>6, <1>7, <1>8 DEF w, n

LEMMA WinGrows ==
  ASSUME NEW a \in Nat, NEW b \in Nat, a <= b + 1
  PROVE  Append(Win(a, b), b + 1) = Win(a, b + 1)
<1> DEFINE s == Win(a, b)
           t == Win(a, b + 1)
<1>1. s \in Seq(Nat) /\ Len(s) = b - a + 1 /\ \A k \in 1 .. b - a + 1 : s[k] = a + k - 1 BY WinIs
<1>2. t \in Seq(Nat) /\ Len(t) = b + 1 - a + 1 /\ \A k \in 1 .. b + 1 - a + 1 : t[k] = a + k - 1
  <2>1. b + 1 \in Nat /\ a <= b + 1 + 1 OBVIOUS
  <2> QED BY <2>1, WinIs
<1> HIDE DEF s, t
<1> DEFINE u == Append(s, b + 1)
<1>3. /\ u \in Seq(Nat) /\ Len(u) = Len(s) + 1 /\ \A i \in 1 .. Len(s) : u[i] = s[i]
      /\ u[Len(s) + 1] = b + 1
  <2>1. b + 1 \in Nat OBVIOUS
  <2> QED BY <1>1, <2>1, AppendProperties
<1> HIDE DEF u
<1>4. Len(u) = Len(t) BY <1>1, <1>2, <1>3
<1>5. ASSUME NEW i \in 1 .. Len(u) PROVE u[i] = t[i]
  <2>1. CASE i \in 1 .. Len(s) BY <1>1, <1>2, <1>3, <2>1
  <2>2. CASE i = Len(s) + 1 BY <1>1, <1>2, <1>3, <2>2
  <2> QED BY <1>1, <1>3, <2>1, <2>2
<1>6. u = t BY <1>2, <1>3, <1>4, <1>5, SeqEqual
<1> QED BY <1>6 DEF u, s, t

LEMMA WinForgets ==
  ASSUME NEW a \in Nat, NEW b \in Nat, a <= b
  PROVE  Tail(Win(a, b)) = Win(a + 1, b)
<1> DEFINE s == Win(a, b)
           t == Win(a + 1, b)
<1>1. s \in Seq(Nat) /\ Len(s) = b - a + 1 /\ s # <<>> /\ \A k \in 1 .. b - a + 1 : s[k] = a + k - 1
  <2>1. a <= b + 1 /\ ~(b < a) OBVIOUS
  <2> QED BY <2>1, WinIs
<1>2. t \in Seq(Nat) /\ Len(t) = b - (a + 1) + 1 /\ \A k \in 1 .. b - (a + 1) + 1 : t[k] = a + 1 + k - 1
  <2>1. a + 1 \in Nat /\ a + 1 <= b + 1 OBVIOUS
  <2> QED BY <2>1, WinIs
<1> HIDE DEF s, t
<1> DEFINE u == Tail(s)
<1>3. u \in Seq(Nat) /\ Len(u) = Len(s) - 1 /\ \A i \in 1 .. Len(u) : u[i] = s[i + 1]
  BY <1>1, HeadTailProperties
<1> HIDE DEF u
<1>4. Len(u) = Len(t) BY <1>1, <1>2, <1>3
<1>5. ASSUME NEW i \in 1 .. Len(u) PROVE u[i] = t[i]
  <2>1. i + 1 \in 1 .. b - a + 1 /\ i \in 1 .. b - (a + 1) + 1 BY <1>1, <1>3
  <2> QED BY <1>1, <1>2, <1>3, <2>1
<1>6. u = t BY <1>2, <1>3, <1>4, <1>5, SeqEqual
<1> QED BY <1>6 DEF u, s, t

\* The first window of a turn that begins with `from`: what the preroll keeps, after `low`.
Onset(low, from) == IF low >= from - MinSpeech - Preroll THEN low + 1 ELSE from - MinSpeech - Preroll + 1

EarTypes ==
  [in_speech : BOOLEAN, preroll : Seq(Nat), segment : Seq(Nat), run : Nat, silence : Nat, voiced : Nat,
   from : Nat]

\* Since `low`, the last window of the turn before, there has been no turn: the run is the speech at the end.
Waits(e, cl, low) ==
  /\ ~e.in_speech /\ e.segment = <<>> /\ e.voiced = 0 /\ e.silence = 0
  /\ e.run < MinSpeech /\ e.run <= Len(cl) - low
  /\ \A i \in (Len(cl) - e.run + 1) .. Len(cl) : cl[i]
  /\ e.run = Len(cl) - low \/ ~cl[Len(cl) - e.run]
  /\ e.preroll = Win(Onset(low, Len(cl)), Len(cl))

InTurn(e, cl, low) ==
  /\ e.in_speech /\ e.preroll = <<>> /\ e.run <= MinSpeech /\ e.silence < EndSilence
  /\ e.from >= low + MinSpeech /\ e.from <= Len(cl)
  /\ e.segment = Win(Onset(low, e.from), Len(cl))
  /\ e.from = Len(cl) \/ Len(e.segment) < MaxSegment

EarInv(e, cl, low) == e \in EarTypes /\ low \in 0 .. Len(cl) /\ (Waits(e, cl, low) \/ InTurn(e, cl, low))

LEMMA Constants ==
  /\ MinSpeech \in Nat \ {0} /\ EndSilence \in Nat \ {0} /\ MaxSegment \in Nat \ {0} /\ BargeIn \in Nat \ {0}
  /\ Window \in Nat \ {0} /\ QueueSize \in Nat \ {0} /\ Preroll \in Nat /\ MaxSegment > MinSpeech
  /\ Chunks \subseteq Nat /\ MaxBytes \in Nat
BY ServicesAssumption DEF Listen!ListeningAssumption

LEMMA OnsetIs ==
  ASSUME NEW low \in Nat, NEW from \in Nat, low <= from
  PROVE  /\ Onset(low, from) \in Nat \ {0} /\ Onset(low, from) > low /\ Onset(low, from) <= from + 1
         /\ from - Onset(low, from) + 1 <= MinSpeech + Preroll
         /\ from >= low + MinSpeech => Onset(low, from) <= from - MinSpeech + 1
         /\ Onset(low, from + 1) = IF from + 2 - Onset(low, from) > MinSpeech + Preroll
                                   THEN Onset(low, from) + 1 ELSE Onset(low, from)
BY Constants DEF Onset

LEMMA OneMoreClass ==
  ASSUME NEW cl \in Seq(BOOLEAN), NEW speech \in BOOLEAN, NEW all, all = Append(cl, speech)
  PROVE  /\ Len(cl) \in Nat /\ all \in Seq(BOOLEAN) /\ Len(all) = Len(cl) + 1
         /\ \A i \in 1 .. Len(cl) : all[i] = cl[i]
         /\ all[Len(cl) + 1] = speech
BY AppendProperties, LenProperties

\* Outside a turn.
LEMMA HearStep ==
  ASSUME NEW cl \in Seq(BOOLEAN), NEW speech \in BOOLEAN, NEW low, NEW e, EarInv(e, cl, low), ~e.in_speech
  PROVE  LET h == Listen!Hear(e, Len(cl) + 1, speech) IN
         EarInv(h, Append(cl, speech), low) /\ (h.in_speech => h.from = Len(cl) + 1)
<1> SUFFICES ASSUME NEW all, all = Append(cl, speech), NEW h, h = Listen!Hear(e, Len(cl) + 1, speech)
             PROVE  EarInv(h, all, low) /\ (h.in_speech => h.from = Len(cl) + 1)
  OBVIOUS
<1> DEFINE n == Len(cl)
           long == Append(e.preroll, n + 1)
           kept == IF Len(long) > MinSpeech + Preroll THEN Tail(long) ELSE long
           run == IF speech THEN e.run + 1 ELSE 0
<1>1. /\ n \in Nat /\ all \in Seq(BOOLEAN) /\ Len(all) = n + 1
      /\ \A i \in 1 .. n : all[i] = cl[i]
      /\ all[n + 1] = speech
  BY OneMoreClass
<1>2. e \in EarTypes /\ low \in 0 .. n /\ Waits(e, cl, low) BY DEF EarInv, InTurn
<1>3. kept = Win(Onset(low, n + 1), n + 1)
  <2> DEFINE a == Onset(low, n)
  <2>1. /\ a \in Nat /\ a <= n + 1
        /\ Onset(low, n + 1) = IF n + 2 - a > MinSpeech + Preroll THEN a + 1 ELSE a
    BY <1>1, <1>2, OnsetIs
  <2> HIDE DEF a
  <2>2. e.preroll = Win(a, n) BY <1>2 DEF Waits, a
  <2>3. long = Win(a, n + 1) BY <1>1, <2>1, <2>2, WinGrows
  <2>4. Len(long) = n + 2 - a
    <3>1. n + 1 \in Nat /\ a <= n + 1 + 1 /\ n + 1 - a + 1 = n + 2 - a BY <1>1, <2>1
    <3>2. Len(Win(a, n + 1)) = n + 1 - a + 1 BY <2>1, <3>1, WinIs
    <3> QED BY <2>3, <3>1, <3>2
  <2>5. Tail(Win(a, n + 1)) = Win(a + 1, n + 1)
    <3>1. n + 1 \in Nat BY <1>1
    <3> QED BY <2>1, <3>1, WinForgets
  <2> HIDE DEF long
  <2> QED BY <2>1, <2>3, <2>4, <2>5
<1>4. kept \in Seq(Nat)
  <2>1. low \in Nat /\ n + 1 \in Nat /\ low <= n + 1 BY <1>1, <1>2
  <2> DEFINE f == Onset(low, n + 1)
  <2>2. f \in Nat /\ f <= n + 1 + 1 BY <2>1, OnsetIs
  <2> HIDE DEF f
  <2>3. Win(f, n + 1) \in Seq(Nat) BY <2>1, <2>2, WinIs
  <2> QED BY <1>3, <2>3 DEF f
<1>5. /\ e.run \in Nat /\ e.run < MinSpeech /\ e.run <= n - low /\ run \in Nat /\ run <= n + 1 - low
      /\ run <= e.run + 1
      /\ low \in 0 .. n + 1
  BY <1>1, <1>2 DEF Waits, EarTypes
<1>6. \A i \in (n + 1 - run + 1) .. n + 1 : all[i]
  <2> SUFFICES ASSUME NEW i \in (n + 1 - run + 1) .. n + 1 PROVE all[i] OBVIOUS
  <2>1. speech BY <1>1, <1>5
  <2>2. CASE i = n + 1 BY <1>1, <2>1, <2>2
  <2>3. CASE i # n + 1
    <3>1. i \in (n - e.run + 1) .. n /\ i \in 1 .. n
      <4>1. low \in 0 .. n /\ run = e.run + 1 BY <1>2, <2>1
      <4> HIDE DEF run
      <4>2. i \in (n + 1 - run + 1) .. n + 1 OBVIOUS
      <4>3. n \in Nat /\ e.run \in Nat /\ e.run <= n - low BY <1>1, <1>5
      <4> HIDE DEF n
      <4> QED BY ONLY <2>3, <4>1, <4>2, <4>3
    <3> QED BY <1>1, <1>2, <3>1 DEF Waits
  <2> QED BY <2>2, <2>3
<1>7. run = n + 1 - low \/ ~all[n + 1 - run]
  <2>1. CASE ~speech BY <1>1, <2>1
  <2>2. CASE speech
    <3>1. CASE e.run = n - low BY <1>1, <1>2, <2>2, <3>1
    <3>2. CASE e.run # n - low
      <4>1. ~cl[n - e.run] BY <1>2, <3>2 DEF Waits
      <4>2. run = e.run + 1 BY <2>2
      <4>3. n - e.run > low BY <1>1, <1>2, <1>5, <3>2
      <4>4. n - e.run \in 1 .. n /\ n + 1 - run = n - e.run BY <1>1, <1>2, <1>5, <4>2, <4>3
      <4> QED BY <1>1, <4>1, <4>4
    <3> QED BY <3>1, <3>2
  <2> QED BY <2>1, <2>2
<1> HIDE DEF kept, run, n
<1>8. CASE run >= MinSpeech
  <2>1. h = [in_speech |-> TRUE, preroll |-> <<>>, segment |-> kept, run |-> run, silence |-> 0,
             voiced |-> run, from |-> n + 1]
    BY <1>8 DEF Listen!Hear, Listen!Silent, kept, run, n
  <2>2. run = MinSpeech BY <1>5, <1>8, Constants
  <2>3. h \in EarTypes
    <3>1. n + 1 \in Nat /\ <<>> \in Seq(Nat) BY <1>1, EmptySeq
    <3>2. run \in Nat BY <1>5
    <3>3. TRUE \in BOOLEAN /\ 0 \in Nat OBVIOUS
    <3> QED BY ONLY <1>4, <2>1, <3>1, <3>2, <3>3 DEF EarTypes
  <2>4. InTurn(h, all, low)
    <3>1. h.in_speech /\ h.preroll = <<>> /\ h.run = run /\ h.silence = 0 /\ h.from = n + 1 /\ h.segment = kept
      BY <2>1
    <3>2. n + 1 >= low + MinSpeech /\ 0 < EndSilence /\ run <= MinSpeech BY <1>1, <1>5, <2>2, Constants
    <3> QED BY <1>1, <1>3, <3>1, <3>2 DEF InTurn
  <2>5. h.from = Len(cl) + 1 BY <2>1 DEF n
  <2> QED BY <1>1, <1>5, <2>3, <2>4, <2>5 DEF EarInv
<1>9. CASE ~(run >= MinSpeech)
  <2>1. h = [e EXCEPT !.preroll = kept, !.run = run] BY <1>9 DEF Listen!Hear, kept, run, n
  <2>2. /\ h \in EarTypes /\ h.in_speech = e.in_speech /\ h.segment = e.segment /\ h.voiced = e.voiced
        /\ h.silence = e.silence /\ h.run = run /\ h.preroll = kept
    BY <1>2, <1>4, <1>5, <2>1 DEF EarTypes
  <2>3. run < MinSpeech BY <1>5, <1>9, Constants
  <2>4. Waits(h, all, low)
    <3>1. ~e.in_speech /\ e.segment = <<>> /\ e.voiced = 0 /\ e.silence = 0 BY <1>2 DEF Waits
    <3>2. n \in Nat /\ Len(all) = n + 1 /\ MinSpeech \in Nat BY <1>1, Constants
    <3>3. ~h.in_speech /\ h.segment = <<>> /\ h.voiced = 0 /\ h.silence = 0 /\ h.run = run /\ h.preroll = kept
      BY <2>2, <3>1
    <3>4. \A i \in (Len(all) - h.run + 1) .. Len(all) : all[i] BY ONLY <1>5, <1>6, <3>2, <3>3
    <3>5. h.run = Len(all) - low \/ ~all[Len(all) - h.run] BY ONLY <1>5, <1>7, <3>2, <3>3
    <3>6. h.preroll = Win(Onset(low, Len(all)), Len(all)) BY ONLY <1>3, <3>2, <3>3
    <3>7. h.run < MinSpeech /\ h.run <= Len(all) - low BY ONLY <1>5, <2>3, <3>2, <3>3
    <3> QED BY ONLY <3>3, <3>4, <3>5, <3>6, <3>7 DEF Waits
  <2>5. ~h.in_speech BY <2>4 DEF Waits
  <2> QED BY <1>1, <1>5, <2>2, <2>4, <2>5 DEF EarInv
<1> QED BY <1>8, <1>9

\* In a turn.
LEMMA GrowStep ==
  ASSUME NEW cl \in Seq(BOOLEAN), NEW speech \in BOOLEAN, NEW low, NEW e, EarInv(e, cl, low), e.in_speech
  PROVE  LET g == Listen!Grow(e, Len(cl) + 1, speech) IN
         /\ g \in EarTypes /\ g.in_speech /\ g.from = e.from /\ g.segment = Win(Onset(low, e.from), Len(cl) + 1)
         /\ ~Listen!Ends(g) => EarInv(g, Append(cl, speech), low)
<1> SUFFICES ASSUME NEW all, all = Append(cl, speech), NEW g, g = Listen!Grow(e, Len(cl) + 1, speech)
             PROVE  /\ g \in EarTypes /\ g.in_speech /\ g.from = e.from
                    /\ g.segment = Win(Onset(low, e.from), Len(cl) + 1)
                    /\ ~Listen!Ends(g) => EarInv(g, all, low)
  OBVIOUS
<1> DEFINE n == Len(cl)
           a == Onset(low, e.from)
<1>1. n \in Nat /\ all \in Seq(BOOLEAN) /\ Len(all) = n + 1 BY OneMoreClass
<1>2. e \in EarTypes /\ low \in 0 .. n /\ InTurn(e, cl, low) BY DEF EarInv, Waits
<1>3. e.from \in Nat /\ e.from <= n /\ e.from >= low + MinSpeech /\ low <= e.from
  BY <1>1, <1>2, Constants DEF InTurn, EarTypes
<1>4. a \in Nat /\ a <= n + 1
  <2>1. a \in Nat /\ a <= e.from + 1
    <3>1. low \in Nat BY <1>1, <1>2
    <3> QED BY <1>3, <3>1, OnsetIs
  <2> HIDE DEF a
  <2> QED BY <1>1, <1>3, <2>1
<1>5. Append(e.segment, n + 1) = Win(a, n + 1) /\ Win(a, n + 1) \in Seq(Nat)
  <2>1. e.segment = Win(a, n) BY <1>2 DEF InTurn
  <2> HIDE DEF a
  <2>2. n + 1 \in Nat /\ a <= n + 1 + 1 BY <1>1, <1>4
  <2>3. Append(Win(a, n), n + 1) = Win(a, n + 1) BY <1>1, <1>4, WinGrows
  <2>4. Win(a, n + 1) \in Seq(Nat) BY <1>4, <2>2, WinIs
  <2> QED BY <2>1, <2>3, <2>4
<1> HIDE DEF a
<1>6. g = [e EXCEPT !.segment = Append(@, n + 1), !.voiced = @ + (IF speech THEN 1 ELSE 0),
                    !.silence = IF speech THEN 0 ELSE @ + 1]
  BY DEF Listen!Grow
<1>7. /\ g \in EarTypes /\ g.in_speech = e.in_speech /\ g.preroll = e.preroll /\ g.run = e.run
      /\ g.from = e.from /\ g.segment = Win(a, n + 1)
  <2> DEFINE v == e.voiced + (IF speech THEN 1 ELSE 0)
             si == IF speech THEN 0 ELSE e.silence + 1
  <2>1. v \in Nat /\ si \in Nat BY <1>2 DEF EarTypes
  <2>2. g = [e EXCEPT !.segment = Win(a, n + 1), !.voiced = v, !.silence = si] BY <1>5, <1>6
  <2> HIDE DEF v, si
  <2> QED BY <1>2, <1>5, <2>1, <2>2 DEF EarTypes
<1>8. ASSUME ~Listen!Ends(g) PROVE EarInv(g, all, low)
  <2>1. g.silence < EndSilence /\ Len(g.segment) < MaxSegment
    <3>1. g.silence \in Nat /\ Len(g.segment) \in Nat BY <1>7, LenProperties DEF EarTypes
    <3> QED BY <1>8, <3>1, Constants DEF Listen!Ends
  <2>2. e.from <= n + 1 /\ low \in 0 .. n + 1 BY <1>1, <1>2, <1>3
  <2> QED BY <1>1, <1>2, <1>7, <2>1, <2>2 DEF EarInv, InTurn, a
<1> QED BY <1>7, <1>8 DEF a

LEMMA ResetStep ==
  ASSUME NEW cl \in Seq(BOOLEAN)
  PROVE  EarInv(Listen!Silent, cl, Len(cl))
<1> DEFINE n == Len(cl)
<1>1. n \in Nat BY LenProperties
<1>2. Listen!Silent \in EarTypes BY EmptySeq DEF Listen!Silent, EarTypes
<1>3. Win(Onset(n, n), n) = <<>>
  <2>1. Onset(n, n) = n + 1 BY <1>1, Constants DEF Onset
  <2>2. n + 1 \in Nat /\ n + 1 <= n + 1 /\ n < n + 1 BY <1>1
  <2> QED BY <1>1, <2>1, <2>2, WinIs
<1>4. Waits(Listen!Silent, cl, n)
  <2>1. n - 0 + 1 = n + 1 /\ n - n = 0 /\ (n + 1) .. n = {} /\ 0 < MinSpeech BY <1>1, Constants
  <2> QED BY <1>1, <1>3, <2>1 DEF Waits, Listen!Silent
<1> QED BY <1>1, <1>2, <1>4 DEF EarInv

-----------------------------------------------------------------------------
(* A message: its windows one by one. *)

Segment == [windows : Seq(Nat), from : Nat]

Hearing ==
  [ear : EarTypes, classes : Seq(BOOLEAN), barge : BOOLEAN, stats : [Listen!Counters -> Nat],
   queue : 0 .. QueueSize, full : BOOLEAN, emitted : Seq(Segment)]

LEMMA StepIs ==
  ASSUME NEW acc \in Hearing, NEW speech \in BOOLEAN, NEW agent, NEW e \in EarTypes,
         e = (IF acc.ear.in_speech THEN Listen!Grow(acc.ear, Len(acc.classes) + 1, speech)
              ELSE Listen!Hear(acc.ear, Len(acc.classes) + 1, speech)),
         NEW done, done = Listen!Step(acc, speech, agent)
  PROVE  /\ done \in Hearing /\ done.classes = Append(acc.classes, speech)
         /\ \A c \in {"ignored_bytes", "empty", "errors", "transcripts"} : done.stats[c] = acc.stats[c]
         /\ \/ /\ ~(acc.ear.in_speech /\ Listen!Ends(e)) /\ done.ear = e
               /\ done.emitted = acc.emitted /\ done.full = acc.full /\ done.queue = acc.queue
               /\ \A c \in {"segments", "ignored_short"} : done.stats[c] = acc.stats[c]
            \/ /\ acc.ear.in_speech /\ Listen!Ends(e) /\ done.ear = Listen!Silent
               /\ done.emitted = acc.emitted /\ done.full = acc.full /\ done.queue = acc.queue
               /\ done.stats["segments"] = acc.stats["segments"]
               /\ done.full \/ done.stats["ignored_short"] = acc.stats["ignored_short"] + 1
            \/ /\ acc.ear.in_speech /\ Listen!Ends(e) /\ done.ear = Listen!Silent
               /\ done.emitted = Append(acc.emitted, [windows |-> e.segment, from |-> e.from])
               /\ done.stats["segments"] = acc.stats["segments"] + 1
               /\ done.stats["ignored_short"] = acc.stats["ignored_short"]
               /\ ~acc.full /\ (done.full \/ done.queue = acc.queue + 1)
<1> DEFINE all == Append(acc.classes, speech)
           heard == [acc EXCEPT !.ear = e, !.classes = all]
           reset == [acc EXCEPT !.ear = Listen!Silent, !.classes = all]
           segment == [windows |-> e.segment, from |-> e.from]
<1>1. all \in Seq(BOOLEAN) BY AppendProperties DEF Hearing
<1>2. Listen!Silent \in EarTypes BY EmptySeq DEF Listen!Silent, EarTypes
<1>3. segment \in Segment BY DEF EarTypes, Segment
<1>4. done = IF acc.ear.in_speech /\ Listen!Ends(e) THEN Listen!Ended(reset, segment, agent)
             ELSE IF e.in_speech /\ ~acc.ear.in_speech THEN Listen!Started(heard, agent) ELSE heard
  <2>1. [heard EXCEPT !.ear = Listen!Silent] = reset BY DEF Hearing
  <2> HIDE DEF reset
  <2> QED BY <2>1 DEF Listen!Step, Listen!Reset
<1>5. /\ heard \in Hearing /\ heard.classes = all /\ heard.ear = e
      /\ heard.stats = acc.stats /\ heard.full = acc.full /\ heard.queue = acc.queue /\ heard.emitted = acc.emitted
  <2> HIDE DEF all
  <2> QED BY <1>1 DEF Hearing
<1>6. /\ reset \in Hearing /\ reset.classes = all /\ reset.ear = Listen!Silent
      /\ reset.stats = acc.stats /\ reset.full = acc.full /\ reset.queue = acc.queue /\ reset.emitted = acc.emitted
  <2> HIDE DEF all
  <2> QED BY <1>1, <1>2 DEF Hearing
<1> HIDE DEF heard, reset, segment, all
<1>7. ASSUME NEW h \in Hearing, NEW s \in Listen!Counters
      PROVE  /\ [h.stats EXCEPT ![s] = @ + 1] \in [Listen!Counters -> Nat]
             /\ [h.stats EXCEPT ![s] = @ + 1][s] = h.stats[s] + 1
             /\ \A c \in Listen!Counters \ {s} : [h.stats EXCEPT ![s] = @ + 1][c] = h.stats[c]
  BY DEF Hearing
<1>8. {"ignored_bytes", "empty", "errors", "transcripts", "segments", "ignored_short", "starts"} = Listen!Counters
  BY DEF Listen!Counters
<1>9. CASE acc.ear.in_speech /\ Listen!Ends(e)
  <2>1. done = Listen!Ended(reset, segment, agent) BY <1>4, <1>9
  <2>2. CASE acc.full
    <3>1. done = reset BY <1>6, <2>1, <2>2 DEF Listen!Ended
    <3> QED BY <1>6, <1>9, <2>2, <3>1 DEF all
  <2>3. CASE ~acc.full /\ reset.barge /\ agent = "speaks"
    <3> DEFINE st == [reset.stats EXCEPT !["ignored_short"] = @ + 1]
    <3>1. done = [reset EXCEPT !.barge = FALSE, !.stats = st] BY <1>6, <2>1, <2>3 DEF Listen!Ended, Hearing
    <3>2. st \in [Listen!Counters -> Nat] /\ st["ignored_short"] = acc.stats["ignored_short"] + 1
          /\ \A c \in {"ignored_bytes", "empty", "errors", "transcripts", "segments"} : st[c] = acc.stats[c]
      BY <1>6, <1>7, <1>8
    <3> HIDE DEF st
    <3>3. /\ done \in Hearing /\ done.classes = all /\ done.ear = Listen!Silent /\ done.stats = st
          /\ done.emitted = acc.emitted /\ done.full = acc.full /\ done.queue = acc.queue
      BY <1>6, <3>1, <3>2 DEF Hearing
    <3> QED BY <1>9, <3>2, <3>3 DEF all
  <2>4. CASE ~acc.full /\ ~(reset.barge /\ agent = "speaks")
    <3> DEFINE st == [reset.stats EXCEPT !["segments"] = @ + 1]
               qu == IF reset.queue = QueueSize THEN reset.queue ELSE reset.queue + 1
               fu == (reset.queue = QueueSize)
               em == Append(reset.emitted, segment)
    <3>1. done = [reset EXCEPT !.barge = FALSE, !.stats = st, !.queue = qu, !.full = fu, !.emitted = em]
      BY <1>6, <2>1, <2>4 DEF Listen!Ended, Hearing
    <3>2. st \in [Listen!Counters -> Nat] /\ st["segments"] = acc.stats["segments"] + 1
          /\ \A c \in {"ignored_bytes", "empty", "errors", "transcripts", "ignored_short"} : st[c] = acc.stats[c]
      BY <1>6, <1>7, <1>8
    <3>3. qu \in 0 .. QueueSize /\ fu \in BOOLEAN /\ (fu \/ qu = acc.queue + 1) BY <1>6, Constants DEF Hearing
    <3>4. em \in Seq(Segment) /\ em = Append(acc.emitted, segment) BY <1>3, <1>6, AppendProperties DEF Hearing
    <3> HIDE DEF st, qu, fu, em
    <3>5. /\ done \in Hearing /\ done.classes = all /\ done.ear = Listen!Silent /\ done.stats = st
          /\ done.emitted = em /\ done.full = fu /\ done.queue = qu
      BY <1>6, <3>1, <3>2, <3>3, <3>4 DEF Hearing
    <3> QED BY <1>9, <2>4, <3>2, <3>3, <3>4, <3>5 DEF all, segment
  <2> QED BY <2>2, <2>3, <2>4
<1>10. CASE ~(acc.ear.in_speech /\ Listen!Ends(e))
  <2>1. CASE acc.full \/ ~(e.in_speech /\ ~acc.ear.in_speech)
    <3>1. done = heard BY <1>4, <1>5, <1>10, <2>1 DEF Listen!Started
    <3> QED BY <1>5, <1>10, <3>1 DEF all
  <2>2. CASE ~acc.full /\ e.in_speech /\ ~acc.ear.in_speech
    <3> DEFINE st == [heard.stats EXCEPT !["starts"] = @ + 1]
               ba == (agent # "silent")
    <3>1. done = [heard EXCEPT !.barge = ba, !.stats = st] BY <1>4, <1>5, <1>10, <2>2 DEF Listen!Started, Hearing
    <3>2. st \in [Listen!Counters -> Nat] /\ ba \in BOOLEAN
          /\ \A c \in {"ignored_bytes", "empty", "errors", "transcripts", "segments", "ignored_short"} :
                st[c] = acc.stats[c]
      BY <1>5, <1>7, <1>8
    <3> HIDE DEF st, ba
    <3>3. /\ done \in Hearing /\ done.classes = all /\ done.ear = e /\ done.stats = st
          /\ done.emitted = acc.emitted /\ done.full = acc.full /\ done.queue = acc.queue
      BY <1>5, <3>1, <3>2 DEF Hearing
    <3> QED BY <1>10, <3>2, <3>3 DEF all
  <2> QED BY <2>1, <2>2
<1> QED BY <1>9, <1>10

-----------------------------------------------------------------------------
(* The segments. *)

Lo(s) == s.windows[1]
Hi(s) == s.windows[Len(s.windows)]

\* Whatever was dropped.
Ordered(em, low) ==
  \A i \in 1 .. Len(em) :
    /\ Lo(em[i]) \in Nat \ {0} /\ Hi(em[i]) \in Nat /\ Lo(em[i]) <= Hi(em[i]) /\ Hi(em[i]) <= low
    /\ em[i].windows = Win(Lo(em[i]), Hi(em[i]))
    /\ i > 1 => Hi(em[i - 1]) < Lo(em[i])

\* The last window of the segment before.
Before(em, i) == IF i = 1 THEN 0 ELSE Hi(em[i - 1])

\* MinSpeech windows of speech in a row are where a segment is, also when the last of them are not heard yet.
Kept(em, cl, low) ==
  \A i \in 1 .. low :
    \/ \E s \in 1 .. Len(em) : i \in Lo(em[s]) .. Hi(em[s])
    \/ \E w \in i .. (i + MinSpeech - 1) : w <= low /\ ~cl[w]

Clean(em, cl, low) ==
  /\ low = Before(em, Len(em) + 1)
  /\ \A i \in 1 .. Len(em) :
       /\ em[i].from \in (Before(em, i) + MinSpeech) .. Hi(em[i])
       /\ Lo(em[i]) = Onset(Before(em, i), em[i].from)
  /\ Kept(em, cl, low)

\* Between low and top there are no MinSpeech windows of speech in a row.
Quiet(cl, low, top) == \A i \in (low + 1) .. (top - MinSpeech) : \E w \in i .. (i + MinSpeech - 1) : ~cl[w]

LEMMA QuietStep ==
  ASSUME NEW cl \in Seq(BOOLEAN), NEW speech \in BOOLEAN, NEW all, all = Append(cl, speech),
         NEW low \in 0 .. Len(cl), Quiet(cl, low, Len(cl) + 1),
         NEW h, EarInv(h, all, low), h.in_speech => h.from = Len(cl) + 1
  PROVE  Quiet(all, low, IF h.in_speech THEN h.from ELSE Len(all) + 1)
<1> DEFINE n == Len(cl)
<1>1. n \in Nat /\ Len(all) = n + 1 /\ \A i \in 1 .. n : all[i] = cl[i] BY OneMoreClass
<1>2. low \in 0 .. n OBVIOUS
<1>3. MinSpeech \in Nat \ {0} BY Constants
<1> HIDE DEF n
<1>4. Quiet(all, low, n + 1)
  <2> SUFFICES ASSUME NEW i \in (low + 1) .. ((n + 1) - MinSpeech)
               PROVE  \E w \in i .. (i + MinSpeech - 1) : ~all[w]
    BY <1>1, <1>2, <1>3 DEF Quiet
  <2>1. PICK w \in i .. (i + MinSpeech - 1) : ~cl[w] BY <1>1, <1>3 DEF Quiet, n
  <2>2. w \in 1 .. n BY <1>1, <1>2, <1>3
  <2> QED BY <1>1, <2>1, <2>2
<1>5. CASE h.in_speech BY <1>4, <1>5 DEF n
<1>6. CASE ~h.in_speech
  <2>1. Waits(h, all, low) /\ h \in EarTypes BY <1>6 DEF EarInv, InTurn
  <2>2. h.run \in Nat /\ h.run < MinSpeech /\ h.run <= n + 1 - low /\ (h.run = n + 1 - low \/ ~all[n + 1 - h.run])
    BY ONLY <1>1, <1>2, <1>3, <2>1 DEF Waits, EarTypes
  <2>3. ASSUME NEW i \in (low + 1) .. ((n + 1 + 1) - MinSpeech)
        PROVE  \E w \in i .. (i + MinSpeech - 1) : ~all[w]
    <3>1. CASE i \in (low + 1) .. ((n + 1) - MinSpeech)
      <4>1. \A k \in (low + 1) .. ((n + 1) - MinSpeech) : \E w \in k .. (k + MinSpeech - 1) : ~all[w]
        BY <1>4, Zenon DEF Quiet
      <4> QED BY <3>1, <4>1, Zenon
    <3>2. CASE i = (n + 1 + 1) - MinSpeech
      <4>1. h.run # n + 1 - low /\ n + 1 - h.run \in i .. (i + MinSpeech - 1) BY <1>1, <1>2, <1>3, <2>2, <3>2
      <4> QED BY <2>2, <4>1
    <3> QED BY ONLY <1>1, <1>2, <1>3, <3>1, <3>2
  <2>4. Len(all) + 1 = n + 1 + 1 /\ (IF h.in_speech THEN h.from ELSE Len(all) + 1) = Len(all) + 1
    BY <1>1, <1>6, Zenon
  <2>5. \A i \in (low + 1) .. ((n + 1 + 1) - MinSpeech) : \E w \in i .. (i + MinSpeech - 1) : ~all[w]
    BY <2>3, Zenon
  <2>6. Quiet(all, low, n + 1 + 1) BY <2>5, Zenon DEF Quiet
  <2> QED BY <2>4, <2>6, Zenon
<1> QED BY <1>5, <1>6

\* A window more changes nothing that was said of the windows before.
LEMMA QuietStays ==
  ASSUME NEW cl \in Seq(BOOLEAN), NEW speech \in BOOLEAN, NEW all, all = Append(cl, speech),
         NEW low \in 0 .. Len(cl), NEW top \in 0 .. Len(cl) + 1, Quiet(cl, low, top)
  PROVE  Quiet(all, low, top)
<1>1. Len(cl) \in Nat /\ \A i \in 1 .. Len(cl) : all[i] = cl[i] BY OneMoreClass
<1>2. MinSpeech \in Nat \ {0} BY Constants
<1> SUFFICES ASSUME NEW i \in (low + 1) .. (top - MinSpeech) PROVE \E w \in i .. (i + MinSpeech - 1) : ~all[w]
  BY DEF Quiet
<1>3. PICK w \in i .. (i + MinSpeech - 1) : ~cl[w] BY DEF Quiet
<1>4. w \in 1 .. Len(cl) BY <1>1, <1>2
<1> QED BY <1>1, <1>3, <1>4

LEMMA KeptStays ==
  ASSUME NEW cl \in Seq(BOOLEAN), NEW speech \in BOOLEAN, NEW all, all = Append(cl, speech),
         NEW low \in 0 .. Len(cl), NEW em, Kept(em, cl, low)
  PROVE  Kept(em, all, low)
<1>1. Len(cl) \in Nat /\ \A i \in 1 .. Len(cl) : all[i] = cl[i] BY OneMoreClass
<1>2. MinSpeech \in Nat \ {0} BY Constants
<1> SUFFICES ASSUME NEW i \in 1 .. low, NEW w \in i .. (i + MinSpeech - 1), w <= low, ~cl[w] PROVE ~all[w]
  BY DEF Kept
<1>3. w \in 1 .. Len(cl) BY <1>1, <1>2
<1> QED BY <1>1, <1>3

LEMMA WinEnds ==
  ASSUME NEW a \in Nat, NEW b \in Nat, a <= b
  PROVE  Len(Win(a, b)) = b - a + 1 /\ Win(a, b)[1] = a /\ Win(a, b)[Len(Win(a, b))] = b
<1>1. a <= b + 1 /\ 1 \in 1 .. b - a + 1 /\ b - a + 1 \in 1 .. b - a + 1 OBVIOUS
<1>2. Len(Win(a, b)) = b - a + 1 /\ \A k \in 1 .. b - a + 1 : Win(a, b)[k] = a + k - 1 BY <1>1, WinIs
<1>3. Win(a, b)[1] = a + 1 - 1 /\ Win(a, b)[b - a + 1] = a + (b - a + 1) - 1 BY <1>1, <1>2
<1>4. a + 1 - 1 = a /\ a + (b - a + 1) - 1 = b OBVIOUS
<1> QED BY <1>2, <1>3, <1>4

\* A segment after the others: in its place, when none before was dropped.
LEMMA OneMoreSegment ==
  ASSUME NEW em \in Seq(Segment), NEW low \in Nat, NEW high \in Nat, low <= high, Ordered(em, low),
         NEW from \in Nat, from >= low + MinSpeech, from <= high, NEW cl
  PROVE  LET more == Append(em, [windows |-> Win(Onset(low, from), high), from |-> from]) IN
         /\ more \in Seq(Segment) /\ Ordered(more, high)
         /\ Clean(em, cl, low) /\ Quiet(cl, low, from) => Clean(more, cl, high)
<1> SUFFICES ASSUME NEW more, more = Append(em, [windows |-> Win(Onset(low, from), high), from |-> from])
             PROVE  /\ more \in Seq(Segment) /\ Ordered(more, high)
                    /\ Clean(em, cl, low) /\ Quiet(cl, low, from) => Clean(more, cl, high)
  OBVIOUS
<1> DEFINE a == Onset(low, from)
           seg == [windows |-> Win(a, high), from |-> from]
           n == Len(em)
<1>1. MinSpeech \in Nat \ {0} BY Constants
<1>2. a \in Nat \ {0} /\ a > low /\ a <= from - MinSpeech + 1 BY <1>1, OnsetIs
<1> HIDE DEF a
<1>3. a <= high /\ a <= high + 1 BY <1>1, <1>2
<1>4. Win(a, high) \in Seq(Nat) BY <1>2, <1>3, WinIs
<1>5. Lo(seg) = a /\ Hi(seg) = high /\ seg.windows = Win(a, high) /\ seg.from = from
  BY <1>2, <1>3, WinEnds DEF Lo, Hi
<1>6. seg \in Segment BY <1>4 DEF Segment
<1>7. more = Append(em, seg) BY DEF a
<1> HIDE DEF seg
<1>8. /\ n \in Nat /\ more \in Seq(Segment) /\ Len(more) = n + 1 /\ more[n + 1] = seg
      /\ \A i \in 1 .. n : more[i] = em[i]
  BY <1>6, <1>7, AppendProperties, LenProperties
<1> HIDE DEF n
<1>9. \A i \in 1 .. n :
         /\ Lo(em[i]) \in Nat \ {0} /\ Hi(em[i]) \in Nat /\ Lo(em[i]) <= Hi(em[i]) /\ Hi(em[i]) <= low
         /\ em[i].windows = Win(Lo(em[i]), Hi(em[i]))
         /\ i > 1 => Hi(em[i - 1]) < Lo(em[i])
  BY DEF Ordered, n
<1>10. Ordered(more, high)
  <2> SUFFICES ASSUME NEW i \in 1 .. n + 1
               PROVE  /\ Lo(more[i]) \in Nat \ {0} /\ Hi(more[i]) \in Nat /\ Lo(more[i]) <= Hi(more[i])
                      /\ Hi(more[i]) <= high /\ more[i].windows = Win(Lo(more[i]), Hi(more[i]))
                      /\ i > 1 => Hi(more[i - 1]) < Lo(more[i])
    BY <1>8 DEF Ordered
  <2>1. CASE i \in 1 .. n
    <3>1. more[i] = em[i] BY <1>8, <2>1
    <3>2. i > 1 => more[i - 1] = em[i - 1] BY <1>8, <2>1
    <3>3. /\ Lo(em[i]) \in Nat \ {0} /\ Hi(em[i]) \in Nat /\ Lo(em[i]) <= Hi(em[i]) /\ Hi(em[i]) <= low
          /\ em[i].windows = Win(Lo(em[i]), Hi(em[i])) /\ (i > 1 => Hi(em[i - 1]) < Lo(em[i]))
      BY ONLY <1>8, <1>9, <2>1
    <3>4. Hi(em[i]) <= high BY <3>3
    <3> QED BY ONLY <3>1, <3>2, <3>3, <3>4
  <2>2. CASE i = n + 1
    <3>1. ASSUME i > 1 PROVE n \in 1 .. n /\ i - 1 = n BY <1>8, <2>2, <3>1
    <3>2. ASSUME i > 1 PROVE Hi(more[i - 1]) <= low /\ Hi(more[i - 1]) \in Nat
      <4>1. n \in 1 .. n /\ i - 1 = n BY <3>1, <3>2
      <4>2. more[i - 1] = em[n] BY <1>8, <4>1
      <4>3. Hi(em[n]) <= low /\ Hi(em[n]) \in Nat BY ONLY <1>8, <1>9, <4>1
      <4> QED BY <4>2, <4>3
    <3> QED BY <1>2, <1>3, <1>5, <1>8, <2>2, <3>2
  <2> QED BY <1>8, <2>1, <2>2
<1>11. ASSUME Clean(em, cl, low), Quiet(cl, low, from) PROVE Clean(more, cl, high)
  <2>1. \A i \in 1 .. n + 1 : Before(more, i) = Before(em, i)
    <3> SUFFICES ASSUME NEW i \in 1 .. n + 1, i # 1 PROVE more[i - 1] = em[i - 1] BY DEF Before
    <3>1. i - 1 \in 1 .. n BY <1>8
    <3> QED BY <1>8, <3>1
  <2>2. low = Before(em, n + 1) BY <1>11 DEF Clean, n
  <2>3. high = Before(more, n + 1 + 1)
    <3>1. n + 1 + 1 # 1 /\ n + 1 + 1 - 1 = n + 1 BY <1>8
    <3> QED BY <1>5, <1>8, <3>1 DEF Before
  <2>4. ASSUME NEW i \in 1 .. n + 1
        PROVE  /\ more[i].from \in (Before(more, i) + MinSpeech) .. Hi(more[i])
               /\ Lo(more[i]) = Onset(Before(more, i), more[i].from)
    <3>1. CASE i \in 1 .. n
      <4>1. more[i] = em[i] BY <1>8, <3>1
      <4>2. em[i].from \in (Before(em, i) + MinSpeech) .. Hi(em[i]) /\ Lo(em[i]) = Onset(Before(em, i), em[i].from)
        BY <1>11, <3>1 DEF Clean, n
      <4> QED BY <2>1, <4>1, <4>2
    <3>2. CASE i = n + 1
      <4>1. Before(more, i) = low BY <2>1, <2>2, <3>2
      <4>2. from \in (low + MinSpeech) .. high /\ a = Onset(low, from) BY <1>1 DEF a
      <4> QED BY <1>5, <1>8, <3>2, <4>1, <4>2
    <3> QED BY <1>8, <3>1, <3>2
  <2>5. Kept(more, cl, high)
    <3> SUFFICES ASSUME NEW i \in 1 .. high, ~\E s \in 1 .. n + 1 : i \in Lo(more[s]) .. Hi(more[s])
                 PROVE  \E w \in i .. (i + MinSpeech - 1) : w <= high /\ ~cl[w]
      BY <1>8 DEF Kept
    <3>1. n + 1 \in 1 .. n + 1 BY <1>8
    <3>2. i < a BY <1>2, <1>5, <1>8, <3>1
    <3>3. i + MinSpeech - 1 < from BY <1>1, <1>2, <3>2
    <3>4. CASE i \in 1 .. low
      <4>1. ~\E s \in 1 .. n : i \in Lo(em[s]) .. Hi(em[s])
        <5> SUFFICES ASSUME NEW s \in 1 .. n, i \in Lo(em[s]) .. Hi(em[s]) PROVE FALSE OBVIOUS
        <5>1. s \in 1 .. n + 1 /\ more[s] = em[s] BY <1>8
        <5> QED BY <5>1
      <4>2. PICK w \in i .. (i + MinSpeech - 1) : w <= low /\ ~cl[w] BY <1>11, <3>4, <4>1 DEF Clean, Kept, n
      <4> QED BY <1>1, <4>2
    <3>5. CASE i > low
      <4>1. i \in (low + 1) .. (from - MinSpeech) BY <1>1, <3>3, <3>5
      <4>2. PICK w \in i .. (i + MinSpeech - 1) : ~cl[w] BY <1>11, <4>1 DEF Quiet
      <4>3. w <= high BY <1>1, <3>3, <4>2
      <4> QED BY <4>2, <4>3
    <3> QED BY <3>4, <3>5
  <2> QED BY <1>8, <2>3, <2>4, <2>5 DEF Clean
<1> QED BY <1>8, <1>10, <1>11

Told(e, cl, em, low, clean) ==
  /\ EarInv(e, cl, low) /\ Ordered(em, low)
  /\ Quiet(cl, low, IF e.in_speech THEN e.from ELSE Len(cl) + 1)
  /\ clean => Clean(em, cl, low)

Tells(acc) ==
  \E low \in Nat :
    Told(acc.ear, acc.classes, acc.emitted, low, acc.stats["ignored_short"] = 0 /\ ~acc.full)

\* Since the message began, with the statistics st and the queue qu.
Counted(acc, st, qu) ==
  /\ \A c \in {"ignored_bytes", "empty", "errors", "transcripts"} : acc.stats[c] = st[c]
  /\ ~acc.full => acc.stats["segments"] - acc.queue = st["segments"] - qu
  /\ acc.stats["segments"] > 0 => acc.classes # <<>>

LEMMA StepTells ==
  ASSUME NEW acc \in Hearing, Tells(acc), NEW speech \in BOOLEAN, NEW agent,
         NEW st \in [Listen!Counters -> Nat], NEW qu \in Nat, Counted(acc, st, qu),
         NEW done, done = Listen!Step(acc, speech, agent)
  PROVE  done \in Hearing /\ Tells(done) /\ Counted(done, st, qu)
<1> DEFINE cl == acc.classes
           n == Len(cl)
           all == Append(cl, speech)
           em == acc.emitted
           clean == acc.stats["ignored_short"] = 0 /\ ~acc.full
           e == acc.ear
           next == IF e.in_speech THEN Listen!Grow(e, n + 1, speech) ELSE Listen!Hear(e, n + 1, speech)
<1>1. PICK low \in Nat : Told(e, cl, em, low, clean) BY DEF Tells
<1>2. cl \in Seq(BOOLEAN) /\ e \in EarTypes /\ em \in Seq(Segment) BY DEF Hearing
<1>3. n \in Nat /\ all \in Seq(BOOLEAN) /\ Len(all) = n + 1 /\ low \in 0 .. n /\ EarInv(e, cl, low)
  <2>1. EarInv(e, cl, low) /\ low \in 0 .. n BY <1>1 DEF Told, EarInv
  <2> QED BY <1>2, <2>1, OneMoreClass
<1>4. ASSUME ~e.in_speech PROVE EarInv(next, all, low) /\ (next.in_speech => next.from = n + 1)
  <2>1. next = Listen!Hear(e, Len(cl) + 1, speech) BY <1>4
  <2>2. all = Append(cl, speech) /\ n = Len(cl) /\ speech \in BOOLEAN OBVIOUS
  <2> HIDE DEF next, cl, e, all, n
  <2> QED BY <1>2, <1>3, <1>4, <2>1, <2>2, HearStep
<1>5. ASSUME e.in_speech
      PROVE  /\ next \in EarTypes /\ next.in_speech /\ next.from = e.from
             /\ next.segment = Win(Onset(low, e.from), n + 1)
             /\ ~Listen!Ends(next) => EarInv(next, all, low)
  <2>1. next = Listen!Grow(e, Len(cl) + 1, speech) BY <1>5
  <2>2. all = Append(cl, speech) /\ n = Len(cl) /\ speech \in BOOLEAN OBVIOUS
  <2> HIDE DEF next, cl, e, all, n
  <2> QED BY <1>2, <1>3, <1>5, <2>1, <2>2, GrowStep
<1>6. next \in EarTypes BY <1>4, <1>5 DEF EarInv
<1>7. e.in_speech => e.from \in Nat /\ e.from <= n /\ e.from >= low + MinSpeech
  BY <1>2, <1>3 DEF EarInv, Waits, InTurn, EarTypes
<1>8. next = (IF acc.ear.in_speech THEN Listen!Grow(acc.ear, Len(acc.classes) + 1, speech)
              ELSE Listen!Hear(acc.ear, Len(acc.classes) + 1, speech))
  OBVIOUS
<1> HIDE DEF next
<1>9. /\ done \in Hearing /\ done.classes = all
      /\ \A c \in {"ignored_bytes", "empty", "errors", "transcripts"} : done.stats[c] = acc.stats[c]
      /\ \/ /\ ~(e.in_speech /\ Listen!Ends(next)) /\ done.ear = next
            /\ done.emitted = em /\ done.full = acc.full /\ done.queue = acc.queue
            /\ \A c \in {"segments", "ignored_short"} : done.stats[c] = acc.stats[c]
         \/ /\ e.in_speech /\ Listen!Ends(next) /\ done.ear = Listen!Silent
            /\ done.emitted = em /\ done.full = acc.full /\ done.queue = acc.queue
            /\ done.stats["segments"] = acc.stats["segments"]
            /\ done.full \/ done.stats["ignored_short"] = acc.stats["ignored_short"] + 1
         \/ /\ e.in_speech /\ Listen!Ends(next) /\ done.ear = Listen!Silent
            /\ done.emitted = Append(em, [windows |-> next.segment, from |-> next.from])
            /\ done.stats["segments"] = acc.stats["segments"] + 1
            /\ done.stats["ignored_short"] = acc.stats["ignored_short"]
            /\ ~acc.full /\ (done.full \/ done.queue = acc.queue + 1)
  BY <1>6, <1>8, StepIs
<1>10. all # <<>> BY <1>3, EmptySeq
<1>11. Ordered(em, low) /\ (clean => Clean(em, cl, low)) /\ Quiet(cl, low, IF e.in_speech THEN e.from ELSE n + 1)
  BY <1>1 DEF Told
<1>12. acc.stats \in [Listen!Counters -> Nat] /\ acc.queue \in Nat /\ acc.full \in BOOLEAN
       /\ done.stats \in [Listen!Counters -> Nat] /\ done.queue \in Nat /\ done.full \in BOOLEAN
  <2>1. acc.stats \in [Listen!Counters -> Nat] /\ acc.queue \in 0 .. QueueSize /\ acc.full \in BOOLEAN
    BY DEF Hearing
  <2>2. done.stats \in [Listen!Counters -> Nat] /\ done.queue \in 0 .. QueueSize /\ done.full \in BOOLEAN
    BY <1>9 DEF Hearing
  <2> QED BY <2>1, <2>2, Constants
<1>13. {"ignored_bytes", "empty", "errors", "transcripts", "segments", "ignored_short"} \subseteq Listen!Counters
  BY DEF Listen!Counters
<1>14. acc.stats["ignored_short"] \in Nat /\ acc.stats["segments"] \in Nat /\ done.stats["segments"] \in Nat
  BY <1>12, <1>13
<1>15. Counted(done, st, qu)
  <2>1. ASSUME NEW c \in {"ignored_bytes", "empty", "errors", "transcripts"} PROVE done.stats[c] = st[c]
    BY <1>9 DEF Counted
  <2>2. st["segments"] \in Nat BY <1>13
  <2>3. ASSUME ~done.full PROVE done.stats["segments"] - done.queue = st["segments"] - qu
    <3>1. /\ ~acc.full
          /\ \/ done.stats["segments"] = acc.stats["segments"] /\ done.queue = acc.queue
             \/ done.stats["segments"] = acc.stats["segments"] + 1 /\ done.queue = acc.queue + 1
      BY <1>9, <2>3
    <3>2. acc.stats["segments"] - acc.queue = st["segments"] - qu BY <3>1 DEF Counted
    <3> QED BY <1>12, <1>14, <2>2, <3>1, <3>2
  <2> QED BY <1>9, <1>10, <2>1, <2>3 DEF Counted
<1> DEFINE cleanNow == done.stats["ignored_short"] = 0 /\ ~done.full
<1>16. Tells(done)
  <2> HIDE DEF n, all
  <2>1. CASE ~(e.in_speech /\ Listen!Ends(next))
    <3>1. done.ear = next /\ done.emitted = em /\ (cleanNow <=> clean) BY <1>9, <2>1
    <3>2. EarInv(next, all, low) BY <1>4, <1>5, <2>1
    <3>3. Quiet(all, low, IF next.in_speech THEN next.from ELSE Len(all) + 1)
      <4>1. CASE e.in_speech
        <5>1. Quiet(cl, low, e.from) BY <1>11, <4>1
        <5>2. e.from \in 0 .. Len(cl) + 1 BY <1>3, <1>7, <4>1 DEF n
        <5>3. Quiet(all, low, e.from) BY <1>2, <1>3, <5>1, <5>2, QuietStays DEF n, all
        <5> QED BY <1>5, <4>1, <5>3
      <4>2. CASE ~e.in_speech
        <5>1. Quiet(cl, low, n + 1) BY <1>11, <4>2
        <5> QED BY <1>2, <1>3, <1>4, <3>2, <4>2, <5>1, QuietStep DEF n, all
      <4> QED BY <4>1, <4>2
    <3>4. clean => Clean(em, all, low)
      <4>1. Kept(em, cl, low) => Kept(em, all, low) BY <1>2, <1>3, KeptStays DEF n, all
      <4> QED BY <1>11, <4>1 DEF Clean
    <3> QED BY <1>9, <1>11, <3>1, <3>2, <3>3, <3>4 DEF Tells, Told
  <2>2. CASE e.in_speech /\ Listen!Ends(next)
    <3>1. EarInv(Listen!Silent, all, n + 1) BY <1>3, ResetStep
    <3>2. ~Listen!Silent.in_speech BY DEF Listen!Silent
    <3>3. Quiet(all, n + 1, n + 1 + 1)
      <4>1. ((n + 1) + 1) .. ((n + 1 + 1) - MinSpeech) = {} BY <1>3, Constants
      <4> QED BY <4>1 DEF Quiet
    <3>4. done.ear = Listen!Silent BY <1>9, <2>2
    <3>5. n + 1 \in Nat /\ low <= n + 1 BY <1>3
    <3>6. SUFFICES Ordered(done.emitted, n + 1) /\ (cleanNow => Clean(done.emitted, all, n + 1))
      BY <1>3, <1>9, <3>1, <3>2, <3>3, <3>4, <3>5 DEF Tells, Told
    <3>7. CASE done.emitted = em /\ ~cleanNow
      <4>1. Ordered(em, n + 1)
        <5>1. ASSUME NEW h \in Nat, h <= low PROVE h <= n + 1 BY <3>5, <5>1
        <5> QED BY <1>11, <5>1 DEF Ordered
      <4> QED BY <3>7, <4>1
    <3>8. CASE done.emitted = Append(em, [windows |-> next.segment, from |-> next.from]) /\ (cleanNow => clean)
      <4>1. e.from \in Nat /\ e.from >= low + MinSpeech /\ e.from <= n + 1 BY <1>3, <1>7, <2>2
      <4>2. done.emitted = Append(em, [windows |-> Win(Onset(low, e.from), n + 1), from |-> e.from])
        BY <1>5, <2>2, <3>8
      <4>3. Ordered(done.emitted, n + 1)
            /\ (Clean(em, all, low) /\ Quiet(all, low, e.from) => Clean(done.emitted, all, n + 1))
        <5>1. Ordered(em, low) BY <1>11
        <5> DEFINE more == done.emitted
        <5>2. more = Append(em, [windows |-> Win(Onset(low, e.from), n + 1), from |-> e.from]) BY <4>2
        <5> HIDE DEF more, em, e, cl, all, n
        <5>3. em \in Seq(Segment) BY <1>2
        <5> DEFINE from == e.from
                   high == n + 1
        <5>4. /\ from \in Nat /\ from >= low + MinSpeech /\ from <= high /\ high \in Nat /\ low <= high /\ low \in Nat
              /\ more = Append(em, [windows |-> Win(Onset(low, from), high), from |-> from])
          BY <3>5, <4>1, <5>2
        <5> HIDE DEF from, high
        <5>5. Ordered(more, high) /\ (Clean(em, all, low) /\ Quiet(all, low, from) => Clean(more, all, high))
          BY <5>1, <5>3, <5>4, OneMoreSegment
        <5> QED BY <5>5 DEF more, from, high
      <4>4. clean => Clean(em, all, low)
        <5>1. Kept(em, cl, low) => Kept(em, all, low) BY <1>2, <1>3, KeptStays DEF n, all
        <5> QED BY <1>11, <5>1 DEF Clean
      <4>5. Quiet(all, low, e.from)
        <5>1. Quiet(cl, low, e.from) BY <1>11, <2>2
        <5>2. e.from \in 0 .. Len(cl) + 1 BY <1>3, <1>7, <2>2 DEF n
        <5> QED BY <1>2, <1>3, <5>1, <5>2, QuietStays DEF n, all
      <4> QED BY <3>8, <4>3, <4>4, <4>5
    <3> QED BY <1>9, <1>14, <2>2, <3>7, <3>8
  <2> QED BY <2>1, <2>2
<1> QED BY <1>9, <1>15, <1>16

LEMMA HeardTells ==
  ASSUME NEW speech \in Seq(BOOLEAN), NEW agent, NEW start \in Hearing,
         start = [ear |-> ear, classes |-> classes, barge |-> barge, stats |-> stats,
                  queue |-> queue, full |-> FALSE, emitted |-> emitted],
         Tells(start), NEW st \in [Listen!Counters -> Nat], NEW qu \in Nat, Counted(start, st, qu)
  PROVE  LET done == Listen!Heard(speech, agent) IN
         done \in Hearing /\ Tells(done) /\ Counted(done, st, qu)
<1> DEFINE n == Len(speech)
           F(f, m) == f = [i \in 0 .. m |-> IF i = 0 THEN start ELSE Listen!Step(f[i - 1], speech[i], agent)]
           after == CHOOSE f : F(f, n)
<1>1. n \in Nat /\ \A i \in 1 .. n : speech[i] \in BOOLEAN BY LenProperties, ElementOfSeq
<1>2. Listen!Heard(speech, agent) = after[n] BY DEF Listen!Heard
<1> HIDE DEF n, after
<1>3. \A m \in 0 .. n : \E f : F(f, m)
  <2> DEFINE bad == {m \in 0 .. n : ~\E f : F(f, m)}
  <2>1. SUFFICES ASSUME bad # {} PROVE FALSE OBVIOUS
  <2>2. bad \in SUBSET Nat BY <1>1
  <2>3. PICK m \in bad : \A j \in bad : m <= j BY <2>1, <2>2, LeastOf
  <2>4. m \in 0 .. n OBVIOUS
  <2>5. CASE m = 0
    <3> DEFINE f == [i \in 0 .. 0 |-> start]
    <3>1. F(f, 0)
      <4>1. \A i \in 0 .. 0 : i = 0 OBVIOUS
      <4> QED BY <4>1
    <3> QED BY <2>5, <3>1
  <2>6. CASE m # 0
    <3>1. m - 1 \in 0 .. n /\ ~(m <= m - 1) BY <1>1, <2>4, <2>6
    <3>2. m - 1 \notin bad BY <2>3, <3>1
    <3>3. PICK f : F(f, m - 1) BY <3>1, <3>2
    <3> DEFINE g == [i \in 0 .. m |-> IF i = m THEN Listen!Step(f[m - 1], speech[m], agent) ELSE f[i]]
    <3>4. F(g, m)
      <4>1. ASSUME NEW i \in 0 .. m
            PROVE  g[i] = IF i = 0 THEN start ELSE Listen!Step(g[i - 1], speech[i], agent)
        <5>1. CASE i = 0 BY <2>6, <3>1, <3>3, <5>1
        <5>2. CASE i # 0
          <6>1. i - 1 \in 0 .. m - 1 /\ i - 1 \in 0 .. m /\ i - 1 # m BY <1>1, <2>4, <5>2
          <6>2. g[i - 1] = f[i - 1] BY <6>1
          <6>3. CASE i = m BY <2>6, <6>2, <6>3
          <6>4. CASE i # m
            <7>1. i \in 0 .. m - 1 BY <1>1, <2>4, <6>4
            <7>2. g[i] = f[i] BY <6>4
            <7>3. f[i] = Listen!Step(f[i - 1], speech[i], agent) BY <3>3, <5>2, <7>1
            <7> QED BY <5>2, <6>2, <7>2, <7>3
          <6> QED BY <6>3, <6>4
        <5> QED BY <5>1, <5>2
      <4>2. g = [i \in 0 .. m |-> g[i]] OBVIOUS
      <4> HIDE DEF g
      <4> QED BY <4>1, <4>2
    <3>5. \E h : F(h, m) BY <3>4
    <3> HIDE DEF F
    <3> QED BY <3>5
  <2> QED BY <2>5, <2>6
<1>4. F(after, n)
  <2>1. \E f : F(f, n) BY <1>1, <1>3
  <2> HIDE DEF F
  <2> QED BY <2>1 DEF after
<1>5. after[0] = start /\ \A i \in 1 .. n : after[i] = Listen!Step(after[i - 1], speech[i], agent)
  <2>1. ASSUME NEW i \in 0 .. n
        PROVE  after[i] = IF i = 0 THEN start ELSE Listen!Step(after[i - 1], speech[i], agent)
    <3> DEFINE g == [k \in 0 .. n |-> IF k = 0 THEN start ELSE Listen!Step(after[k - 1], speech[k], agent)]
    <3>1. g[i] = IF i = 0 THEN start ELSE Listen!Step(after[i - 1], speech[i], agent) OBVIOUS
    <3>2. after = g BY <1>4
    <3> HIDE DEF g
    <3> QED BY <3>1, <3>2
  <2>2. 0 \in 0 .. n /\ \A i \in 1 .. n : i \in 0 .. n /\ i # 0 BY <1>1
  <2> QED BY <2>1, <2>2
<1> DEFINE Sound(d) == d \in Hearing /\ Tells(d) /\ Counted(d, st, qu)
<1>6. \A i \in 0 .. n : Sound(after[i])
  <2> DEFINE bad == {i \in 0 .. n : ~Sound(after[i])}
  <2>1. SUFFICES ASSUME bad # {} PROVE FALSE OBVIOUS
  <2>2. bad \in SUBSET Nat BY <1>1
  <2>3. PICK m \in bad : \A j \in bad : m <= j BY <2>1, <2>2, LeastOf
  <2>4. m \in 0 .. n /\ ~Sound(after[m]) OBVIOUS
  <2>5. m # 0 BY <1>5, <2>4
  <2>6. m - 1 \in 0 .. n /\ ~(m <= m - 1) /\ m \in 1 .. n BY <1>1, <2>4, <2>5
  <2>7. Sound(after[m - 1])
    <3>1. m - 1 \notin bad BY <2>3, <2>6
    <3> HIDE DEF Sound
    <3> QED BY <2>6, <3>1
  <2>8. Sound(Listen!Step(after[m - 1], speech[m], agent))
    <3> DEFINE d == after[m - 1]
    <3>1. d \in Hearing /\ Tells(d) /\ Counted(d, st, qu) /\ speech[m] \in BOOLEAN BY <1>1, <2>6, <2>7
    <3> HIDE DEF d
    <3>2. Sound(Listen!Step(d, speech[m], agent)) BY <3>1, StepTells
    <3> QED BY <3>2 DEF d
  <2>9. after[m] = Listen!Step(after[m - 1], speech[m], agent) BY <1>5, <2>6
  <2> HIDE DEF Sound
  <2> QED BY <2>4, <2>8, <2>9
<1> QED BY <1>1, <1>2, <1>6

-----------------------------------------------------------------------------
(* The invariant of the ear. *)

ListenTypes ==
  /\ accepted \in BOOLEAN /\ ending \in BOOLEAN /\ barge \in BOOLEAN
  /\ transcribing \in BOOLEAN /\ shifted \in BOOLEAN
  /\ bytes \in 0 .. MaxBytes /\ odd \in Seq(Nat) /\ Len(odd) <= 1 /\ pending \in 0 .. (Window - 1)
  /\ queue \in 0 .. QueueSize /\ failures \in 0 .. 2 /\ stats \in [Listen!Counters -> Nat]
  /\ ear \in EarTypes /\ classes \in Seq(BOOLEAN) /\ emitted \in Seq(Segment)

SpeechIsTold ==
  \E low \in Nat : Told(ear, classes, emitted, low, stats["ignored_short"] = 0 /\ ~ending)

InHand == IF transcribing THEN 1 ELSE 0
Answers(s) == s["transcripts"] + s["empty"] + s["errors"]

\* Each segment of a call that goes on waits, is being transcribed, or was.
SegmentsCounted ==
  /\ ~ending => stats["segments"] = queue + InHand + Answers(stats)
  /\ stats["segments"] > 0 => classes # <<>>

\* While the call goes on, what was not ignored makes whole samples, but for the byte that was kept.
BytesPaired ==
  ~ending => /\ odd = <<>> \/ odd = <<bytes>>
             /\ (bytes - stats["ignored_bytes"] - Len(odd)) % 2 = 0
             /\ ~accepted => odd = <<>> /\ ~shifted
             /\ shifted => stats["ignored_bytes"] % 2 = 1

ListenInv == ListenTypes /\ SpeechIsTold /\ SegmentsCounted /\ BytesPaired

LEMMA Mod ==
  ASSUME NEW a \in Nat, NEW w \in Nat \ {0}
  PROVE  a % w \in 0 .. (w - 1) /\ a \div w \in Nat
OBVIOUS

LEMMA CountersAre ==
  /\ Listen!Counters = {"ignored_bytes", "segments", "empty", "errors", "transcripts", "ignored_short", "starts"}
  /\ \A s \in [Listen!Counters -> Nat] :
       /\ s["ignored_bytes"] \in Nat /\ s["segments"] \in Nat /\ s["empty"] \in Nat /\ s["errors"] \in Nat
       /\ s["transcripts"] \in Nat /\ s["ignored_short"] \in Nat
BY DEF Listen!Counters

LEMMA OneOdd ==
  ASSUME NEW b \in Nat
  PROVE  <<b>> \in Seq(Nat) /\ Len(<<b>>) = 1 /\ <<b>>[1] = b /\ <<b>> # <<>>
         /\ <<>> \in Seq(Nat) /\ Len(<<>>) = 0
BY EmptySeq

LEMMA OneOrNone ==
  ASSUME NEW s \in Seq(Nat), Len(s) <= 1, NEW n \in Nat
  PROVE  Len(s) \in {0, 1} /\ Len(s) + n \in Nat
<1>1. \A m \in Nat : m <= 1 => m \in {0, 1} /\ m + n \in Nat OBVIOUS
<1>2. Len(s) \in Nat BY LenProperties
<1> QED BY ONLY <1>1, <1>2, Len(s) <= 1, Zenon

LEMMA OneMoreAnswer ==
  ASSUME NEW s \in [Listen!Counters -> Nat], NEW c \in {"transcripts", "empty", "errors"}
  PROVE  /\ Answers(s) \in Nat
         /\ Answers([s EXCEPT ![c] = @ + 1]) = Answers(s) + 1
         /\ [s EXCEPT ![c] = @ + 1]["segments"] = s["segments"]
<1>1. c \in Listen!Counters BY CountersAre
<1>2. s["transcripts"] \in Nat /\ s["empty"] \in Nat /\ s["errors"] \in Nat BY CountersAre
<1> DEFINE t == [s EXCEPT ![c] = @ + 1]
<1>3. /\ t["transcripts"] = IF c = "transcripts" THEN s["transcripts"] + 1 ELSE s["transcripts"]
      /\ t["empty"] = IF c = "empty" THEN s["empty"] + 1 ELSE s["empty"]
      /\ t["errors"] = IF c = "errors" THEN s["errors"] + 1 ELSE s["errors"]
      /\ t["segments"] = s["segments"]
  BY <1>1, CountersAre
<1> HIDE DEF t
<1>4. Answers(t) = Answers(s) + 1
  <2>1. CASE c = "transcripts" BY <1>2, <1>3, <2>1 DEF Answers
  <2>2. CASE c = "empty" BY <1>2, <1>3, <2>2 DEF Answers
  <2>3. CASE c = "errors" BY <1>2, <1>3, <2>3 DEF Answers
  <2> QED BY <2>1, <2>2, <2>3
<1> QED BY <1>2, <1>3, <1>4 DEF t, Answers

LEMMA ListenStarts == Listen!Init => ListenInv
<1> SUFFICES ASSUME Listen!Init PROVE ListenInv OBVIOUS
<1>1. /\ accepted = FALSE /\ ending = FALSE /\ bytes = 0 /\ odd = <<>> /\ pending = 0
      /\ ear = Listen!Silent /\ classes = <<>> /\ emitted = <<>> /\ barge = FALSE
      /\ queue = 0 /\ transcribing = FALSE /\ failures = 0
      /\ stats = [c \in Listen!Counters |-> 0] /\ shifted = FALSE
  BY DEF Listen!Init
<1>2. classes \in Seq(BOOLEAN) /\ emitted \in Seq(Segment) /\ odd \in Seq(Nat) /\ Len(classes) = 0
      /\ Len(emitted) = 0 /\ Len(odd) = 0
  BY <1>1, EmptySeq
<1>3. EarInv(ear, classes, 0) BY <1>1, <1>2, ResetStep
<1>4. ear \in EarTypes /\ ~ear.in_speech BY <1>1, <1>3 DEF EarInv, Listen!Silent
<1>5. stats \in [Listen!Counters -> Nat] /\ \A c \in {"segments", "transcripts", "empty", "errors", "ignored_bytes"} :
                                                stats[c] = 0
  BY <1>1, CountersAre
<1>6. ListenTypes
  <2>1. 0 \in 0 .. MaxBytes /\ 0 \in 0 .. (Window - 1) /\ 0 \in 0 .. QueueSize /\ 0 \in 0 .. 2 BY Constants
  <2>2. bytes \in 0 .. MaxBytes /\ pending \in 0 .. (Window - 1) /\ queue \in 0 .. QueueSize /\ failures \in 0 .. 2
    BY <1>1, <2>1
  <2>3. Len(odd) <= 1 BY <1>2
  <2>4. /\ accepted \in BOOLEAN /\ ending \in BOOLEAN /\ barge \in BOOLEAN
        /\ transcribing \in BOOLEAN /\ shifted \in BOOLEAN
    BY <1>1
  <2>5. stats \in [Listen!Counters -> Nat] BY <1>5
  <2> QED BY ONLY <1>2, <1>4, <2>2, <2>3, <2>4, <2>5 DEF ListenTypes
<1>7. SpeechIsTold
  <2>1. Ordered(emitted, 0) BY <1>2 DEF Ordered
  <2>2. Quiet(classes, 0, Len(classes) + 1)
    <3>1. (0 + 1) .. ((0 + 1) - MinSpeech) = {} BY Constants
    <3> QED BY <1>2, <3>1 DEF Quiet
  <2>3. Clean(emitted, classes, 0) BY <1>2 DEF Clean, Before, Kept
  <2> QED BY <1>3, <1>4, <2>1, <2>2, <2>3 DEF SpeechIsTold, Told
<1>8. SegmentsCounted BY <1>1, <1>5 DEF SegmentsCounted, InHand, Answers
<1>9. BytesPaired BY <1>1, <1>2, <1>5 DEF BytesPaired
<1> QED BY <1>6, <1>7, <1>8, <1>9 DEF ListenInv

LEMMA ListenKeeps ==
  ASSUME ListenInv, [Listen!Next]_(Listen!vars)
  PROVE  ListenInv'
<1>1. ListenTypes /\ SpeechIsTold /\ SegmentsCounted /\ BytesPaired BY DEF ListenInv
<1> USE DEF ListenInv
<1>2. CASE Listen!Accept
  <2>1. /\ accepted' = TRUE
        /\ UNCHANGED <<ending, bytes, odd, pending, ear, classes, emitted, barge, shifted, queue,
                       transcribing, failures, stats>>
    BY <1>2 DEF Listen!Accept, Listen!input, Listen!worker
  <2>2. ListenTypes' BY <1>1, <2>1 DEF ListenTypes
  <2>3. SpeechIsTold' BY <1>1, <2>1 DEF SpeechIsTold
  <2>4. SegmentsCounted' BY <1>1, <2>1 DEF SegmentsCounted, InHand, Answers
  <2>5. BytesPaired' BY <1>1, <2>1 DEF BytesPaired
  <2> QED BY <2>2, <2>3, <2>4, <2>5
<1>3. CASE Listen!Take
  <2>1. /\ queue > 0 /\ ~transcribing /\ queue' = queue - 1 /\ transcribing' = ~ending
        /\ UNCHANGED <<accepted, ending, bytes, odd, pending, ear, classes, emitted, barge, shifted, failures, stats>>
    BY <1>3 DEF Listen!Take, Listen!input
  <2>2. ListenTypes' BY <1>1, <2>1, Constants DEF ListenTypes
  <2>3. SpeechIsTold' BY <1>1, <2>1 DEF SpeechIsTold
  <2>4. SegmentsCounted'
    <3>1. stats["segments"] \in Nat /\ queue \in Nat /\ Answers(stats) \in Nat
      <4>1. stats \in [Listen!Counters -> Nat] /\ queue \in 0 .. QueueSize BY <1>1 DEF ListenTypes
      <4>2. queue \in Nat BY <4>1, Constants
      <4>3. stats["segments"] \in Nat BY <4>1, CountersAre
      <4>4. Answers(stats) \in Nat BY <4>1, OneMoreAnswer
      <4> QED BY <4>2, <4>3, <4>4
    <3>0. ASSUME ~ending
          PROVE  stats["segments"] = queue + InHand + Answers(stats)
      BY <1>1, <3>0 DEF SegmentsCounted
    <3>9. stats["segments"] > 0 => classes # <<>> BY <1>1 DEF SegmentsCounted
    <3>2. ASSUME ~ending' PROVE stats'["segments"] = queue' + InHand' + Answers(stats')
      <4>1. ~ending /\ queue' + 1 = queue /\ stats' = stats BY <2>1, <3>1, <3>2
      <4>2. InHand = 0 /\ InHand' = 1 BY <2>1, <4>1 DEF InHand
      <4>3. stats["segments"] = queue + 0 + Answers(stats) BY <3>0, <4>1, <4>2
      <4>4. stats'["segments"] = stats["segments"] /\ Answers(stats') = Answers(stats) BY <4>1
      <4>5. queue + 0 + Answers(stats) = queue' + 1 + Answers(stats)
        <5>1. queue' \in Nat BY <2>1, <3>1
        <5>2. \A x, y, a \in Nat : y + 1 = x => x + 0 + a = y + 1 + a OBVIOUS
        <5> QED BY ONLY <3>1, <4>1, <5>1, <5>2, Zenon
      <4> QED BY <4>2, <4>3, <4>4, <4>5
    <3>3. stats'["segments"] > 0 => classes' # <<>> BY <2>1, <3>9
    <3> QED BY <3>2, <3>3 DEF SegmentsCounted
  <2>5. BytesPaired' BY <1>1, <2>1 DEF BytesPaired
  <2> QED BY <2>2, <2>3, <2>4, <2>5
<1>4. CASE Listen!Fails
  <2>1. /\ transcribing /\ transcribing' = FALSE /\ failures' = (IF failures < 2 THEN failures + 1 ELSE 2)
        /\ ending' = (ending \/ failures' = 2) /\ stats' = [stats EXCEPT !["errors"] = @ + 1]
        /\ UNCHANGED <<accepted, bytes, odd, pending, ear, classes, emitted, barge, shifted, queue>>
    BY <1>4 DEF Listen!Fails, Listen!input
  <2>2. /\ stats \in [Listen!Counters -> Nat] /\ stats' \in [Listen!Counters -> Nat]
        /\ stats'["errors"] = stats["errors"] + 1
        /\ \A c \in {"ignored_bytes", "segments", "empty", "transcripts", "ignored_short"} : stats'[c] = stats[c]
    BY <1>1, <2>1, CountersAre DEF ListenTypes
  <2>3. ~ending' => ~ending BY <2>1
  <2>4. ListenTypes'
    <3>1. failures' \in 0 .. 2
      <4>1. failures \in 0 .. 2 BY <1>1 DEF ListenTypes
      <4> QED BY <2>1, <4>1
    <3>2. ending' \in BOOLEAN /\ transcribing' \in BOOLEAN BY <1>1, <2>1 DEF ListenTypes
    <3>3. /\ accepted' \in BOOLEAN /\ barge' \in BOOLEAN /\ shifted' \in BOOLEAN /\ queue' \in 0 .. QueueSize
          /\ bytes' \in 0 .. MaxBytes /\ odd' \in Seq(Nat) /\ Len(odd') <= 1 /\ pending' \in 0 .. (Window - 1)
          /\ ear' \in EarTypes /\ classes' \in Seq(BOOLEAN) /\ emitted' \in Seq(Segment)
      BY <1>1, <2>1 DEF ListenTypes
    <3> QED BY ONLY <2>2, <3>1, <3>2, <3>3 DEF ListenTypes
  <2>5. SpeechIsTold'
    <3>1. PICK low \in Nat : Told(ear, classes, emitted, low, stats["ignored_short"] = 0 /\ ~ending)
      BY <1>1 DEF SpeechIsTold
    <3>2. Told(ear, classes, emitted, low, stats'["ignored_short"] = 0 /\ ~ending')
      BY <2>2, <2>3, <3>1 DEF Told
    <3> QED BY <2>1, <3>2 DEF SpeechIsTold
  <2>6. SegmentsCounted'
    <3>1. stats["segments"] \in Nat /\ queue \in Nat /\ Answers(stats) \in Nat
      <4>1. stats \in [Listen!Counters -> Nat] /\ queue \in 0 .. QueueSize BY <1>1 DEF ListenTypes
      <4>2. queue \in Nat BY <4>1, Constants
      <4>3. stats["segments"] \in Nat BY <4>1, CountersAre
      <4>4. Answers(stats) \in Nat BY <4>1, OneMoreAnswer
      <4> QED BY <4>2, <4>3, <4>4
    <3>0. ASSUME ~ending
          PROVE  stats["segments"] = queue + InHand + Answers(stats)
      BY <1>1, <3>0 DEF SegmentsCounted
    <3>9. stats["segments"] > 0 => classes # <<>> BY <1>1 DEF SegmentsCounted
    <3>2. ASSUME ~ending' PROVE stats'["segments"] = queue' + InHand' + Answers(stats')
      <4>1. ~ending /\ queue' = queue BY <2>1, <2>3, <3>2
      <4>2. InHand = 1 /\ InHand' = 0 BY <2>1 DEF InHand
      <4>3. stats["segments"] = queue + 1 + Answers(stats) BY <3>0, <4>1, <4>2
      <4>4. stats'["segments"] = stats["segments"] /\ Answers(stats') = Answers(stats) + 1
        BY <1>1, <2>1, OneMoreAnswer DEF ListenTypes
      <4>5. queue + 1 + Answers(stats) = queue + 0 + (Answers(stats) + 1) BY <3>1
      <4> QED BY <4>1, <4>2, <4>3, <4>4, <4>5
    <3>3. stats'["segments"] > 0 => classes' # <<>> BY <2>1, <2>2, <3>9
    <3> QED BY <3>2, <3>3 DEF SegmentsCounted
  <2>7. BytesPaired' BY <1>1, <2>1, <2>2, <2>3 DEF BytesPaired
  <2> QED BY <2>4, <2>5, <2>6, <2>7
<1>5. ASSUME NEW c \in {"transcripts", "empty"}, Listen!Transcribed(c) PROVE ListenInv'
  <2>1. /\ transcribing /\ transcribing' = FALSE /\ failures' = 0 /\ stats' = [stats EXCEPT ![c] = @ + 1]
        /\ UNCHANGED <<accepted, ending, bytes, odd, pending, ear, classes, emitted, barge, shifted, queue>>
    BY <1>5 DEF Listen!Transcribed, Listen!input
  <2>2. /\ stats \in [Listen!Counters -> Nat] /\ stats' \in [Listen!Counters -> Nat]
        /\ stats'[c] = stats[c] + 1 /\ \A d \in Listen!Counters \ {c} : stats'[d] = stats[d]
    BY <1>1, <2>1, CountersAre DEF ListenTypes
  <2>3. \A d \in {"ignored_bytes", "segments", "errors", "ignored_short"} : stats'[d] = stats[d]
    BY <2>2, CountersAre
  <2>4. ListenTypes'
    <3>1. failures' \in 0 .. 2
      <4>1. failures \in 0 .. 2 BY <1>1 DEF ListenTypes
      <4> QED BY <2>1, <4>1
    <3>2. ending' \in BOOLEAN /\ transcribing' \in BOOLEAN BY <1>1, <2>1 DEF ListenTypes
    <3>3. /\ accepted' \in BOOLEAN /\ barge' \in BOOLEAN /\ shifted' \in BOOLEAN /\ queue' \in 0 .. QueueSize
          /\ bytes' \in 0 .. MaxBytes /\ odd' \in Seq(Nat) /\ Len(odd') <= 1 /\ pending' \in 0 .. (Window - 1)
          /\ ear' \in EarTypes /\ classes' \in Seq(BOOLEAN) /\ emitted' \in Seq(Segment)
      BY <1>1, <2>1 DEF ListenTypes
    <3> QED BY ONLY <2>2, <3>1, <3>2, <3>3 DEF ListenTypes
  <2>5. SpeechIsTold' BY <1>1, <2>1, <2>3 DEF SpeechIsTold
  <2>6. SegmentsCounted'
    <3>1. stats["segments"] \in Nat /\ queue \in Nat /\ Answers(stats) \in Nat
      <4>1. stats \in [Listen!Counters -> Nat] /\ queue \in 0 .. QueueSize BY <1>1 DEF ListenTypes
      <4>2. queue \in Nat BY <4>1, Constants
      <4>3. stats["segments"] \in Nat BY <4>1, CountersAre
      <4>4. Answers(stats) \in Nat BY <4>1, OneMoreAnswer
      <4> QED BY <4>2, <4>3, <4>4
    <3>0. ASSUME ~ending
          PROVE  stats["segments"] = queue + InHand + Answers(stats)
      BY <1>1, <3>0 DEF SegmentsCounted
    <3>9. stats["segments"] > 0 => classes # <<>> BY <1>1 DEF SegmentsCounted
    <3>4. ASSUME ~ending' PROVE stats'["segments"] = queue' + InHand' + Answers(stats')
      <4>1. ~ending /\ queue' = queue BY <2>1, <3>4
      <4>2. InHand = 1 /\ InHand' = 0 BY <2>1 DEF InHand
      <4>3. stats["segments"] = queue + 1 + Answers(stats) BY <3>0, <4>1, <4>2
      <4>4. stats'["segments"] = stats["segments"] /\ Answers(stats') = Answers(stats) + 1
        BY <1>1, <2>1, OneMoreAnswer DEF ListenTypes
      <4>5. queue + 1 + Answers(stats) = queue + 0 + (Answers(stats) + 1) BY <3>1
      <4> QED BY <4>1, <4>2, <4>3, <4>4, <4>5
    <3>5. stats'["segments"] > 0 => classes' # <<>> BY <2>1, <2>3, <3>9
    <3> QED BY <3>4, <3>5 DEF SegmentsCounted
  <2>7. BytesPaired' BY <1>1, <2>1, <2>3 DEF BytesPaired
  <2> QED BY <2>4, <2>5, <2>6, <2>7
<1>6. ASSUME NEW n \in Chunks, Listen!Ignore(n) PROVE ListenInv'
  <2>1. /\ ~accepted \/ ending
        /\ stats' = [stats EXCEPT !["ignored_bytes"] = @ + n]
        /\ bytes + n <= MaxBytes /\ bytes' = bytes + n
        /\ UNCHANGED <<accepted, ending, odd, pending, ear, classes, emitted, barge, queue, transcribing, failures, shifted>>
    BY <1>6 DEF Listen!Ignore, Listen!worker
  <2>2. n \in Nat BY Constants
  <2>3. /\ stats \in [Listen!Counters -> Nat] /\ stats' \in [Listen!Counters -> Nat]
        /\ stats'["ignored_bytes"] = stats["ignored_bytes"] + n
        /\ \A c \in {"segments", "empty", "errors", "transcripts", "ignored_short"} : stats'[c] = stats[c]
    BY <1>1, <2>1, <2>2, CountersAre DEF ListenTypes
  <2>4. ListenTypes' BY <1>1, <2>1, <2>2, <2>3, Constants DEF ListenTypes
  <2>5. SpeechIsTold' BY <1>1, <2>1, <2>3 DEF SpeechIsTold
  <2>6. SegmentsCounted' BY <1>1, <2>1, <2>3 DEF SegmentsCounted, InHand, Answers
  <2>7. BytesPaired'
    <3> SUFFICES ASSUME ~ending'
                 PROVE  /\ odd' = <<>> /\ (bytes' - stats'["ignored_bytes"] - Len(odd')) % 2 = 0 /\ ~shifted'
      BY DEF BytesPaired
    <3>1. odd = <<>> /\ ~shifted /\ (bytes - stats["ignored_bytes"] - Len(odd)) % 2 = 0
      BY <1>1, <2>1 DEF BytesPaired
    <3>2. bytes \in Int /\ stats["ignored_bytes"] \in Int BY <1>1, CountersAre DEF ListenTypes
    <3>3. bytes' - stats'["ignored_bytes"] = bytes - stats["ignored_bytes"] BY <2>1, <2>2, <2>3, <3>2
    <3> QED BY <2>1, <3>1, <3>3
  <2> QED BY <2>4, <2>5, <2>6, <2>7
<1>7. ASSUME NEW n \in Chunks, NEW k \in 0 .. ((n + Window) \div Window), NEW speech \in [1 .. k -> BOOLEAN],
             NEW agent, Listen!Hears(n, speech, agent)
      PROVE  ListenInv'
  <2> DEFINE done == Listen!Heard(speech, agent)
             all == Len(odd) + n
             whole == Listen!Whole(n)
             head == IF odd = <<>> THEN bytes + 1 ELSE odd[1]
  <2>1. /\ accepted /\ ~ending /\ bytes + n <= MaxBytes /\ bytes' = bytes + n
        /\ odd' = whole.odd /\ pending' = (pending + whole.samples) % Window
        /\ shifted' = (shifted \/ (whole.samples > 0 /\ head % 2 = 0))
        /\ ear' = done.ear /\ classes' = done.classes
        /\ emitted' = done.emitted /\ stats' = done.stats /\ queue' = done.queue /\ ending' = done.full
        /\ barge' = (done.barge /\ ~(done.ear.in_speech /\ done.ear.voiced >= BargeIn))
        /\ accepted' = accepted /\ transcribing' = transcribing /\ failures' = failures
    BY <1>7 DEF Listen!Hears, Listen!worker
  <2> HIDE DEF done
  <2>2. n \in Nat /\ Len(odd) \in {0, 1} /\ all \in Nat
    <3>1. n \in Nat /\ odd \in Seq(Nat) /\ Len(odd) <= 1 BY <1>1, Constants DEF ListenTypes
    <3> QED BY <3>1, OneOrNone, Zenon
  <2>3. speech \in Seq(BOOLEAN)
    <3>1. n + Window \in Nat BY <2>2, Constants
    <3>2. (n + Window) \div Window \in Nat BY <3>1, Mod, Constants
    <3>3. k \in Nat BY <3>2
    <3> QED BY <3>3, SeqDef
  <2>4. done \in Hearing /\ Tells(done) /\ Counted(done, stats, queue)
    <3> DEFINE start == [ear |-> ear, classes |-> classes, barge |-> barge, stats |-> stats,
                         queue |-> queue, full |-> FALSE, emitted |-> emitted]
    <3>1. start \in Hearing BY <1>1 DEF ListenTypes, Hearing
    <3>2. Tells(start)
      <4>1. PICK low \in Nat : Told(ear, classes, emitted, low, stats["ignored_short"] = 0 /\ ~ending)
        BY <1>1 DEF SpeechIsTold
      <4>2. Told(ear, classes, emitted, low, stats["ignored_short"] = 0 /\ ~FALSE) BY <2>1, <4>1 DEF Told
      <4> QED BY <4>2 DEF Tells
    <3>3. Counted(start, stats, queue) BY <1>1 DEF Counted, SegmentsCounted
    <3>4. stats \in [Listen!Counters -> Nat] /\ queue \in Nat BY <1>1, Constants DEF ListenTypes
    <3>5. start = [ear |-> ear, classes |-> classes, barge |-> barge, stats |-> stats,
                   queue |-> queue, full |-> FALSE, emitted |-> emitted]
      OBVIOUS
    <3> HIDE DEF start
    <3> QED BY <2>3, <3>1, <3>2, <3>3, <3>4, <3>5, HeardTells DEF done
  <2>5. /\ done.ear \in EarTypes /\ done.classes \in Seq(BOOLEAN) /\ done.barge \in BOOLEAN
        /\ done.stats \in [Listen!Counters -> Nat] /\ done.queue \in 0 .. QueueSize
        /\ done.full \in BOOLEAN /\ done.emitted \in Seq(Segment)
    BY <2>4 DEF Hearing
  <2>6. bytes \in Nat /\ bytes + n \in 0 .. MaxBytes
    <3>1. bytes \in 0 .. MaxBytes BY <1>1 DEF ListenTypes
    <3> QED BY <2>1, <2>2, <3>1, Constants
  <2>7. /\ whole.samples = all \div 2 /\ whole.samples \in Nat
        /\ whole.odd = IF all % 2 = 1 THEN <<bytes + n>> ELSE <<>>
    BY <2>2 DEF Listen!Whole
  <2> HIDE DEF whole
  <2>8. odd' \in Seq(Nat) /\ Len(odd') = all % 2 /\ (odd' = <<>> \/ odd' = <<bytes'>>)
    <3>1. all % 2 \in {0, 1} BY <2>2
    <3>2. bytes + n \in Nat BY <2>2, <2>6
    <3> QED BY <2>1, <2>7, <3>1, <3>2, OneOdd
  <2>9. ListenTypes'
    <3>1. pending' \in 0 .. (Window - 1)
      <4>1. pending + whole.samples \in Nat
        <5>1. pending \in 0 .. (Window - 1) BY <1>1 DEF ListenTypes
        <5> QED BY <2>7, <5>1, Constants
      <4> QED BY <2>1, <4>1, Mod, Constants
    <3>2. Len(odd') <= 1 BY <2>2, <2>8
    <3> QED BY <1>1, <2>1, <2>5, <2>6, <2>8, <3>1, <3>2 DEF ListenTypes
  <2>10. SpeechIsTold' BY <2>1, <2>4 DEF SpeechIsTold, Tells
  <2>11. SegmentsCounted'
    <3>1. /\ \A c \in {"empty", "errors", "transcripts"} : stats'[c] = stats[c]
          /\ ~ending' => stats'["segments"] - queue' = stats["segments"] - queue
          /\ stats'["segments"] > 0 => classes' # <<>>
      BY <2>1, <2>4 DEF Counted
    <3>2. /\ stats["segments"] \in Nat /\ Answers(stats) \in Nat /\ stats'["segments"] \in Nat
          /\ queue \in Nat /\ queue' \in Nat
      <4>1. stats \in [Listen!Counters -> Nat] /\ queue \in 0 .. QueueSize BY <1>1 DEF ListenTypes
      <4>2. stats' \in [Listen!Counters -> Nat] /\ queue' \in 0 .. QueueSize BY <2>9 DEF ListenTypes
      <4>3. queue \in Nat /\ queue' \in Nat BY <4>1, <4>2, Constants
      <4>4. stats["segments"] \in Nat /\ stats'["segments"] \in Nat BY <4>1, <4>2, CountersAre
      <4>5. Answers(stats) \in Nat BY <4>1, OneMoreAnswer
      <4> QED BY <4>3, <4>4, <4>5
    <3>3. stats["segments"] = queue + InHand + Answers(stats) BY <1>1, <2>1 DEF SegmentsCounted
    <3>4. InHand' = InHand /\ InHand \in Nat BY <2>1 DEF InHand
    <3>5. Answers(stats') = Answers(stats) BY <3>1 DEF Answers
    <3>6. ASSUME ~ending' PROVE stats'["segments"] = queue' + InHand' + Answers(stats')
      <4> DEFINE sn == stats'["segments"]
                 qn == queue'
                 so == stats["segments"]
                 qo == queue
                 h == InHand
                 r == Answers(stats)
      <4>1. /\ sn \in Nat /\ qn \in Nat /\ so \in Nat /\ qo \in Nat /\ h \in Nat /\ r \in Nat
            /\ sn - qn = so - qo /\ so = qo + h + r
        BY <3>1, <3>2, <3>3, <3>4, <3>6
      <4> HIDE DEF sn, qn, so, qo, h, r
      <4>2. sn = qn + h + r BY ONLY <4>1
      <4>3. stats'["segments"] = queue' + InHand + Answers(stats) BY <4>2 DEF sn, qn, h, r
      <4> QED BY <3>4, <3>5, <4>3
    <3> QED BY <3>1, <3>6 DEF SegmentsCounted
  <2>12. BytesPaired'
    <3>1. stats'["ignored_bytes"] = stats["ignored_bytes"] /\ stats["ignored_bytes"] \in Nat
      BY <1>1, <2>1, <2>4, CountersAre DEF Counted, ListenTypes
    <3>2. /\ odd = <<>> \/ odd = <<bytes>>
          /\ (bytes - stats["ignored_bytes"] - Len(odd)) % 2 = 0
          /\ shifted => stats["ignored_bytes"] % 2 = 1
      BY <1>1, <2>1 DEF BytesPaired
    <3>3. (bytes' - stats'["ignored_bytes"] - Len(odd')) % 2 = 0
      BY <2>1, <2>2, <2>6, <2>8, <3>1, <3>2
    <3>4. head % 2 = 0 => stats["ignored_bytes"] % 2 = 1
      <4>1. CASE odd = <<>>
        <5>1. head = bytes + 1 /\ Len(odd) = 0 BY <4>1, OneOdd
        <5> DEFINE b == bytes
                   g == stats["ignored_bytes"]
        <5>2. b \in Nat /\ g \in Nat BY <2>6, <3>1
        <5>3. (b - g - Len(odd)) % 2 = 0 BY <3>2
        <5> HIDE DEF b, g, head
        <5>4. head % 2 = 0 => g % 2 = 1 BY <5>1, <5>2, <5>3 DEF b
        <5> QED BY <5>4 DEF g
      <4>2. CASE odd = <<bytes>>
        <5>1. head = bytes /\ Len(odd) = 1 BY <2>6, <4>2, OneOdd
        <5> DEFINE b == bytes
                   g == stats["ignored_bytes"]
        <5>2. b \in Nat /\ g \in Nat BY <2>6, <3>1
        <5>3. (b - g - Len(odd)) % 2 = 0 BY <3>2
        <5> HIDE DEF b, g, head
        <5>4. head % 2 = 0 => g % 2 = 1 BY <5>1, <5>2, <5>3 DEF b
        <5> QED BY <5>4 DEF g
      <4> QED BY <3>2, <4>1, <4>2
    <3> HIDE DEF head
    <3> QED BY <2>1, <2>8, <3>1, <3>2, <3>3, <3>4 DEF BytesPaired
  <2> QED BY <2>9, <2>10, <2>11, <2>12
<1>8. CASE UNCHANGED Listen!vars
  <2>1. UNCHANGED <<accepted, ending, bytes, odd, pending, ear, classes, emitted, barge, shifted, queue,
                    transcribing, failures, stats>>
    BY <1>8 DEF Listen!vars, Listen!input, Listen!worker
  <2> QED BY <1>1, <2>1 DEF ListenTypes, SpeechIsTold, SegmentsCounted, BytesPaired, InHand
<1> QED BY <1>2, <1>3, <1>4, <1>5, <1>6, <1>7, <1>8 DEF Listen!Next

-----------------------------------------------------------------------------
(* The properties of the ear. *)

\* The segment of the turn that lasts counts as one.
LEMMA SegmentsAre ==
  ASSUME ListenInv
  PROVE  \E top \in 0 .. Len(classes) :
           /\ Listen!Segments \in Seq(Segment) /\ Ordered(Listen!Segments, top)
           /\ stats["ignored_short"] = 0 /\ ~ending =>
                Clean(Listen!Segments, classes, top) /\ Quiet(classes, top, Len(classes) + 1)
<1> DEFINE clean == stats["ignored_short"] = 0 /\ ~ending
           n == Len(classes)
<1>1. PICK low \in Nat : Told(ear, classes, emitted, low, clean) BY DEF ListenInv, SpeechIsTold
<1> HIDE DEF clean
<1>2. /\ EarInv(ear, classes, low) /\ Ordered(emitted, low)
      /\ Quiet(classes, low, IF ear.in_speech THEN ear.from ELSE n + 1)
      /\ clean => Clean(emitted, classes, low)
  BY <1>1 DEF Told
<1>3. emitted \in Seq(Segment) /\ n \in Nat BY LenProperties DEF ListenInv, ListenTypes
<1>4. low \in 0 .. n BY <1>2 DEF EarInv
<1>5. CASE ~ear.in_speech
  <2>1. Listen!Segments = emitted
    <3>1. Listen!Segments = emitted \o <<>> BY <1>5 DEF Listen!Segments
    <3> QED BY <1>3, <3>1, ConcatEmptySeq
  <2>2. Quiet(classes, low, n + 1) BY <1>2, <1>5
  <2> QED BY <1>2, <1>3, <1>4, <2>1, <2>2 DEF clean
<1>6. CASE ear.in_speech
  <2> DEFINE from == ear.from
             seg == [windows |-> ear.segment, from |-> ear.from]
  <2>1. InTurn(ear, classes, low) /\ ear \in EarTypes BY <1>2, <1>6 DEF EarInv, Waits
  <2>2. from \in Nat /\ from >= low + MinSpeech /\ from <= n /\ ear.segment = Win(Onset(low, from), n)
    BY <2>1 DEF InTurn, EarTypes
  <2>3. seg \in Segment BY <2>1 DEF EarTypes, Segment
  <2>4. Listen!Segments = Append(emitted, seg)
    <3>1. Listen!Segments = emitted \o <<seg>> BY <1>6 DEF Listen!Segments
    <3> HIDE DEF seg
    <3> QED BY <1>3, <2>3, <3>1, AppendIsConcat
  <2>5. Listen!Segments = Append(emitted, [windows |-> Win(Onset(low, from), n), from |-> from]) BY <2>2, <2>4
  <2>6. Quiet(classes, low, from) BY <1>2, <1>6
  <2> HIDE DEF from, seg, n
  <2>7. low <= n BY <1>3, <1>4
  <2>8. /\ Listen!Segments \in Seq(Segment) /\ Ordered(Listen!Segments, n)
        /\ Clean(emitted, classes, low) /\ Quiet(classes, low, from) => Clean(Listen!Segments, classes, n)
    BY <1>2, <1>3, <2>2, <2>5, <2>7, OneMoreSegment
  <2>9. Quiet(classes, n, n + 1)
    <3>1. (n + 1) .. ((n + 1) - MinSpeech) = {} BY <1>3, Constants
    <3> QED BY <3>1 DEF Quiet
  <2>10. n \in 0 .. n BY <1>3
  <2> QED BY <1>2, <2>6, <2>8, <2>9, <2>10 DEF clean, n
<1> QED BY <1>5, <1>6

LEMMA SegmentsWhole ==
  ASSUME ListenInv
  PROVE  Listen!SegmentsAreWhole
<1> DEFINE segs == Listen!Segments
<1>1. PICK top \in 0 .. Len(classes) : segs \in Seq(Segment) /\ Ordered(segs, top) BY SegmentsAre
<1> HIDE DEF segs
<1>2. DOMAIN segs = 1 .. Len(segs) BY <1>1, LenProperties
<1>3. ASSUME NEW i \in 1 .. Len(segs)
      PROVE  /\ \A k \in 1 .. (Len(segs[i].windows) - 1) : segs[i].windows[k + 1] = segs[i].windows[k] + 1
             /\ i > 1 => Hi(segs[i - 1]) < Lo(segs[i])
  <2> DEFINE a == Lo(segs[i])
             b == Hi(segs[i])
             w == segs[i].windows
  <2>1. a \in Nat /\ b \in Nat /\ a <= b /\ w = Win(a, b) /\ (i > 1 => Hi(segs[i - 1]) < Lo(segs[i]))
    BY <1>1 DEF Ordered
  <2> HIDE DEF a, b, w
  <2>2. a <= b + 1 BY <2>1
  <2>3. Len(w) = b - a + 1 /\ \A k \in 1 .. b - a + 1 : w[k] = a + k - 1 BY <2>1, <2>2, WinIs
  <2>4. ASSUME NEW k \in 1 .. (Len(w) - 1) PROVE w[k + 1] = w[k] + 1
    <3>1. k \in 1 .. b - a + 1 /\ k + 1 \in 1 .. b - a + 1 BY <2>1, <2>3
    <3>2. w[k] = a + k - 1 /\ w[k + 1] = a + (k + 1) - 1 BY <2>3, <3>1
    <3> QED BY <2>1, <3>2
  <2> QED BY <2>1, <2>4 DEF w
<1> QED BY <1>2, <1>3 DEF Listen!SegmentsAreWhole, Listen!First, Listen!Final, Lo, Hi, segs

LEMMA SpeechKept ==
  ASSUME ListenInv
  PROVE  Listen!SpeechIsKept
<1> DEFINE segs == Listen!Segments
           n == Len(classes)
<1> SUFFICES ASSUME stats["ignored_short"] = 0, ~ending, NEW i \in 1 .. (n - MinSpeech + 1),
                    \A w \in i .. (i + MinSpeech - 1) : classes[w]
             PROVE  i \in UNION {Listen!First(s) .. Listen!Final(s) : s \in DOMAIN segs}
  BY DEF Listen!SpeechIsKept
<1>1. PICK top \in 0 .. n : segs \in Seq(Segment) /\ Clean(segs, classes, top) /\ Quiet(classes, top, n + 1)
  BY SegmentsAre
<1>2. n \in Nat /\ MinSpeech \in Nat \ {0} BY LenProperties, Constants DEF ListenInv, ListenTypes
<1> HIDE DEF n
<1>3. CASE i <= top
  <2>1. i \in 1 .. top BY <1>2, <1>3
  <2>2. \A w \in i .. (i + MinSpeech - 1) : ~(w <= top /\ ~classes[w]) OBVIOUS
  <2>3. PICK s \in 1 .. Len(segs) : i \in Lo(segs[s]) .. Hi(segs[s]) BY <1>1, <2>1, <2>2 DEF Clean, Kept
  <2>4. s \in DOMAIN segs /\ Lo(segs[s]) = Listen!First(s) /\ Hi(segs[s]) = Listen!Final(s)
    BY <1>1, LenProperties DEF Lo, Hi, Listen!First, Listen!Final
  <2> HIDE DEF segs
  <2> QED BY <2>3, <2>4
<1>4. CASE ~(i <= top)
  <2>1. i \in (top + 1) .. ((n + 1) - MinSpeech) BY <1>2, <1>4
  <2> QED BY <1>1, <2>1 DEF Quiet
<1> QED BY <1>3, <1>4

LEMMA PrerollTaken ==
  ASSUME ListenInv
  PROVE  Listen!PrerollIsTaken
<1> DEFINE segs == Listen!Segments
<1> SUFFICES ASSUME stats["ignored_short"] = 0, ~ending, NEW i \in DOMAIN segs
             PROVE  LET before == IF i = 1 THEN 0 ELSE Listen!Final(i - 1)
                        longest == segs[i].from - MinSpeech - Preroll
                    IN  Listen!First(i) = 1 + (IF before > longest THEN before ELSE longest)
  BY DEF Listen!PrerollIsTaken
<1>1. PICK top \in 0 .. Len(classes) : segs \in Seq(Segment) /\ Ordered(segs, top) /\ Clean(segs, classes, top)
  BY SegmentsAre
<1> DEFINE before == Before(segs, i)
           from == segs[i].from
<1>2. Listen!First(i) = Lo(segs[i]) /\ before = IF i = 1 THEN 0 ELSE Listen!Final(i - 1)
  BY DEF Before, Lo, Hi, Listen!First, Listen!Final
<1> HIDE DEF segs
<1>3. i \in 1 .. Len(segs) /\ Len(segs) \in Nat BY <1>1, LenProperties
<1>4. before \in Nat
  <2>1. CASE i = 1 BY <2>1 DEF Before
  <2>2. CASE i # 1
    <3>1. i - 1 \in 1 .. Len(segs) BY <1>3, <2>2
    <3>2. Hi(segs[i - 1]) \in Nat BY <1>1, <3>1 DEF Ordered
    <3> QED BY <2>2, <3>2 DEF Before
  <2> QED BY <2>1, <2>2
<1>5. from \in Nat
  <2>1. segs[i] \in Segment BY <1>1, <1>3, ElementOfSeq
  <2> QED BY <2>1 DEF Segment
<1>6. Lo(segs[i]) = Onset(before, from) BY <1>1, <1>3 DEF Clean
<1>7. Onset(before, from) = 1 + (IF before > from - MinSpeech - Preroll THEN before ELSE from - MinSpeech - Preroll)
  <2> HIDE DEF before, from
  <2> QED BY <1>4, <1>5, Constants DEF Onset
<1> QED BY <1>2, <1>6, <1>7 DEF segs

LEMMA FailureNamed ==
  ASSUME ListenInv
  PROVE  Listen!FailureIsNamed
<1> SUFFICES ASSUME stats["segments"] > 0, queue = 0, ~transcribing, ~ending, stats["transcripts"] = 0
             PROVE  Listen!diagnosis \in {"stt_error", "stt_empty"}
  BY DEF Listen!FailureIsNamed
<1>1. classes # <<>> /\ stats["segments"] = 0 + 0 + Answers(stats)
  BY DEF ListenInv, SegmentsCounted, InHand
<1>2. stats \in [Listen!Counters -> Nat] BY DEF ListenInv, ListenTypes
<1> DEFINE seg == stats["segments"]
           emp == stats["empty"]
           err == stats["errors"]
<1>3. seg \in Nat /\ emp \in Nat /\ err \in Nat BY <1>2, CountersAre
<1>4. seg = 0 + 0 + (0 + emp + err) BY <1>1 DEF Answers
<1>5. seg > 0 /\ ~(0 > 0) OBVIOUS
<1>6. err >= seg \/ emp > 0
  <2> HIDE DEF seg, emp, err
  <2> QED BY <1>3, <1>4
<1> QED BY <1>1, <1>5, <1>6 DEF Listen!diagnosis

LEMMA ListenTypeOK ==
  ASSUME ListenInv
  PROVE  Listen!TypeOK
<1>1. ListenTypes BY DEF ListenInv
<1>2. PICK low \in Nat : EarInv(ear, classes, low) BY DEF ListenInv, SpeechIsTold, Told
<1> DEFINE n == Len(classes)
<1>3. n \in Nat /\ low \in 0 .. n /\ ear \in EarTypes BY <1>2, LenProperties DEF EarInv, ListenInv, ListenTypes
<1> HIDE DEF n
<1>4. /\ Len(ear.preroll) <= MinSpeech + Preroll /\ (ear.in_speech => ear.preroll = <<>>)
      /\ ear.in_speech => Len(ear.segment) <= MinSpeech + Preroll \/ Len(ear.segment) < MaxSegment
      /\ ~ear.in_speech => ear.segment = <<>> /\ ear.voiced = 0
      /\ ear.run \in 0 .. MinSpeech /\ ear.silence \in 0 .. (EndSilence - 1)
  <2>1. CASE Waits(ear, classes, low)
    <3>1. /\ ~ear.in_speech /\ ear.segment = <<>> /\ ear.voiced = 0 /\ ear.silence = 0 /\ ear.run < MinSpeech
          /\ ear.preroll = Win(Onset(low, n), n)
      BY <2>1 DEF Waits, n
    <3> DEFINE a == Onset(low, n)
    <3>2. a \in Nat /\ a <= n + 1 /\ n - a + 1 <= MinSpeech + Preroll
      <4>1. low \in Nat /\ low <= n BY <1>3
      <4> QED BY <1>3, <4>1, OnsetIs
    <3> HIDE DEF a
    <3>3. Len(Win(a, n)) = n - a + 1 BY <1>3, <3>2, WinIs
    <3>4. ear.run \in 0 .. MinSpeech
      <4>1. ear.run \in Nat BY <1>3 DEF EarTypes
      <4> QED BY <3>1, <4>1, Constants
    <3>5. 0 \in 0 .. (EndSilence - 1) BY Constants
    <3> QED BY <3>1, <3>2, <3>3, <3>4, <3>5 DEF a
  <2>2. CASE InTurn(ear, classes, low)
    <3>1. /\ ear.in_speech /\ ear.preroll = <<>> /\ ear.run <= MinSpeech /\ ear.silence < EndSilence
          /\ ear.from >= low + MinSpeech /\ ear.from <= n
          /\ ear.segment = Win(Onset(low, ear.from), n)
          /\ ear.from = n \/ Len(ear.segment) < MaxSegment
      BY <2>2 DEF InTurn, n
    <3>2. ear.run \in Nat /\ ear.silence \in Nat /\ ear.from \in Nat BY <1>3 DEF EarTypes
    <3>3. ear.run \in 0 .. MinSpeech /\ ear.silence \in 0 .. (EndSilence - 1) BY <3>1, <3>2, Constants
    <3>4. Len(ear.preroll) = 0 /\ 0 <= MinSpeech + Preroll BY <3>1, Constants, EmptySeq
    <3>5. ear.from = n => Len(ear.segment) <= MinSpeech + Preroll
      <4> SUFFICES ASSUME ear.from = n PROVE Len(ear.segment) <= MinSpeech + Preroll OBVIOUS
      <4> DEFINE a == Onset(low, n)
      <4>1. a \in Nat /\ a <= n + 1 /\ n - a + 1 <= MinSpeech + Preroll
        <5>1. low \in Nat /\ low <= n BY <1>3
        <5> QED BY <1>3, <5>1, OnsetIs
      <4>2. ear.segment = Win(a, n) BY <3>1
      <4> HIDE DEF a
      <4>3. Len(Win(a, n)) = n - a + 1 BY <1>3, <4>1, WinIs
      <4> QED BY <4>1, <4>2, <4>3
    <3> QED BY <3>1, <3>3, <3>4, <3>5
  <2> QED BY <1>2, <2>1, <2>2 DEF EarInv
<1> QED BY <1>1, <1>4 DEF ListenTypes, Listen!TypeOK

\* What the customer says reaches the transcription whole, for every length of silence, of preroll and of the
\* queue: each run of speech is in a segment, no window is in two, the first sound is not cut, and a
\* failure is told (vad.py:224-298, stream.py:462-505, call_stats.py:124-140).
THEOREM SpeechIsHeardWhole == Together => []HeardWhole
<1>1. Listen!Init => ListenInv BY ListenStarts
<1>2. ListenInv /\ [Listen!Next]_(Listen!vars) => ListenInv' BY ListenKeeps
<1>3. ListenInv => HeardWhole
  <2> SUFFICES ASSUME ListenInv PROVE HeardWhole OBVIOUS
  <2>1. Listen!SamplesAreAlignedLater BY DEF ListenInv, BytesPaired, Listen!SamplesAreAlignedLater
  <2> QED BY <2>1, SegmentsWhole, SpeechKept, PrerollTaken, FailureNamed DEF HeardWhole
<1> QED BY <1>1, <1>2, <1>3, PTL DEF Together, Listen!Spec

-----------------------------------------------------------------------------
(* What the chat routes know of the server. *)

\* The server is now in its state; and what was found was so after the request that found it began.
SeenInv ==
  /\ ticked[model] = now /\ \A s \in Status!Servers : ticked[s] <= now
  /\ cacheAt <= now /\ (Status!Refuses(cache) => ticked[cache] >= cacheAt)
  /\ \A c \in Status!Callers :
       /\ asker[c].start <= now
       /\ Status!Refuses(asker[c].saw) =>
            /\ asker[c].at \in {"details", "arrives"} => ticked[asker[c].saw] >= asker[c].start
            /\ asker[c].at = "done" => ticked[asker[c].saw] > asker[c].start - CacheTime
            /\ asker[c].at = "done" /\ c \in Healths => ticked[asker[c].saw] >= asker[c].start

StatusInv == Status!TypeOK /\ SeenInv

LEMMA StatusConstants ==
  /\ Chats \cap Healths = {} /\ CallTime \in Nat /\ MaxTime \in Nat /\ MaxChanges \in Nat /\ CacheTime \in Nat \ {0}
  /\ Status!Never \in Int /\ Status!Times = 0 .. MaxTime /\ Status!Never < 0
  /\ Status!Servers = {"down", "unloaded", "loaded"}
  /\ Status!Statuses = {"down", "unloaded", "loaded", "unknown"} /\ Status!NoStatus = "none"
BY ServicesAssumption
   DEF Status!StatusAssumption, Status!Never, Status!Times, Status!Servers, Status!Statuses, Status!NoStatus

Asking == [at : {"new", "lists", "details", "arrives", "done"}, start : Status!Times, call : Status!Times,
           saw : Status!Statuses \cup {Status!NoStatus}]

LEMMA StatusTypes ==
  Status!TypeOK <=>
    /\ now \in Status!Times /\ cacheAt \in Status!Times
    /\ model \in Status!Servers /\ changes \in 0 .. MaxChanges
    /\ ticked \in [Status!Servers -> Status!Times \cup {Status!Never}]
    /\ cache \in Status!Statuses \cup {Status!NoStatus}
    /\ asker \in [Status!Callers -> Asking]
BY DEF Status!TypeOK, Asking

LEMMA StatusStarts == Status!Init => StatusInv
<1> SUFFICES ASSUME Status!Init PROVE StatusInv OBVIOUS
<1>1. /\ now = 0 /\ model \in Status!Servers /\ changes = 0
      /\ ticked = [s \in Status!Servers |-> IF s = model THEN 0 ELSE Status!Never]
      /\ cache = Status!NoStatus /\ cacheAt = 0
      /\ asker = [c \in Status!Callers |-> [at |-> "new", start |-> 0, call |-> 0, saw |-> Status!NoStatus]]
  BY DEF Status!Init
<1>2. 0 \in Status!Times /\ 0 \in 0 .. MaxChanges BY StatusConstants
<1>3. [at |-> "new", start |-> 0, call |-> 0, saw |-> Status!NoStatus] \in Asking BY <1>2 DEF Asking
<1>4. Status!TypeOK BY <1>1, <1>2, <1>3, StatusTypes
<1>5. ~Status!Refuses(Status!NoStatus) BY StatusConstants DEF Status!Refuses
<1>6. ASSUME NEW s \in Status!Servers PROVE ticked[s] <= 0 /\ ticked[model] = 0
  BY <1>1, StatusConstants
<1>7. ASSUME NEW c \in Status!Callers PROVE asker[c].start = 0 /\ asker[c].saw = Status!NoStatus BY <1>1
<1> QED BY <1>1, <1>4, <1>5, <1>6, <1>7 DEF StatusInv, SeenInv

\* Time and the server go on: what was seen stays as recent as it was.
LEMMA LaterIsNoLoss ==
  ASSUME StatusInv, Status!TypeOK', cache' = cache, cacheAt' = cacheAt, asker' = asker, now <= now',
         ticked'[model'] = now', \A s \in Status!Servers : ticked'[s] \in Int /\ ticked'[s] >= ticked[s] /\ ticked'[s] <= now'
  PROVE  SeenInv'
<1>1. SeenInv /\ Status!TypeOK BY DEF StatusInv
<1>2. now \in 0 .. MaxTime /\ now' \in 0 .. MaxTime /\ cacheAt \in 0 .. MaxTime /\ asker \in [Status!Callers -> Asking]
  BY <1>1, StatusTypes, StatusConstants DEF Status!TypeOK
<1>3. \A s \in Status!Servers : ticked[s] \in Int BY <1>1, StatusTypes, StatusConstants
<1>4. ASSUME NEW s, Status!Refuses(s) PROVE s \in Status!Servers BY <1>4, StatusConstants DEF Status!Refuses
<1>5. cacheAt <= now' /\ (Status!Refuses(cache) => ticked'[cache] >= cacheAt)
  <2>1. cacheAt <= now /\ (Status!Refuses(cache) => ticked[cache] >= cacheAt) BY <1>1 DEF SeenInv
  <2>2. cacheAt <= now' BY <1>2, <2>1, StatusConstants
  <2>3. ASSUME Status!Refuses(cache) PROVE ticked'[cache] >= cacheAt
    <3>1. cache \in Status!Servers BY <1>4, <2>3
    <3>2. ticked[cache] >= cacheAt /\ ticked[cache] \in Int /\ ticked'[cache] \in Int /\ ticked'[cache] >= ticked[cache]
      BY <1>3, <2>1, <2>3, <3>1
    <3> QED BY <1>2, <3>2
  <2> QED BY <2>2, <2>3
<1>6. ASSUME NEW c \in Status!Callers
      PROVE  /\ asker[c].start <= now'
             /\ Status!Refuses(asker[c].saw) =>
                  /\ asker[c].at \in {"details", "arrives"} => ticked'[asker[c].saw] >= asker[c].start
                  /\ asker[c].at = "done" => ticked'[asker[c].saw] > asker[c].start - CacheTime
                  /\ asker[c].at = "done" /\ c \in Healths => ticked'[asker[c].saw] >= asker[c].start
  <2> DEFINE st == asker[c].start
             sw == asker[c].saw
             at == asker[c].at
  <2>1. st \in 0 .. MaxTime BY <1>2, StatusConstants DEF Asking
  <2>2. /\ st <= now
        /\ Status!Refuses(sw) =>
             /\ at \in {"details", "arrives"} => ticked[sw] >= st
             /\ at = "done" => ticked[sw] > st - CacheTime
             /\ at = "done" /\ c \in Healths => ticked[sw] >= st
    BY <1>1 DEF SeenInv
  <2> HIDE DEF st, sw, at
  <2>3. st <= now' BY <1>2, <2>1, <2>2
  <2>4. ASSUME Status!Refuses(sw)
        PROVE  /\ at \in {"details", "arrives"} => ticked'[sw] >= st
               /\ at = "done" => ticked'[sw] > st - CacheTime
               /\ at = "done" /\ c \in Healths => ticked'[sw] >= st
    <3>1. sw \in Status!Servers BY <1>4, <2>4
    <3>2. ticked[sw] \in Int /\ ticked'[sw] \in Int /\ ticked'[sw] >= ticked[sw] BY <1>3, <3>1
    <3> DEFINE old == ticked[sw]
               new == ticked'[sw]
    <3>3. /\ at \in {"details", "arrives"} => old >= st
          /\ at = "done" => old > st - CacheTime
          /\ at = "done" /\ c \in Healths => old >= st
      BY <2>2, <2>4
    <3>4. old \in Int /\ new \in Int /\ new >= old BY <3>2
    <3>5. st \in Int /\ CacheTime \in Int BY <2>1, StatusConstants
    <3> HIDE DEF old, new
    <3>6. /\ at \in {"details", "arrives"} => new >= st
          /\ at = "done" => new > st - CacheTime
          /\ at = "done" /\ c \in Healths => new >= st
      BY ONLY <3>3, <3>4, <3>5
    <3> QED BY <3>6 DEF new
  <2> QED BY <2>3, <2>4 DEF st, sw, at
<1> QED BY <1>5, <1>6 DEF SeenInv

\* What is said of a request.
SeenBy(c, a) ==
  /\ a.start <= now
  /\ Status!Refuses(a.saw) =>
       /\ a.at \in {"details", "arrives"} => ticked[a.saw] >= a.start
       /\ a.at = "done" => ticked[a.saw] > a.start - CacheTime
       /\ a.at = "done" /\ c \in Healths => ticked[a.saw] >= a.start

\* A step of one request.
LEMMA OneAsks ==
  ASSUME StatusInv, NEW c \in Status!Callers, NEW a \in Asking, SeenBy(c, a), asker' = [asker EXCEPT ![c] = a],
         now' = now, model' = model, changes' = changes, ticked' = ticked, cache' = cache, cacheAt' = cacheAt
  PROVE  StatusInv'
<1>1. SeenInv /\ Status!TypeOK BY DEF StatusInv
<1>2. asker \in [Status!Callers -> Asking] BY <1>1, StatusTypes
<1>3. asker' \in [Status!Callers -> Asking] BY <1>2
<1>4. Status!TypeOK'
  <2>1. /\ now' \in Status!Times /\ cacheAt' \in Status!Times
        /\ model' \in Status!Servers /\ changes' \in 0 .. MaxChanges
        /\ ticked' \in [Status!Servers -> Status!Times \cup {Status!Never}]
        /\ cache' \in Status!Statuses \cup {Status!NoStatus}
    BY <1>1, StatusTypes
  <2> QED BY <1>3, <2>1 DEF Status!TypeOK, Asking
<1>5. ASSUME NEW d \in Status!Callers PROVE SeenBy(d, asker'[d])
  <2>1. CASE d = c BY <1>2, <2>1
  <2>2. CASE d # c
    <3>1. asker'[d] = asker[d] BY <1>2, <2>2
    <3>2. SeenBy(d, asker[d]) BY <1>1 DEF SeenInv, SeenBy
    <3> QED BY <3>1, <3>2
  <2> QED BY <2>1, <2>2
<1>6. /\ ticked'[model'] = now' /\ \A s \in Status!Servers : ticked'[s] <= now'
      /\ cacheAt' <= now' /\ (Status!Refuses(cache') => ticked'[cache'] >= cacheAt')
  BY <1>1 DEF SeenInv
<1>7. \A d \in Status!Callers :
       /\ asker'[d].start <= now'
       /\ Status!Refuses(asker'[d].saw) =>
            /\ asker'[d].at \in {"details", "arrives"} => ticked'[asker'[d].saw] >= asker'[d].start
            /\ asker'[d].at = "done" => ticked'[asker'[d].saw] > asker'[d].start - CacheTime
            /\ asker'[d].at = "done" /\ d \in Healths => ticked'[asker'[d].saw] >= asker'[d].start
  BY <1>5 DEF SeenBy
<1> QED BY <1>4, <1>6, <1>7 DEF StatusInv, SeenInv

LEMMA StatusKeeps ==
  ASSUME StatusInv, [Status!Next]_(Status!vars)
  PROVE  StatusInv'
<1>1. SeenInv /\ Status!TypeOK BY DEF StatusInv
<1>2. /\ now \in 0 .. MaxTime /\ cacheAt \in 0 .. MaxTime /\ model \in Status!Servers /\ changes \in 0 .. MaxChanges
      /\ ticked \in [Status!Servers -> 0 .. MaxTime \cup {Status!Never}]
      /\ cache \in Status!Statuses \cup {Status!NoStatus} /\ asker \in [Status!Callers -> Asking]
  BY <1>1, StatusTypes, StatusConstants
<1>3. ticked[model] = now /\ \A s \in Status!Servers : ticked[s] <= now /\ ticked[s] \in Int
  BY <1>1, <1>2, StatusConstants DEF SeenInv
<1>4. CASE Status!Change
  <2>1. /\ changes < MaxChanges /\ changes' = changes + 1 /\ model' \in Status!Servers \ {model}
        /\ ticked' = [ticked EXCEPT ![model'] = now]
        /\ now' = now /\ cache' = cache /\ cacheAt' = cacheAt /\ asker' = asker
    BY <1>4 DEF Status!Change
  <2>2. changes' \in 0 .. MaxChanges BY <1>2, <2>1, StatusConstants
  <2>3. ticked' \in [Status!Servers -> 0 .. MaxTime \cup {Status!Never}] BY <1>2, <2>1
  <2>4. Status!TypeOK' BY <1>2, <2>1, <2>2, <2>3, StatusConstants DEF Status!TypeOK, Asking
  <2>5. ASSUME NEW s \in Status!Servers
        PROVE  ticked'[s] \in Int /\ ticked'[s] >= ticked[s] /\ ticked'[s] <= now'
    <3>1. CASE s = model'
      <4>1. ticked'[s] = now BY <1>2, <2>1, <3>1
      <4> QED BY <1>2, <1>3, <2>1, <4>1, StatusConstants
    <3>2. CASE s # model'
      <4>1. ticked'[s] = ticked[s] BY <1>2, <2>1, <3>2
      <4> QED BY <1>3, <2>1, <4>1
    <3> QED BY <3>1, <3>2
  <2>6. ticked'[model'] = now' BY <1>2, <2>1
  <2>7. now <= now' BY <1>2, <2>1, StatusConstants
  <2>8. SeenInv' BY <2>1, <2>4, <2>5, <2>6, <2>7, LaterIsNoLoss
  <2> QED BY <2>4, <2>8 DEF StatusInv
<1>5. CASE Status!Tick
  <2>1. /\ now < MaxTime /\ now' = now + 1 /\ ticked' = [ticked EXCEPT ![model] = now + 1]
        /\ model' = model /\ changes' = changes /\ cache' = cache /\ cacheAt' = cacheAt /\ asker' = asker
    BY <1>5 DEF Status!Tick
  <2>2. now + 1 \in 0 .. MaxTime /\ now \in Int BY <1>2, <2>1, StatusConstants
  <2>3. ticked' \in [Status!Servers -> 0 .. MaxTime \cup {Status!Never}] BY <1>2, <2>1, <2>2
  <2>4. Status!TypeOK' BY <1>2, <2>1, <2>2, <2>3, StatusConstants DEF Status!TypeOK, Asking
  <2>5. ASSUME NEW s \in Status!Servers
        PROVE  ticked'[s] \in Int /\ ticked'[s] >= ticked[s] /\ ticked'[s] <= now'
    <3>1. CASE s = model
      <4>1. ticked'[s] = now + 1 /\ ticked[s] = now BY <1>2, <1>3, <2>1, <3>1
      <4> QED BY <2>1, <2>2, <4>1
    <3>2. CASE s # model
      <4>1. ticked'[s] = ticked[s] BY <1>2, <2>1, <3>2
      <4>2. ticked[s] <= now /\ ticked[s] \in Int BY <1>3
      <4> QED BY <2>1, <2>2, <4>1, <4>2
    <3> QED BY <3>1, <3>2
  <2>6. ticked'[model'] = now' BY <1>2, <2>1
  <2>7. now <= now' BY <2>1, <2>2
  <2>8. SeenInv' BY <2>1, <2>4, <2>5, <2>6, <2>7, LaterIsNoLoss
  <2> QED BY <2>4, <2>8 DEF StatusInv
<1>6. ASSUME NEW c \in Status!Callers, Status!Begin(c) PROVE StatusInv'
  <2> DEFINE a == IF Status!Usable(c) THEN [at |-> "done", start |-> now, call |-> 0, saw |-> cache]
                  ELSE [at |-> "lists", start |-> now, call |-> now, saw |-> Status!NoStatus]
  <2>1. /\ asker' = [asker EXCEPT ![c] = a]
        /\ now' = now /\ model' = model /\ changes' = changes /\ ticked' = ticked /\ cache' = cache /\ cacheAt' = cacheAt
    BY <1>6 DEF Status!Begin
  <2>2. now \in Status!Times /\ 0 \in Status!Times BY <1>2, StatusConstants
  <2>3. a \in Asking BY <1>2, <2>2 DEF Asking
  <2>4. SeenBy(c, a)
    <3>1. CASE Status!Usable(c)
      <4>1. a = [at |-> "done", start |-> now, call |-> 0, saw |-> cache] BY <3>1
      <4>2. c \notin Healths /\ now - cacheAt < CacheTime BY <3>1 DEF Status!Usable
      <4>3. ASSUME Status!Refuses(cache) PROVE ticked[cache] > now - CacheTime
        <5>1. cache \in Status!Servers BY <4>3, StatusConstants DEF Status!Refuses
        <5>2. ticked[cache] >= cacheAt /\ ticked[cache] \in Int BY <1>1, <1>3, <4>3, <5>1 DEF SeenInv
        <5> DEFINE old == ticked[cache]
        <5>3. old >= cacheAt /\ old \in Int BY <5>2
        <5> HIDE DEF old
        <5>4. old > now - CacheTime BY <1>2, <4>2, <5>3, StatusConstants
        <5> QED BY <5>4 DEF old
      <4>4. now <= now BY <1>2, StatusConstants
      <4> HIDE DEF a
      <4> QED BY <4>1, <4>2, <4>3, <4>4 DEF SeenBy
    <3>2. CASE ~Status!Usable(c)
      <4>1. a = [at |-> "lists", start |-> now, call |-> now, saw |-> Status!NoStatus] BY <3>2
      <4>2. now <= now BY <1>2, StatusConstants
      <4> HIDE DEF a
      <4> QED BY <4>1, <4>2 DEF SeenBy
    <3> QED BY <3>1, <3>2
  <2> HIDE DEF a
  <2> QED BY <2>1, <2>3, <2>4, OneAsks
<1>7. ASSUME NEW c \in Status!Callers, Status!ListAnswers(c) PROVE StatusInv'
  <2>1. PICK s \in Status!ListSays : asker' = [asker EXCEPT ![c].at = "details", ![c].call = now, ![c].saw = s]
    BY <1>7 DEF Status!ListAnswers
  <2> DEFINE a == [asker[c] EXCEPT !.at = "details", !.call = now, !.saw = s]
  <2>2. now \in Status!Times /\ asker[c] \in Asking BY <1>2, StatusConstants
  <2>3. /\ asker' = [asker EXCEPT ![c] = a]
        /\ now' = now /\ model' = model /\ changes' = changes /\ ticked' = ticked /\ cache' = cache /\ cacheAt' = cacheAt
    BY <1>2, <1>7, <2>1, <2>2 DEF Status!ListAnswers, Asking
  <2>4. s \in Status!Statuses /\ (Status!Refuses(s) => s = model)
    BY <1>2, <2>1, StatusConstants DEF Status!ListSays, Status!Refuses
  <2>5. a \in Asking BY <2>2, <2>4 DEF Asking
  <2>6. a.at = "details" /\ a.start = asker[c].start /\ a.saw = s BY <2>2 DEF Asking
  <2>7. asker[c].start <= now /\ asker[c].start \in Status!Times BY <1>1, <2>2 DEF SeenInv, Asking
  <2> HIDE DEF a
  <2>8. SeenBy(c, a)
    <3>1. Status!Refuses(s) => ticked[s] = now BY <1>3, <2>4
    <3>2. now >= asker[c].start BY <1>2, <2>7, StatusConstants
    <3>3. Status!Refuses(s) => ticked[s] >= asker[c].start BY <3>1, <3>2
    <3> QED BY <2>6, <2>7, <3>3 DEF SeenBy
  <2> QED BY <2>3, <2>5, <2>8, OneAsks
<1>8. ASSUME NEW c \in Status!Callers, Status!Observe(c) PROVE StatusInv'
  <2>1. PICK s \in Status!Found(c) : asker' = [asker EXCEPT ![c].at = "arrives", ![c].saw = s]
    BY <1>8 DEF Status!Observe
  <2> DEFINE a == [asker[c] EXCEPT !.at = "arrives", !.saw = s]
  <2>2. asker[c] \in Asking BY <1>2
  <2>3. /\ asker' = [asker EXCEPT ![c] = a]
        /\ now' = now /\ model' = model /\ changes' = changes /\ ticked' = ticked /\ cache' = cache /\ cacheAt' = cacheAt
    BY <1>2, <1>8, <2>1, <2>2 DEF Status!Observe, Asking
  <2>4. /\ s \in Status!Statuses \cup {Status!NoStatus}
        /\ Status!Refuses(s) => s = model \/ (asker[c].at = "details" /\ s = asker[c].saw)
    <3>1. CASE asker[c].at = "lists" BY <1>2, <2>1, <3>1, StatusConstants DEF Status!Found
    <3>2. CASE asker[c].at = "details"
      <4>1. s = model \/ s = asker[c].saw BY <2>1, <3>2 DEF Status!Found
      <4>2. asker[c].saw \in Status!Statuses \cup {Status!NoStatus} BY <2>2 DEF Asking
      <4> QED BY <1>2, <3>2, <4>1, <4>2, StatusConstants
    <3>3. CASE asker[c].at \notin {"lists", "details"} BY <2>1, <3>3 DEF Status!Found
    <3> QED BY <3>1, <3>2, <3>3
  <2>5. a \in Asking BY <2>2, <2>4 DEF Asking
  <2>6. a.at = "arrives" /\ a.start = asker[c].start /\ a.saw = s BY <2>2 DEF Asking
  <2>7. asker[c].start <= now /\ asker[c].start \in Status!Times BY <1>1, <2>2 DEF SeenInv, Asking
  <2> HIDE DEF a
  <2>8. SeenBy(c, a)
    <3>1. Status!Refuses(s) => ticked[s] >= asker[c].start
      <4>1. CASE s = model
        <5>1. ticked[s] = now BY <1>3, <4>1
        <5>2. now >= asker[c].start BY <1>2, <2>7, StatusConstants
        <5> QED BY <5>1, <5>2
      <4>2. CASE asker[c].at = "details" /\ s = asker[c].saw BY <1>1, <4>2 DEF SeenInv
      <4> QED BY <2>4, <4>1, <4>2
    <3> QED BY <2>6, <2>7, <3>1 DEF SeenBy
  <2> QED BY <2>3, <2>5, <2>8, OneAsks
<1>9. ASSUME NEW c \in Status!Callers, Status!Answer(c) PROVE StatusInv'
  <2> DEFINE a == [asker[c] EXCEPT !.at = "done", !.call = 0]
             sw == asker[c].saw
             st == asker[c].start
  <2>1. asker[c] \in Asking /\ 0 \in Status!Times BY <1>2, StatusConstants
  <2>2. /\ asker[c].at = "arrives" /\ asker' = [asker EXCEPT ![c] = a] /\ cache' = sw /\ cacheAt' = st
        /\ now' = now /\ model' = model /\ changes' = changes /\ ticked' = ticked
    BY <1>2, <1>9, <2>1 DEF Status!Answer, Status!Stamp, Asking
  <2>3. st \in Status!Times /\ sw \in Status!Statuses \cup {Status!NoStatus} BY <2>1 DEF Asking
  <2>4. st <= now /\ (Status!Refuses(sw) => ticked[sw] >= st) BY <1>1, <2>2 DEF SeenInv
  <2>5. a \in Asking /\ a.at = "done" /\ a.start = st /\ a.saw = sw BY <2>1 DEF Asking
  <2> HIDE DEF a, sw, st
  <2>6. Status!Refuses(sw) => ticked[sw] > st - CacheTime
    <3> SUFFICES ASSUME Status!Refuses(sw) PROVE ticked[sw] > st - CacheTime OBVIOUS
    <3> DEFINE old == ticked[sw]
    <3>1. old >= st BY <2>4
    <3>2. old \in Int
      <4>1. sw \in Status!Servers BY StatusConstants DEF Status!Refuses
      <4> QED BY <1>3, <4>1
    <3> HIDE DEF old
    <3>3. old > st - CacheTime BY <2>3, <3>1, <3>2, StatusConstants
    <3> QED BY <3>3 DEF old
  <2>7. SeenBy(c, a) BY <2>4, <2>5, <2>6 DEF SeenBy
  <2>8. asker' \in [Status!Callers -> Asking] BY <1>2, <2>2, <2>5
  <2>9. Status!TypeOK'
    <3>1. /\ now' \in Status!Times /\ cacheAt' \in Status!Times
          /\ model' \in Status!Servers /\ changes' \in 0 .. MaxChanges
          /\ ticked' \in [Status!Servers -> Status!Times \cup {Status!Never}]
          /\ cache' \in Status!Statuses \cup {Status!NoStatus}
      BY <1>2, <2>2, <2>3, StatusConstants
    <3> QED BY <2>8, <3>1 DEF Status!TypeOK, Asking
  <2>10. ASSUME NEW d \in Status!Callers PROVE SeenBy(d, asker'[d])
    <3>1. CASE d = c BY <1>2, <2>2, <2>7, <3>1
    <3>2. CASE d # c
      <4>1. asker'[d] = asker[d] BY <1>2, <2>2, <3>2
      <4>2. SeenBy(d, asker[d]) BY <1>1 DEF SeenInv, SeenBy
      <4> QED BY <4>1, <4>2
    <3> QED BY <3>1, <3>2
  <2>11. /\ ticked'[model'] = now' /\ \A s \in Status!Servers : ticked'[s] <= now'
         /\ cacheAt' <= now' /\ (Status!Refuses(cache') => ticked'[cache'] >= cacheAt')
    BY <1>3, <2>2, <2>4
  <2>12. \A d \in Status!Callers :
          /\ asker'[d].start <= now'
          /\ Status!Refuses(asker'[d].saw) =>
               /\ asker'[d].at \in {"details", "arrives"} => ticked'[asker'[d].saw] >= asker'[d].start
               /\ asker'[d].at = "done" => ticked'[asker'[d].saw] > asker'[d].start - CacheTime
               /\ asker'[d].at = "done" /\ d \in Healths => ticked'[asker'[d].saw] >= asker'[d].start
    BY <2>2, <2>10 DEF SeenBy
  <2> QED BY <2>9, <2>11, <2>12 DEF StatusInv, SeenInv
<1>10. CASE UNCHANGED Status!vars
  BY <1>1, <1>10 DEF Status!vars, StatusInv, SeenInv, Status!TypeOK
<1> QED BY <1>4, <1>5, <1>6, <1>7, <1>8, <1>9, <1>10 DEF Status!Next

\* A chat is refused, and the server called unhealthy, only for a state the server was in: less than the
\* cache's time before the chat came, or after the health route was asked. However slow a probe and however
\* many requests share the cache (model_status.py:87-94, openai_compat/router.py:107-119, main.py:123-131).
THEOREM RefusalsAreTrue == Status!Spec => [](Status!RefusalIsRecent /\ Status!HealthIsCurrent)
<1>1. Status!Init => StatusInv BY StatusStarts
<1>2. StatusInv /\ [Status!Next]_(Status!vars) => StatusInv' BY StatusKeeps
<1>3. StatusInv => Status!RefusalIsRecent /\ Status!HealthIsCurrent
  <2> SUFFICES ASSUME StatusInv PROVE Status!RefusalIsRecent /\ Status!HealthIsCurrent OBVIOUS
  <2>1. Chats \subseteq Status!Callers /\ Healths \subseteq Status!Callers BY DEF Status!Callers
  <2> QED BY <2>1 DEF StatusInv, SeenInv, Status!RefusalIsRecent, Status!HealthIsCurrent
<1> QED BY <1>1, <1>2, <1>3, PTL DEF Status!Spec

-----------------------------------------------------------------------------
(* The types of the other two parts: what their invariants above do not say already. *)

LineRest ==
  /\ stream \in {"open", "whole", "broken"} /\ finish \in [completed : BOOLEAN, calls : BOOLEAN]
  /\ texts <= MaxTexts /\ tools \in BOOLEAN /\ (tools => stream = "whole")

LEMMA LineStarts == Pipeline!Init => LineRest
<1> SUFFICES ASSUME Pipeline!Init PROVE LineRest OBVIOUS
<1>1. stream = "open" /\ finish = [completed |-> FALSE, calls |-> FALSE] /\ texts = 0 /\ tools = FALSE
  BY DEF Pipeline!Init
<1>2. MaxTexts \in Nat BY ServicesAssumption DEF Pipeline!PipelineAssumption
<1>3. texts <= MaxTexts BY <1>1, <1>2
<1>4. finish \in [completed : BOOLEAN, calls : BOOLEAN] BY <1>1
<1> QED BY <1>1, <1>3, <1>4 DEF LineRest

LEMMA LineKeeps == ASSUME PipelineInv, LineRest, [Pipeline!Next]_(Pipeline!vars) PROVE LineRest'
<1>1. texts \in Nat /\ MaxTexts \in Nat
  BY ServicesAssumption DEF Pipeline!PipelineAssumption, PipelineInv, LineTypes
<1>2. CASE Pipeline!Read
  <2>1. CASE Pipeline!ReadText BY <1>1, <2>1 DEF Pipeline!ReadText, Pipeline!shared, LineRest
  <2>2. CASE Pipeline!ReadReason \/ Pipeline!ReadCall
    <3>1. finish' \in [completed : BOOLEAN, calls : BOOLEAN]
      BY <2>2 DEF Pipeline!ReadReason, Pipeline!ReadCall, LineRest
    <3>2. UNCHANGED <<stream, texts, tools>>
      BY <2>2 DEF Pipeline!ReadReason, Pipeline!ReadCall, Pipeline!shared
    <3> QED BY <3>1, <3>2 DEF LineRest
  <2>3. CASE Pipeline!Eof
    <3>1. UNCHANGED <<finish, texts>> /\ stream = "open" BY <2>3 DEF Pipeline!Eof
    <3>2. finish.completed \in BOOLEAN /\ finish.calls \in BOOLEAN BY DEF LineRest
    <3>3. \/ stream' = "whole" /\ tools' = finish.calls
          \/ stream' = "broken" /\ tools' = tools
      BY <2>3 DEF Pipeline!Eof
    <3>4. tools = FALSE BY <3>1 DEF LineRest
    <3> QED BY <3>1, <3>2, <3>3, <3>4 DEF LineRest
  <2>4. CASE Pipeline!Breaks BY <2>4 DEF Pipeline!Breaks, LineRest
  <2> QED BY <1>2, <2>1, <2>2, <2>3, <2>4 DEF Pipeline!Read
<1>3. CASE UNCHANGED <<stream, finish, texts, tools>> BY <1>3 DEF LineRest
<1>4. CASE Pipeline!Aggregate BY <1>3, <1>4 DEF Pipeline!Aggregate, Pipeline!shared
<1>5. CASE Pipeline!Speak \/ Pipeline!Play
  BY <1>3, <1>5 DEF Pipeline!Speak, Pipeline!Play, Pipeline!Take, Pipeline!Spoken, Pipeline!SpokenNothing,
                    Pipeline!Played, Pipeline!Raises, Pipeline!shared
<1>6. CASE Pipeline!Collapses BY <1>3, <1>6 DEF Pipeline!Collapses
<1>7. CASE Pipeline!Completes \/ Pipeline!Leaves \/ Pipeline!Cancel
  BY <1>3, <1>7 DEF Pipeline!Completes, Pipeline!Leaves, Pipeline!Cancel, Pipeline!shared
<1>8. CASE UNCHANGED Pipeline!vars BY <1>3, <1>8 DEF Pipeline!vars, Pipeline!shared
<1> QED BY <1>2, <1>4, <1>5, <1>6, <1>7, <1>8 DEF Pipeline!Next

LEMMA LineTyped == PipelineInv /\ LineRest => Pipeline!TypeOK
<1> SUFFICES ASSUME PipelineInv, LineRest PROVE Pipeline!TypeOK OBVIOUS
<1>1. texts \in 0 .. MaxTexts
  BY ServicesAssumption DEF Pipeline!PipelineAssumption, PipelineInv, LineTypes, LineRest
<1>2. gen \in {"reading", "over"} /\ (gen = "over" <=> stream # "open") /\ (framework => error)
  BY DEF PipelineInv, LineTypes
<1>3. {error, framework, completed, tools} \subseteq BOOLEAN BY DEF PipelineInv, LineTypes, LineRest
<1>4. DOMAIN q = Pipeline!Queues /\ DOMAIN busy = {"speak", "play"} BY DEF PipelineInv, LineTypes
<1>5. turn \in {"waits", "drains"} \cup Pipeline!Over BY DEF PipelineInv, CallerWaits
<1> QED BY <1>1, <1>2, <1>3, <1>4, <1>5 DEF LineRest, Pipeline!TypeOK

TextFits == Len(text) <= MaxText

LEMMA TextKeeps == ASSUME SplitInv, TextFits, [Split!Next]_(Split!vars) PROVE TextFits'
<1>1. CASE Split!Feed
  <2>1. PICK token \in Split!Tokens : Len(text) + Len(token) <= MaxText /\ text' = text \o token
    BY <1>1 DEF Split!Feed
  <2>2. token \in Text
    <3>1. PICK n \in 1 .. 2 : token \in [1 .. n -> Split!Chars] BY DEF Split!Tokens
    <3>2. n \in Nat BY <3>1
    <3> QED BY <3>1, <3>2, SeqDef DEF Text
  <2>3. Len(text') = Len(text) + Len(token) BY <2>1, <2>2, ConcatProperties DEF SplitInv, Text
  <2> QED BY <2>1, <2>3 DEF TextFits
<1>2. CASE Split!Split \/ Split!Flush \/ UNCHANGED Split!vars
  BY <1>2 DEF Split!Split, Split!Flush, Split!vars, TextFits
<1> QED BY <1>1, <1>2 DEF Split!Next

\* Phrases end one after the other, the last of them where the buffer starts.
LEMMA CutsRise ==
  ASSUME SplitInv, NEW k \in 1 .. Len(cuts)
  PROVE  cuts[k] <= Split!Start - 1
<1> DEFINE m == Len(cuts)
           Over == {j \in 1 .. m : cuts[j] > cuts[m]}
<1>1. m \in Nat BY BufferIs
<1>2. \A j \in 1 .. m : cuts[j] \in Nat BY ElementOfSeq DEF SplitInv
<1>3. m \in 1 .. m /\ m + 1 # 1 /\ (m + 1) - 1 = m BY <1>1
<1>4. Split!Start = cuts[m] + 1 BY <1>3 DEF Split!Start, Split!From
<1>5. Over = {}
  <2> SUFFICES ASSUME Over # {} PROVE FALSE OBVIOUS
  <2>1. Over \in SUBSET (1 .. m) OBVIOUS
  <2> HIDE DEF m, Over
  <2>2. PICK i \in Over : \A j \in Over : j <= i BY <1>1, <2>1, GreatestOf
  <2>3. i \in 1 .. m /\ cuts[i] > cuts[m] BY <2>1 DEF Over
  <2>4. i # m BY <1>2, <1>3, <2>3
  <2>5. i + 1 \in 1 .. m /\ i + 1 # 1 /\ (i + 1) - 1 = i /\ ~(i + 1 <= i) BY <1>1, <2>3, <2>4
  <2>6. Split!From(i + 1) = cuts[i] + 1 BY <2>5 DEF Split!From
  <2>7. Split!From(i + 1) \in 1 .. cuts[i + 1] BY <2>5 DEF SplitInv, Phrase, m
  <2>8. cuts[i + 1] > cuts[m] BY <1>2, <1>3, <2>3, <2>5, <2>6, <2>7
  <2>9. i + 1 \in Over BY <2>5, <2>8 DEF Over
  <2> QED BY <2>2, <2>5, <2>9
<1>6. ~(cuts[k] > cuts[m]) BY <1>5
<1>7. cuts[k] \in Nat /\ cuts[m] \in Nat BY <1>2, <1>3
<1> HIDE DEF m
<1>8. cuts[k] <= cuts[m] BY <1>6, <1>7
<1> QED BY <1>4, <1>7, <1>8

LEMMA SplitTyped == SplitInv /\ TextFits => Split!TypeOK
<1> SUFFICES ASSUME SplitInv, TextFits PROVE Split!TypeOK OBVIOUS
<1>1. DOMAIN cuts = 1 .. Len(cuts) BY LenProperties DEF SplitInv
<1>2. ASSUME NEW k \in 1 .. Len(cuts) PROVE Phrase(text, Split!From(k), cuts[k]) BY DEF SplitInv
<1>3. ASSUME NEW k \in 1 .. Len(cuts) PROVE cuts[k] \in Split!From(k) .. Len(text)
  <2>1. Split!From(k) \in 1 .. cuts[k] /\ cuts[k] \in 1 .. Len(text) BY <1>2 DEF Phrase
  <2> QED BY <2>1
<1>4. ASSUME first, ~flushed, NEW k \in 1 .. Len(cuts) PROVE Split!IsBlank(Split!Raw(k))
  <2>1. BlankTo(text, Split!Start - 1) BY <1>4 DEF SplitInv
  <2>2. Split!From(k) \in 1 .. cuts[k] /\ cuts[k] \in 1 .. Len(text) BY <1>2 DEF Phrase
  <2>3. cuts[k] <= Split!Start - 1 /\ Split!Start \in Nat /\ Len(text) \in Nat /\ text \in Text
    <3>1. Split!Start \in 1 .. Len(text) + 1 /\ Len(text) \in Nat BY BufferIs
    <3> QED BY <3>1, CutsRise DEF SplitInv
  <2> DEFINE a == Split!From(k)
             c == cuts[k]
  <2>4. a \in 1 .. Len(text) + 1 /\ c \in a - 1 .. Len(text) BY <2>2, <2>3
  <2>5. \A i \in 1 .. c - a + 1 : a + i - 1 \in 1 .. Split!Start - 1 BY <2>2, <2>3
  <2>6. Split!Raw(k) = SubSeq(text, a, c) BY DEF Split!Raw
  <2> HIDE DEF a, c
  <2>7. /\ SubSeq(text, a, c) \in Text /\ Len(SubSeq(text, a, c)) = c - a + 1
        /\ \A i \in 1 .. c - a + 1 : SubSeq(text, a, c)[i] = text[a + i - 1]
    BY <2>3, <2>4, PartOf
  <2>8. \A i \in 1 .. Len(SubSeq(text, a, c)) : SubSeq(text, a, c)[i] = "blank"
    BY <2>1, <2>5, <2>7 DEF BlankTo
  <2> QED BY <2>6, <2>7, <2>8, BlankText
<1>5. text \in Seq(Split!Chars) /\ {first, flushed} \subseteq BOOLEAN BY DEF SplitInv, Text
<1> QED BY <1>1, <1>3, <1>4, <1>5 DEF Split!TypeOK, TextFits

\* Every part of a call's services stays in its type: no count, queue, segment, phrase or time leaves its
\* bounds, whatever is asked, fails or is cancelled (engine.py, stt.py, vad.py, pipecat_voice.py, stream.py,
\* model_status.py).
THEOREM ServicesKeepTheirTypes == Together => []TypesHold
<1>1. Pipeline!Spec => []Pipeline!TypeOK
  <2>1. PipelineInv /\ [Pipeline!Next]_(Pipeline!vars) => PipelineInv'
    <3>1. Pipeline!vars' = Pipeline!vars => UNCHANGED pipelineVars
      BY DEF Pipeline!vars, Pipeline!chain, Pipeline!shared, Pipeline!past, pipelineVars
    <3> QED BY <3>1, PipelineSteps
  <2> QED BY PipelineStarts, LineStarts, <2>1, LineKeeps, LineTyped, PTL DEF Pipeline!Spec
<1>2. Split!Spec => []Split!TypeOK
  <2>1. SplitInv /\ [Split!Next]_(Split!vars) => SplitInv'
    <3>1. Split!vars' = Split!vars => UNCHANGED splitVars BY DEF Split!vars, splitVars
    <3> QED BY <3>1, SplitSteps
  <2>2. Split!Init => TextFits
    <3>1. Len(<<>>) = 0 /\ MaxText \in Nat
      BY EmptySeq, ServicesAssumption DEF Split!SplitterAssumption
    <3> QED BY <3>1 DEF Split!Init, TextFits
  <2> QED BY SplitStarts, <2>1, <2>2, TextKeeps, SplitTyped, PTL DEF Split!Spec
<1>3. Listen!Spec => []Listen!TypeOK
  BY ListenStarts, ListenKeeps, ListenTypeOK, PTL DEF Listen!Spec
<1>4. Status!Spec => []Status!TypeOK
  <2>1. StatusInv => Status!TypeOK BY DEF StatusInv
  <2> QED BY StatusStarts, StatusKeeps, <2>1, PTL DEF Status!Spec
<1>5. TypesHold <=> /\ TypeOK /\ SpeechTypeOK /\ Listen!TypeOK /\ Pipeline!TypeOK
                    /\ Split!TypeOK /\ Status!TypeOK
  BY DEF TypesHold
<1>6. Together => Spec /\ SpeechSpec /\ Listen!Spec /\ Pipeline!Spec /\ Split!Spec /\ Status!Spec
  BY DEF Together
<1> QED BY <1>1, <1>2, <1>3, <1>4, <1>5, <1>6, EngineTypes, SpeechTypes, PTL
=============================================================================
