------------------------------ MODULE TtsPool ------------------------------
(***************************************************************************)
(* The voices that speak in all calls: _VoicePool of                       *)
(* app/features/voice_followup/tts.py and synthesize_array, which borrows  *)
(* one.  A voice is a loaded copy of the speech model; at most Size of     *)
(* them fit on the GPU.  Callers are threads of the executor and they stay *)
(* until they are done, also when the call that wanted the sound is over.  *)
(*                                                                         *)
(* A block under the condition's lock is one step, and so is a wait up to  *)
(* and after its sleep.  Loading and inference run outside the lock.       *)
(***************************************************************************)
EXTENDS Integers, Sequences, FiniteSets

CONSTANTS
  Threads,    \* threads that synthesise
  Voices,     \* copies of the model that may ever be loaded
  Size,       \* settings.tts_pool_size
  MaxJobs,    \* bound of the run: phrases per thread
  NoVoice

ASSUME PoolAssumption ==
  /\ IsFiniteSet(Threads)
  /\ Size \in Nat \ {0}
  /\ MaxJobs \in Nat
  /\ NoVoice \notin Voices

VARIABLES
  at,         \* per thread: where in synthesize_array it is
  voice,      \* per thread: inst
  jobs,       \* per thread: phrases still to come
  free,       \* _free
  created,    \* _created: places taken
  loaded,     \* _loaded
  waiters     \* threads asleep in _cond, the longest first

vars == <<at, voice, jobs, free, created, loaded, waiters>>

\* Outside; before the lock of acquire, for the first time or woken; asleep; loading a
\* model; loaded it or failed to, before the lock; speaking; done, before the lock of
\* release.
Places == {"idle", "acquire", "woken", "asleep", "loading", "made", "failed", "speaking",
           "release"}

At(place) == {t \in Threads : at[t] = place}

TypeOK ==
  /\ at \in [Threads -> Places]
  /\ voice \in [Threads -> Voices \cup {NoVoice}]
  /\ jobs \in [Threads -> Nat]
  /\ free \subseteq Voices
  /\ created \in Nat /\ loaded \in Nat
  /\ waiters \in Seq(Threads)

Init ==
  /\ at = [t \in Threads |-> "idle"]
  /\ voice = [t \in Threads |-> NoVoice]
  /\ jobs = [t \in Threads |-> MaxJobs]
  /\ free = {}
  /\ created = 0 /\ loaded = 0
  /\ waiters = <<>>

-----------------------------------------------------------------------------
Go(t, place) == at' = [at EXCEPT ![t] = place]

Unnotified(t, place) == Go(t, place) /\ UNCHANGED waiters  \* mutant: notify is forgotten
\* Thread t leaves the lock for `place` after _cond.notify(): the longest sleeper wakes.
Notify(t, place) ==
  IF waiters = <<>>
  THEN Go(t, place) /\ UNCHANGED waiters
  ELSE /\ at' = [at EXCEPT ![t] = place, ![Head(waiters)] = "woken"]
       /\ waiters' = Tail(waiters)

\* A phrase to speak.
Begin(t) ==
  /\ at[t] = "idle" /\ jobs[t] > 0
  /\ jobs' = [jobs EXCEPT ![t] = @ - 1]
  /\ Go(t, "acquire")
  /\ UNCHANGED <<voice, free, created, loaded, waiters>>

AnyPlace == created <= Size  \* mutant: off by one
HasPlace == created < Size

TakeFreeLeft(t) ==  \* mutant: the voice is read and not popped
  /\ at[t] \in {"acquire", "woken"}
  /\ \E v \in free : voice' = [voice EXCEPT ![t] = v]
  /\ Go(t, "speaking")
  /\ UNCHANGED <<jobs, free, created, loaded, waiters>>

\* One turn of the loop in acquire.  Which free voice is popped makes no difference.
TakeFree(t) ==
  /\ at[t] \in {"acquire", "woken"}
  /\ \E v \in free :
       /\ free' = free \ {v}
       /\ voice' = [voice EXCEPT ![t] = v]
  /\ Go(t, "speaking")
  /\ UNCHANGED <<jobs, created, loaded, waiters>>

TakePlace(t) ==
  /\ at[t] \in {"acquire", "woken"}
  /\ free = {} /\ HasPlace
  /\ created' = created + 1
  /\ Go(t, "loading")
  /\ UNCHANGED <<voice, jobs, free, loaded, waiters>>

Sleep(t) ==
  /\ at[t] \in {"acquire", "woken"}
  /\ free = {} /\ ~HasPlace
  /\ waiters' = Append(waiters, t)
  /\ Go(t, "asleep")
  /\ UNCHANGED <<voice, jobs, free, created, loaded>>

\* The copies that exist.
Made == {v \in Voices : v \in free \/ \E t \in Threads : voice[t] = v}

\* _create: a new copy, or ModelLoadError.
Load(t) ==
  /\ at[t] = "loading"
  /\ \/ \E v \in Voices \ Made : voice' = [voice EXCEPT ![t] = v] /\ Go(t, "made")
     \/ Go(t, "failed") /\ UNCHANGED voice
  /\ UNCHANGED <<jobs, free, created, loaded, waiters>>

CountLoaded(t) ==
  /\ at[t] = "made"
  /\ loaded' = loaded + 1
  /\ Go(t, "speaking")
  /\ UNCHANGED <<voice, jobs, free, created, waiters>>

\* The load failed: the place is free again and somebody else may try.
GivePlaceBack(t) ==
  /\ at[t] = "failed"
  /\ created' = created - 1
  /\ Notify(t, "idle")
  /\ UNCHANGED <<voice, jobs, free, loaded>>

\* infer returns or raises: release in either case.
Infer(t) ==
  /\ at[t] = "speaking"
  /\ Go(t, "release")
  /\ UNCHANGED <<voice, jobs, free, created, loaded, waiters>>

ReleasePlace(t) ==  \* mutant: the place is given back too
  /\ at[t] = "release"
  /\ free' = free \cup {voice[t]}
  /\ voice' = [voice EXCEPT ![t] = NoVoice]
  /\ created' = created - 1
  /\ Notify(t, "idle")
  /\ UNCHANGED <<jobs, loaded>>

Release(t) ==
  /\ at[t] = "release"
  /\ free' = free \cup {voice[t]}
  /\ voice' = [voice EXCEPT ![t] = NoVoice]
  /\ Notify(t, "idle")
  /\ UNCHANGED <<jobs, created, loaded>>

Step(t) ==
  \/ TakeFree(t) \/ TakePlace(t) \/ Sleep(t)
  \/ Load(t) \/ CountLoaded(t) \/ GivePlaceBack(t)
  \/ Infer(t) \/ Release(t)

Next == \E t \in Threads : Begin(t) \/ Step(t)

Spec == Init /\ [][Next]_vars

\* Threads run, a load ends and so does an inference.  The lock is not fair; the phrases of
\* a run are finite.
FairSpec == Spec /\ \A t \in Threads : WF_vars(Step(t))

-----------------------------------------------------------------------------
(* Properties *)

\* No voice speaks in two calls at once, and none that speaks is offered to another: the
\* model is not safe for concurrent use (tts.py 118-142, 199-214).
VoicesExclusive ==
  \A t \in Threads : voice[t] # NoVoice =>
    /\ voice[t] \notin free
    /\ \A u \in Threads : voice[u] = voice[t] => u = t

\* The GPU never holds more copies than were planned for, counting those still loading, and
\* after failed loads too (tts.py 118-137).
VoicesBounded == Cardinality(Made) + Cardinality(At("loading")) <= Size

\* While a thread sleeps, at least as many threads are awake and on their way into the pool
\* as there are voices and places to have: no wake-up is lost, whoever overtakes whom,
\* and a failed load wakes somebody to try again (tts.py 122-133, 139-142).
NobodyStranded ==
  waiters # <<>> => Cardinality(free) + (Size - created) <= Cardinality(At("woken"))

\* Every phrase is spoken or fails; no thread of the executor is lost (tts.py 118-142).
EveryPhraseEnds == \A t \in Threads : at[t] = "acquire" ~> at[t] = "idle"
============================================================================
