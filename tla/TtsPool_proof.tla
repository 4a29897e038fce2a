--------------------------- MODULE TtsPool_proof ---------------------------
(***************************************************************************)
(* Proofs about TtsPool, for any finite set of threads and any Size.       *)
(*                                                                         *)
(* The counter is right (PlaceInv), a thread has a voice exactly while it  *)
(* needs one (VoiceInv), and the sleepers are the threads in the queue     *)
(* (SleepInv).  With these NobodyStranded is inductive.                    *)
(***************************************************************************)
EXTENDS TtsPool, FiniteSetTheorems, SequenceTheorems, TLAPS

\* Threads that hold a place for which there is no voice (yet).
Trying == {t \in Threads : at[t] \in {"loading", "failed"}}

\* _created counts the voices that exist and the places held by loads.
PlaceInv ==
  /\ IsFiniteSet(Made) /\ IsFiniteSet(free)
  /\ created = Cardinality(Made) + Cardinality(Trying)
  /\ created <= Size

VoiceInv ==
  /\ \A t \in Threads : voice[t] # NoVoice <=> at[t] \in {"made", "speaking", "release"}
  /\ VoicesExclusive

\* The queue lists the sleeping threads, each once.
SleepInv ==
  /\ \A t \in Threads : at[t] = "asleep" <=> \E i \in DOMAIN waiters : waiters[i] = t
  /\ \A i, j \in DOMAIN waiters : waiters[i] = waiters[j] => i = j

PoolInv == TypeOK /\ PlaceInv /\ VoiceInv /\ SleepInv /\ NobodyStranded

-----------------------------------------------------------------------------
(* Facts about the parts of a state *)

LEMMA ThreadSets ==
  ASSUME NEW place
  PROVE  IsFiniteSet(At(place)) /\ Cardinality(At(place)) \in Nat
  BY PoolAssumption, FS_Subset, FS_CardinalityType DEF At

LEMMA TryingFinite == IsFiniteSet(Trying) /\ Cardinality(Trying) \in Nat
  BY PoolAssumption, FS_Subset, FS_CardinalityType DEF Trying

LEMMA Grows ==
  ASSUME NEW S, NEW x, IsFiniteSet(S)
  PROVE  /\ IsFiniteSet(S \cup {x})
         /\ Cardinality(S) \in Nat /\ Cardinality(S \cup {x}) \in Nat
         /\ Cardinality(S \cup {x}) <= Cardinality(S) + 1
<1>1. /\ IsFiniteSet(S \cup {x})
      /\ Cardinality(S \cup {x}) = IF x \in S THEN Cardinality(S) ELSE Cardinality(S) + 1
  BY FS_AddElement
<1>2. Cardinality(S) \in Nat
  BY FS_CardinalityType
<1> QED BY <1>1, <1>2

LEMMA Shrinks ==
  ASSUME NEW S, NEW x, IsFiniteSet(S)
  PROVE  /\ IsFiniteSet(S \ {x})
         /\ Cardinality(S) \in Nat /\ Cardinality(S \ {x}) \in Nat
         /\ Cardinality(S \ {x}) >= Cardinality(S) - 1
<1>1. /\ IsFiniteSet(S \ {x})
      /\ Cardinality(S \ {x}) = IF x \in S THEN Cardinality(S) - 1 ELSE Cardinality(S)
  BY FS_RemoveElement
<1>2. Cardinality(S) \in Nat /\ Cardinality(S \ {x}) \in Nat
  BY <1>1, FS_CardinalityType
<1> QED BY <1>1, <1>2

\* What notify does to the queue: nothing, or it takes the first sleeper out.
LEMMA QueueHead ==
  ASSUME TypeOK, SleepInv, waiters # <<>>
  PROVE  /\ Head(waiters) \in Threads
         /\ at[Head(waiters)] = "asleep"
         /\ Tail(waiters) \in Seq(Threads)
         /\ \A t \in Threads \ {Head(waiters)} :
              at[t] = "asleep" <=> \E i \in DOMAIN Tail(waiters) : Tail(waiters)[i] = t
         /\ \A i \in DOMAIN Tail(waiters) : Tail(waiters)[i] # Head(waiters)
         /\ \A i, j \in DOMAIN Tail(waiters) : Tail(waiters)[i] = Tail(waiters)[j] => i = j
<1> DEFINE n == Len(waiters)  tail == Tail(waiters)
<1>1. waiters \in Seq(Threads) /\ n \in Nat /\ n # 0 /\ DOMAIN waiters = 1..n
  BY EmptySeq, LenProperties DEF TypeOK
<1>2. Head(waiters) = waiters[1] /\ 1 \in DOMAIN waiters
  BY <1>1
<1>3. tail \in Seq(Threads) /\ DOMAIN tail = 1..(n - 1)
  BY <1>1, HeadTailProperties
<1>4. \A i \in 1..(n - 1) : tail[i] = waiters[i + 1]
  BY <1>1
<1>5. Head(waiters) \in Threads /\ at[Head(waiters)] = "asleep"
  BY <1>1, <1>2 DEF SleepInv
<1>6. \A i, j \in 1..n : waiters[i] = waiters[j] => i = j
  BY <1>1 DEF SleepInv
<1>7. \A i \in 1..(n - 1) : tail[i] # Head(waiters)
  BY <1>1, <1>2, <1>4, <1>6
<1>8. \A i, j \in 1..(n - 1) : tail[i] = tail[j] => i = j
  BY <1>1, <1>4, <1>6
<1>9. ASSUME NEW t \in Threads \ {Head(waiters)}
      PROVE  (\E i \in 1..n : waiters[i] = t) <=> (\E i \in 1..(n - 1) : tail[i] = t)
  <2>1. ASSUME NEW i \in 1..n, waiters[i] = t PROVE \E j \in 1..(n - 1) : tail[j] = t
    <3>1. i # 1
      BY <1>2, <2>1, <1>9
    <3>2. i - 1 \in 1..(n - 1) /\ tail[i - 1] = waiters[i]
      BY <3>1, <1>1, <1>4
    <3> QED BY <3>2, <2>1
  <2>2. ASSUME NEW i \in 1..(n - 1), tail[i] = t PROVE \E j \in 1..n : waiters[j] = t
    <3>1. i + 1 \in 1..n /\ waiters[i + 1] = t
      BY <2>2, <1>1, <1>4
    <3> QED BY <3>1
  <2> QED BY <2>1, <2>2
<1>10. \A t \in Threads \ {Head(waiters)} :
         at[t] = "asleep" <=> \E i \in 1..(n - 1) : tail[i] = t
  BY <1>9, <1>1 DEF SleepInv
<1> QED BY <1>3, <1>5, <1>7, <1>8, <1>10

\* What Notify changes: t goes idle, and at most one sleeper wakes.
LEMMA NotifyEffect ==
  ASSUME TypeOK, SleepInv, NEW t \in Threads, at[t] \in {"failed", "release"},
         Notify(t, "idle")
  PROVE  /\ at' \in [Threads -> Places] /\ waiters' \in Seq(Threads)
         /\ at'[t] = "idle"
         /\ \A u \in Threads \ {t} :
              at'[u] = at[u] \/ (at[u] = "asleep" /\ at'[u] = "woken")
         /\ SleepInv'
         /\ waiters' # <<>> => Cardinality(At("woken")') = Cardinality(At("woken")) + 1
<1>1. CASE waiters = <<>>
  <2>1. at' = [at EXCEPT ![t] = "idle"] /\ waiters' = waiters
    BY <1>1 DEF Notify, Go
  <2>2. SleepInv'
    BY <2>1 DEF SleepInv, TypeOK
  <2> QED BY <1>1, <2>1, <2>2 DEF TypeOK, Places
<1>2. CASE waiters # <<>>
  <2> DEFINE w == Head(waiters)
  <2>1. at' = [at EXCEPT ![t] = "idle", ![w] = "woken"] /\ waiters' = Tail(waiters)
    BY <1>2 DEF Notify
  <2>2. w \in Threads /\ at[w] = "asleep" /\ w # t
    BY <1>2, QueueHead
  <2> HIDE DEF w
  <2>3. at' \in [Threads -> Places] /\ at'[t] = "idle" /\ at'[w] = "woken"
    BY <2>1, <2>2 DEF TypeOK, Places
  <2>4. \A u \in Threads \ {t, w} : at'[u] = at[u]
    BY <2>1, <2>2 DEF TypeOK
  <2>5. waiters' \in Seq(Threads)
    BY <1>2, <2>1, QueueHead
  <2>6. SleepInv'
    <3>1. \A i, j \in DOMAIN waiters' : waiters'[i] = waiters'[j] => i = j
      BY <1>2, <2>1, QueueHead
    <3>2. \A i \in DOMAIN waiters' : waiters'[i] # w
      BY <1>2, <2>1, QueueHead DEF w
    <3>3. \A u \in Threads \ {w} :
            at[u] = "asleep" <=> \E i \in DOMAIN waiters' : waiters'[i] = u
      BY <1>2, <2>1, QueueHead DEF w
    <3>4. ASSUME NEW u \in Threads
          PROVE  at'[u] = "asleep" <=> \E i \in DOMAIN waiters' : waiters'[i] = u
      <4>1. CASE u = w
        BY <4>1, <3>2, <2>3
      <4>2. CASE u = t
        BY <4>2, <3>3, <2>2, <2>3
      <4>3. CASE u \notin {t, w}
        BY <4>3, <3>3, <2>4
      <4> QED BY <4>1, <4>2, <4>3
    <3> QED BY <3>1, <3>4 DEF SleepInv
  <2>7. Cardinality(At("woken")') = Cardinality(At("woken")) + 1
    <3>1. At("woken")' = At("woken") \cup {w} /\ w \notin At("woken")
      BY <2>2, <2>3, <2>4 DEF At
    <3> QED BY <3>1, ThreadSets, FS_AddElement
  <2> QED BY <2>2, <2>3, <2>4, <2>5, <2>6, <2>7
<1> QED BY <1>1, <1>2

-----------------------------------------------------------------------------
(* Each part of the invariant, step by step *)

LEMMA PoolInit == Init => PoolInv
<1> SUFFICES ASSUME Init PROVE PoolInv
  OBVIOUS
<1>1. TypeOK
  BY PoolAssumption, EmptySeq DEF Init, TypeOK, Places
<1>2. Made = {} /\ Trying = {} /\ free = {}
  BY PoolAssumption DEF Init, Made, Trying
<1>3. PlaceInv
  BY <1>2, FS_EmptySet, PoolAssumption DEF Init, PlaceInv
<1>4. VoiceInv
  BY DEF Init, VoiceInv, VoicesExclusive
<1>5. SleepInv
  BY DEF Init, SleepInv
<1>6. NobodyStranded
  BY DEF Init, NobodyStranded
<1> QED BY <1>1, <1>3, <1>4, <1>5, <1>6 DEF PoolInv

\* Who has a voice, and which.
LEMMA VoiceStep ==
  ASSUME TypeOK, VoiceInv, SleepInv, Next
  PROVE  VoiceInv'
<1> USE PoolAssumption DEF TypeOK, VoiceInv, VoicesExclusive
<1>1. PICK t \in Threads : Begin(t) \/ Step(t)
  BY DEF Next
<1>2. CASE Begin(t)
  BY <1>2 DEF Begin, Go
<1>3. CASE TakeFree(t)
  <2>1. PICK v \in free : /\ free' = free \ {v}
                          /\ voice' = [voice EXCEPT ![t] = v]
    BY <1>3 DEF TakeFree
  <2>2. at' = [at EXCEPT ![t] = "speaking"] /\ voice[t] = NoVoice
    BY <1>3 DEF TakeFree, Go
  <2>3. v \in Voices /\ v # NoVoice
    OBVIOUS
  <2>4. \A u \in Threads : voice'[u] # NoVoice <=> at'[u] \in {"made", "speaking", "release"}
    BY <2>1, <2>2, <2>3
  <2>5. \A u \in Threads : voice[u] # v
    BY <2>1, <2>3
  <2> QED BY <2>1, <2>2, <2>3, <2>4, <2>5
<1>4. CASE TakePlace(t)
  BY <1>4 DEF TakePlace, Go
<1>5. CASE Sleep(t)
  BY <1>5 DEF Sleep, Go
<1>6. CASE Load(t)
  <2>1. CASE \E v \in Voices \ Made : voice' = [voice EXCEPT ![t] = v] /\ Go(t, "made")
    <3>1. PICK v \in Voices \ Made : voice' = [voice EXCEPT ![t] = v] /\ Go(t, "made")
      BY <2>1
    <3>2. v \notin free /\ \A u \in Threads : voice[u] # v
      BY DEF Made
    <3>3. free' = free /\ at' = [at EXCEPT ![t] = "made"]
      BY <1>6, <3>1 DEF Load, Go
    <3>4. \A u \in Threads : voice'[u] # NoVoice <=> at'[u] \in {"made", "speaking", "release"}
      BY <3>1, <3>3
    <3> QED BY <3>1, <3>2, <3>3, <3>4
  <2>2. CASE Go(t, "failed") /\ UNCHANGED voice
    BY <1>6, <2>2 DEF Load, Go
  <2> QED BY <1>6, <2>1, <2>2 DEF Load
<1>7. CASE CountLoaded(t)
  BY <1>7 DEF CountLoaded, Go
<1>8. CASE GivePlaceBack(t)
  <2>1. at'[t] = "idle" /\ \A u \in Threads \ {t} :
           at'[u] = at[u] \/ (at[u] = "asleep" /\ at'[u] = "woken")
    BY <1>8, NotifyEffect DEF GivePlaceBack
  <2>2. voice' = voice /\ free' = free /\ at[t] = "failed"
    BY <1>8 DEF GivePlaceBack
  <2> QED BY <2>1, <2>2
<1>9. CASE Infer(t)
  BY <1>9 DEF Infer, Go
<1>10. CASE Release(t)
  <2>1. at'[t] = "idle" /\ \A u \in Threads \ {t} :
           at'[u] = at[u] \/ (at[u] = "asleep" /\ at'[u] = "woken")
    BY <1>10, NotifyEffect DEF Release
  <2>2. voice' = [voice EXCEPT ![t] = NoVoice] /\ free' = free \cup {voice[t]}
    BY <1>10 DEF Release
  <2>3. \A u \in Threads : voice'[u] # NoVoice <=> at'[u] \in {"made", "speaking", "release"}
    BY <2>1, <2>2
  <2> QED BY <2>2, <2>3
<1> QED BY <1>1, <1>2, <1>3, <1>4, <1>5, <1>6, <1>7, <1>8, <1>9, <1>10 DEF Step

\* The sleepers: only Sleep adds one, only Notify takes one out.
LEMMA SleepStep ==
  ASSUME TypeOK, SleepInv, Next
  PROVE  SleepInv'
<1> USE DEF TypeOK
<1>1. PICK t \in Threads : Begin(t) \/ Step(t)
  BY DEF Next
<1>2. CASE Sleep(t)
  <2> DEFINE n == Len(waiters)
  <2>1. at' = [at EXCEPT ![t] = "asleep"] /\ waiters' = Append(waiters, t)
    BY <1>2 DEF Sleep, Go
  <2>2. n \in Nat /\ DOMAIN waiters = 1..n /\ DOMAIN waiters' = 1..(n + 1)
    BY <2>1, LenProperties, AppendProperties
  <2>3. (\A i \in 1..n : waiters'[i] = waiters[i]) /\ waiters'[n + 1] = t
    BY <2>1, AppendProperties
  <2> HIDE DEF n
  <2>4. \A i \in 1..n : waiters[i] # t
    BY <1>2, <2>2 DEF Sleep, SleepInv
  <2>5. ASSUME NEW u \in Threads
        PROVE  at'[u] = "asleep" <=> \E i \in 1..(n + 1) : waiters'[i] = u
    <3>1. CASE u = t
      BY <3>1, <2>1, <2>2, <2>3
    <3>2. CASE u # t
      <4>1. at[u] = "asleep" <=> \E i \in 1..n : waiters[i] = u
        BY <2>2 DEF SleepInv
      <4>2. (\E i \in 1..n : waiters[i] = u) <=> \E i \in 1..(n + 1) : waiters'[i] = u
        <5>1. ASSUME NEW i \in 1..n, waiters[i] = u PROVE i \in 1..(n + 1) /\ waiters'[i] = u
          BY <5>1, <2>2, <2>3
        <5>2. ASSUME NEW i \in 1..(n + 1), waiters'[i] = u PROVE i \in 1..n /\ waiters[i] = u
          <6>1. i # n + 1
            BY <5>2, <3>2, <2>3
          <6>2. i \in 1..n
            BY <6>1, <2>2
          <6> QED BY <5>2, <6>2, <2>3
        <5> QED BY <5>1, <5>2
      <4> QED BY <3>2, <4>1, <4>2, <2>1
    <3> QED BY <3>1, <3>2
  <2>6. \A i, j \in 1..n : waiters[i] = waiters[j] => i = j
    BY <2>2 DEF SleepInv
  <2>7. \A i, j \in 1..(n + 1) : waiters'[i] = waiters'[j] => i = j
    <3> SUFFICES ASSUME NEW i \in 1..(n + 1), NEW j \in 1..(n + 1), waiters'[i] = waiters'[j]
                 PROVE  i = j
      OBVIOUS
    <3>1. \A k \in 1..(n + 1) : k \in 1..n \/ k = n + 1
      BY <2>2
    <3>2. CASE i \in 1..n /\ j \in 1..n
      BY <3>2, <2>3, <2>6
    <3>3. CASE i = n + 1 /\ j \in 1..n
      BY <3>3, <2>3, <2>4
    <3>4. CASE i \in 1..n /\ j = n + 1
      BY <3>4, <2>3, <2>4
    <3> QED BY <3>1, <3>2, <3>3, <3>4
  <2> QED BY <2>2, <2>5, <2>7 DEF SleepInv
<1>3. CASE GivePlaceBack(t) \/ Release(t)
  BY <1>3, NotifyEffect DEF GivePlaceBack, Release
<1>4. CASE \/ Begin(t) \/ TakeFree(t) \/ TakePlace(t) \/ Load(t) \/ CountLoaded(t)
           \/ Infer(t)
  <2>1. waiters' = waiters
    BY <1>4 DEF Begin, TakeFree, TakePlace, Load, CountLoaded, Infer
  <2>2. \E place \in Places \ {"asleep"} : at' = [at EXCEPT ![t] = place]
    BY <1>4 DEF Begin, TakeFree, TakePlace, Load, CountLoaded, Infer, Go, Places
  <2>3. at[t] # "asleep"
    BY <1>4 DEF Begin, TakeFree, TakePlace, Load, CountLoaded, Infer
  <2> QED BY <2>1, <2>2, <2>3 DEF SleepInv
<1> QED BY <1>1, <1>2, <1>3, <1>4 DEF Step

\* Types, given that the counter is right: no place is given back that was not taken.
LEMMA TypeStep ==
  ASSUME TypeOK, PlaceInv, SleepInv, VoiceInv, Next
  PROVE  TypeOK'
<1> USE DEF TypeOK, Places
<1>1. PICK t \in Threads : Begin(t) \/ Step(t)
  BY DEF Next
<1>2. CASE Begin(t)
  BY <1>2 DEF Begin, Go
<1>3. CASE TakeFree(t)
  BY <1>3 DEF TakeFree, Go
<1>4. CASE TakePlace(t)
  BY <1>4 DEF TakePlace, Go
<1>5. CASE Sleep(t)
  BY <1>5, AppendProperties DEF Sleep, Go
<1>6. CASE Load(t)
  BY <1>6 DEF Load, Go
<1>7. CASE CountLoaded(t)
  BY <1>7 DEF CountLoaded, Go
<1>8. CASE GivePlaceBack(t)
  <2>1. t \in Trying
    BY <1>8 DEF GivePlaceBack, Trying
  <2>2. Cardinality(Trying) >= 1
    BY <2>1, TryingFinite, FS_EmptySet
  <2>3. created' \in Nat
    BY <1>8, <2>2, TryingFinite, FS_CardinalityType DEF GivePlaceBack, PlaceInv
  <2> QED BY <1>8, <2>3, NotifyEffect DEF GivePlaceBack
<1>9. CASE Infer(t)
  BY <1>9 DEF Infer, Go
<1>10. CASE Release(t)
  <2>1. voice[t] \in Voices
    BY <1>10 DEF Release, VoiceInv
  <2> QED BY <1>10, <2>1, NotifyEffect DEF Release
<1> QED BY <1>1, <1>2, <1>3, <1>4, <1>5, <1>6, <1>7, <1>8, <1>9, <1>10 DEF Step

\* The places: a load that begins takes one, its voice keeps it, its failure returns it.
LEMMA PlaceStep ==
  ASSUME TypeOK, PlaceInv, SleepInv, VoiceInv, Next
  PROVE  PlaceInv'
<1> USE PoolAssumption DEF TypeOK
<1>0. /\ Cardinality(Made) \in Nat /\ Cardinality(Trying) \in Nat
      /\ IsFiniteSet(Made) /\ IsFiniteSet(Trying)
  BY TryingFinite, FS_CardinalityType DEF PlaceInv
<1>1. PICK t \in Threads : Begin(t) \/ Step(t)
  BY DEF Next
<1>2. CASE \/ Begin(t) \/ Sleep(t) \/ CountLoaded(t) \/ Infer(t)
  <2>1. Made' = Made /\ free' = free /\ created' = created
    BY <1>2 DEF Begin, Sleep, CountLoaded, Infer, Made
  <2>2. Trying' = Trying
    BY <1>2 DEF Begin, Sleep, CountLoaded, Infer, Go, Trying
  <2> QED BY <2>1, <2>2 DEF PlaceInv
<1>3. CASE TakeFree(t)
  <2>1. PICK v \in free : free' = free \ {v} /\ voice' = [voice EXCEPT ![t] = v]
    BY <1>3 DEF TakeFree
  <2>2. voice[t] = NoVoice
    BY <1>3 DEF TakeFree, VoiceInv
  <2>3. Made' = Made
    BY <2>1, <2>2 DEF Made
  <2>4. Trying' = Trying /\ created' = created
    BY <1>3 DEF TakeFree, Go, Trying
  <2>5. IsFiniteSet(free')
    BY <2>1, FS_RemoveElement DEF PlaceInv
  <2> QED BY <2>3, <2>4, <2>5 DEF PlaceInv
<1>4. CASE TakePlace(t)
  <2>1. Made' = Made /\ free' = free /\ created' = created + 1 /\ created < Size
    BY <1>4 DEF TakePlace, HasPlace, Made
  <2>2. Trying' = Trying \cup {t} /\ t \notin Trying
    BY <1>4 DEF TakePlace, Go, Trying
  <2>3. Cardinality(Trying') = Cardinality(Trying) + 1
    BY <2>2, TryingFinite, FS_AddElement
  <2> QED BY <1>0, <2>1, <2>3 DEF PlaceInv
<1>5. CASE Load(t)
  <2>1. CASE \E v \in Voices \ Made : voice' = [voice EXCEPT ![t] = v] /\ Go(t, "made")
    <3>1. PICK v \in Voices \ Made : voice' = [voice EXCEPT ![t] = v] /\ Go(t, "made")
      BY <2>1
    <3>2. voice[t] = NoVoice /\ free' = free /\ created' = created
      BY <1>5 DEF Load, VoiceInv
    <3>3. Made' = Made \cup {v}
      BY <3>1, <3>2 DEF Made
    <3>4. Trying' = Trying \ {t} /\ t \in Trying
      BY <1>5, <3>1 DEF Load, Go, Trying
    <3>5. IsFiniteSet(Made') /\ Cardinality(Made') = Cardinality(Made) + 1
      BY <3>1, <3>3, <1>0, FS_AddElement
    <3>6. Cardinality(Trying') = Cardinality(Trying) - 1
      BY <3>4, <1>0, FS_RemoveElement
    <3> QED BY <1>0, <3>2, <3>5, <3>6 DEF PlaceInv
  <2>2. CASE Go(t, "failed") /\ UNCHANGED voice
    <3>1. Trying' = Trying /\ Made' = Made /\ free' = free /\ created' = created
      BY <1>5, <2>2 DEF Load, Go, Trying, Made
    <3> QED BY <3>1 DEF PlaceInv
  <2> QED BY <1>5, <2>1, <2>2 DEF Load
<1>6. CASE GivePlaceBack(t)
  <2>1. at'[t] = "idle" /\ at[t] = "failed" /\ \A u \in Threads \ {t} :
           at'[u] = at[u] \/ (at[u] = "asleep" /\ at'[u] = "woken")
    BY <1>6, NotifyEffect DEF GivePlaceBack
  <2>2. Trying' = Trying \ {t} /\ t \in Trying
    BY <2>1 DEF Trying
  <2>3. Cardinality(Trying') = Cardinality(Trying) - 1
    BY <2>2, <1>0, FS_RemoveElement
  <2>4. Made' = Made /\ free' = free /\ created' = created - 1
    BY <1>6 DEF GivePlaceBack, Made
  <2> QED BY <1>0, <2>3, <2>4 DEF PlaceInv
<1>7. CASE Release(t)
  <2>1. at'[t] = "idle" /\ at[t] = "release" /\ \A u \in Threads \ {t} :
           at'[u] = at[u] \/ (at[u] = "asleep" /\ at'[u] = "woken")
    BY <1>7, NotifyEffect DEF Release
  <2>2. Trying' = Trying
    BY <2>1 DEF Trying
  <2>3. free' = free \cup {voice[t]} /\ voice' = [voice EXCEPT ![t] = NoVoice]
    BY <1>7 DEF Release
  <2>4. voice[t] \in Voices
    BY <2>1 DEF VoiceInv
  <2>5. Made' = Made
    BY <2>3, <2>4 DEF Made
  <2>6. IsFiniteSet(free \cup {voice[t]})
    BY Grows DEF PlaceInv
  <2>7. IsFiniteSet(free') /\ created' = created
    BY <1>7, <2>3, <2>6 DEF Release
  <2> QED BY <2>2, <2>5, <2>7 DEF PlaceInv
<1> QED BY <1>1, <1>2, <1>3, <1>4, <1>5, <1>6, <1>7 DEF Step

\* A sleeper is only added when there is nothing to have, and whatever becomes free wakes
\* one.
LEMMA StrandedStep ==
  ASSUME TypeOK, PlaceInv, SleepInv, VoiceInv, NobodyStranded, Next
  PROVE  NobodyStranded'
<1> USE PoolAssumption DEF TypeOK
<1> DEFINE woken == At("woken")
<1>0. /\ Cardinality(woken) \in Nat /\ IsFiniteSet(woken)
      /\ Cardinality(free) \in Nat /\ IsFiniteSet(free)
  BY ThreadSets, FS_CardinalityType DEF PlaceInv
<1>1. PICK t \in Threads : Begin(t) \/ Step(t)
  BY DEF Next
<1>2. CASE \/ Begin(t) \/ Load(t) \/ CountLoaded(t) \/ Infer(t)
  <2>1. waiters' = waiters /\ free' = free /\ created' = created
    BY <1>2 DEF Begin, Load, CountLoaded, Infer
  <2>2. woken' = woken
    BY <1>2 DEF Begin, Load, CountLoaded, Infer, Go, At
  <2> QED BY <2>1, <2>2 DEF NobodyStranded
<1>3. CASE TakeFree(t) \/ TakePlace(t)
  <2>1. woken' = woken \ {t}
    BY <1>3 DEF TakeFree, TakePlace, Go, At
  <2>2. Cardinality(woken') >= Cardinality(woken) - 1 /\ Cardinality(woken') \in Nat
    <3>1. Cardinality(woken \ {t}) >= Cardinality(woken) - 1 /\ Cardinality(woken \ {t}) \in Nat
      BY <1>0, Shrinks
    <3> QED BY <2>1, <3>1
  <2>3. Cardinality(free') + (Size - created') = Cardinality(free) + (Size - created) - 1
    <3>1. CASE TakeFree(t)
      <4>1. PICK v \in free : free' = free \ {v} /\ created' = created
        BY <3>1 DEF TakeFree
      <4>2. Cardinality(free') = Cardinality(free) - 1
        BY <4>1, <1>0, FS_RemoveElement
      <4> QED BY <4>1, <4>2, <1>0
    <3>2. CASE TakePlace(t)
      BY <3>2, <1>0 DEF TakePlace
    <3> QED BY <1>3, <3>1, <3>2
  <2>4. waiters' = waiters
    BY <1>3 DEF TakeFree, TakePlace
  <2>5. /\ created' \in Nat
        /\ Cardinality(free') \in Nat
    BY <1>3, TypeStep, PlaceStep, FS_CardinalityType DEF PlaceInv
  <2> QED BY <1>0, <2>2, <2>3, <2>4, <2>5 DEF NobodyStranded
<1>4. CASE Sleep(t)
  <2>1. free' = {} /\ created' = created /\ created = Size
    BY <1>4 DEF Sleep, HasPlace, PlaceInv
  <2>2. Cardinality(woken') \in Nat /\ Cardinality(free') = 0
    BY <2>1, FS_EmptySet, FS_CardinalityType, ThreadSets, FS_Subset DEF At
  <2> QED BY <2>1, <2>2 DEF NobodyStranded
<1>5. CASE GivePlaceBack(t) \/ Release(t)
  <2>1. waiters' # <<>> => Cardinality(woken') = Cardinality(woken) + 1
    BY <1>5, NotifyEffect DEF GivePlaceBack, Release
  <2>2. waiters' # <<>> => waiters # <<>>
    BY <1>5 DEF GivePlaceBack, Release, Notify
  <2>3. Cardinality(free') + (Size - created') <= Cardinality(free) + (Size - created) + 1
    <3>1. CASE GivePlaceBack(t)
      BY <3>1, <1>0 DEF GivePlaceBack
    <3>2. CASE Release(t)
      <4>1. free' = free \cup {voice[t]} /\ created' = created
        BY <3>2 DEF Release
      <4>2. Cardinality(free') <= Cardinality(free) + 1 /\ Cardinality(free') \in Nat
        <5>1. /\ Cardinality(free \cup {voice[t]}) \in Nat
              /\ Cardinality(free \cup {voice[t]}) <= Cardinality(free) + 1
          BY <1>0, Grows
        <5> QED BY <4>1, <5>1
      <4> QED BY <4>1, <4>2, <1>0
    <3> QED BY <1>5, <3>1, <3>2
  <2>4. created' \in Nat /\ Cardinality(free') \in Nat
    BY TypeStep, PlaceStep, FS_CardinalityType DEF PlaceInv
  <2> QED BY <1>0, <2>1, <2>2, <2>3, <2>4 DEF NobodyStranded
<1> QED BY <1>1, <1>2, <1>3, <1>4, <1>5 DEF Step

-----------------------------------------------------------------------------
(* The theorems *)

\* The counters, the voices and the queue of sleepers agree in every reachable state.
THEOREM PoolInvCorrect == Spec => []PoolInv
<1>1. PoolInv /\ [Next]_vars => PoolInv'
  <2> SUFFICES ASSUME PoolInv, [Next]_vars PROVE PoolInv'
    OBVIOUS
  <2>1. CASE Next
    BY <2>1, TypeStep, PlaceStep, VoiceStep, SleepStep, StrandedStep DEF PoolInv
  <2>2. CASE UNCHANGED vars
    BY <2>2 DEF PoolInv, vars, TypeOK, PlaceInv, VoiceInv, VoicesExclusive, SleepInv,
                NobodyStranded, Made, Trying, At
  <2> QED BY <2>1, <2>2
<1> QED BY <1>1, PoolInit, PTL DEF Spec

\* Every variable keeps its type; the number of places taken never becomes negative
\* (tts.py 118-142).
THEOREM TypeCorrect == Spec => []TypeOK
<1>1. PoolInv => TypeOK
  BY DEF PoolInv
<1> QED BY <1>1, PoolInvCorrect, PTL

\* No voice is ever shared by two threads or offered while it is used (tts.py 118-142).
THEOREM VoicesExclusiveCorrect == Spec => []VoicesExclusive
<1>1. PoolInv => VoicesExclusive
  BY DEF PoolInv, VoiceInv
<1> QED BY <1>1, PoolInvCorrect, PTL

\* Never more copies of the model than the pool's size, loads in progress included
\* (tts.py 118-137).
THEOREM VoicesBoundedCorrect == Spec => []VoicesBounded
<1>1. PoolInv => VoicesBounded
  <2> SUFFICES ASSUME PoolInv PROVE VoicesBounded
    OBVIOUS
  <2>1. At("loading") \subseteq Trying
    BY DEF At, Trying
  <2>2. Cardinality(At("loading")) <= Cardinality(Trying)
    BY <2>1, TryingFinite, FS_Subset
  <2>3. Cardinality(Made) \in Nat /\ Cardinality(Trying) \in Nat
    BY TryingFinite, FS_CardinalityType DEF PoolInv, PlaceInv
  <2> QED BY <2>2, <2>3, ThreadSets, PoolAssumption
      DEF PoolInv, PlaceInv, VoicesBounded, TypeOK
<1> QED BY <1>1, PoolInvCorrect, PTL

\* No wake-up is lost: a thread sleeps only while others are on their way to everything
\* there is to have (tts.py 122-142).
THEOREM NobodyStrandedCorrect == Spec => []NobodyStranded
<1>1. PoolInv => NobodyStranded
  BY DEF PoolInv
<1> QED BY <1>1, PoolInvCorrect, PTL
============================================================================
