----------------------------- MODULE AudioOrder -----------------------------
(***************************************************************************)
(* The transcription of a recorded order                                   *)
(* (app/features/order_intake/transcribe.py): the file is decoded, by      *)
(* ffmpeg if need be, cut into chunks that overlap, and the text of each   *)
(* chunk is joined to the text so far where the two agree.                 *)
(*                                                                         *)
(* A recording is a sequence of words and pauses, each of some length.     *)
(* What lies inside a chunk is heard as it was said.  A word cut by the    *)
(* edge of a chunk is heard whole, not at all, or as another, of Garbles.  *)
(***************************************************************************)
EXTENDS SequencesExt, Integers

CONSTANTS
  Words, Pause,
  Garbles,   \* what may be heard in the place of a cut word; {}: it is heard whole or not at all
  Lengths,   \* lengths of words and pauses
  MaxItems,  \* bound of the run: words and pauses of a recording
  Size,      \* CHUNK_SECONDS
  Overlap,   \* OVERLAP_SECONDS
  MaxShared  \* the 40 words of merge_transcript: more than an overlap of a second has

AudioAssumption ==
  /\ Lengths \subseteq Nat \ {0} /\ {MaxItems, Size, Overlap, MaxShared} \subseteq Nat
  /\ Overlap < Size /\ 2 * Overlap <= Size /\ Overlap <= MaxShared /\ \A n \in Lengths : n <= Overlap

VARIABLES
  recording,  \* sequence of [word, length]
  phase,      \* "decode", "ffmpeg", "chunks", "done"
  ffmpeg,     \* TRUE while its process runs
  start,      \* start of the next chunk
  heardTo,    \* history: end of the last chunk, 0 before the first
  transcript, \* the text so far
  result      \* "none", then "ok", "bad_audio" (ValueError) or "error"

vars == <<recording, phase, ffmpeg, start, heardTo, transcript, result>>

Step == Size - Overlap
Items == [word : Words \cup {Pause}, length : Lengths]

\* Where each of `items` ends: 0 is the start of the first.
Ends(items) ==
  LET ends[i \in 0 .. Len(items)] == IF i = 0 THEN 0 ELSE ends[i - 1] + items[i].length IN ends
EndOf(i) == Ends(recording)[i]
StartOf(i) == Ends(recording)[i - 1]
Duration == EndOf(Len(recording))

\* The words of those of `items` that are in the set.
WordsOf(items, set) ==
  LET said[i \in 0 .. Len(items)] ==
        IF i = 0 THEN <<>>
        ELSE IF i \in set /\ items[i].word # Pause THEN Append(said[i - 1], items[i].word)
        ELSE said[i - 1]
  IN  said[Len(items)]

TypeOK ==
  /\ recording \in BoundedSeq(Items, MaxItems)
  /\ phase \in {"decode", "ffmpeg", "chunks", "done"} /\ ffmpeg \in BOOLEAN
  /\ start \in 0 .. Duration + Size /\ heardTo \in 0 .. Duration + Size
  /\ transcript \in Seq(Words \cup Garbles)
  /\ result \in {"none", "ok", "bad_audio", "error"} /\ (result = "none") = (phase # "done")

Init ==
  /\ recording \in BoundedSeq(Items, MaxItems) /\ phase = "decode" /\ ffmpeg = FALSE
  /\ start = 0 /\ heardTo = 0 /\ transcript = <<>> /\ result = "none"

End(r) == phase' = "done" /\ result' = r /\ UNCHANGED <<recording, start, heardTo, transcript>>

\* An empty recording, or one that is too long, is refused.
Decoded ==
  \/ Duration > 0 /\ phase' = "chunks" /\ UNCHANGED <<recording, start, heardTo, transcript, result>>
  \/ End("bad_audio")

Decode ==
  /\ phase = "decode"
  /\ \/ Decoded /\ UNCHANGED ffmpeg
     \/ /\ phase' = "ffmpeg" /\ ffmpeg' = TRUE
        /\ UNCHANGED <<recording, start, heardTo, transcript, result>>

\* It ends, well or badly, or its 30 s or the request are over: then it is killed.
FfmpegEnds ==
  /\ phase = "ffmpeg" /\ ffmpeg' = FALSE
  /\ Decoded \/ End("error")

\* The recording, with any of the cut words taken for others.
Misheard(cut) ==
  {[i \in 1 .. Len(recording) |->
      IF i \in DOMAIN as THEN [recording[i] EXCEPT !.word = as[i]] ELSE recording[i]] :
     as \in UNION {[some -> Garbles] : some \in SUBSET {i \in cut : recording[i].word # Pause}}}

\* What the model hears in a chunk: the words inside, and any of the words that are cut.
HeardIn(from, to) ==
  LET inside == {i \in 1 .. Len(recording) : from <= StartOf(i) /\ EndOf(i) <= to}
      cut == {i \in 1 .. Len(recording) : StartOf(i) < to /\ from < EndOf(i)} \ inside
  IN  {WordsOf(items, inside \cup more) : items \in Misheard(cut), more \in SUBSET cut}

\* The longest end of the text that begins the new one, of MaxShared words at most, is kept once.
MergeTranscript(left, right) ==
  LET same == {n \in 0 .. MaxShared :
                 /\ n <= Len(left) /\ n <= Len(right)
                 /\ SubSeq(left, Len(left) - n + 1, Len(left)) = SubSeq(right, 1, n)}
      overlap == CHOOSE n \in same : \A k \in same : k <= n
  IN  left \o SubSeq(right, overlap + 1, Len(right))

LastChunk == start + Size >= Duration

NextStart == start + Step

Chunk ==
  /\ phase = "chunks"
  /\ \E text \in HeardIn(start, start + Size) : transcript' = MergeTranscript(transcript, text)
  /\ heardTo' = start + Size /\ start' = NextStart
  /\ IF LastChunk THEN phase' = "done" /\ result' = "ok" ELSE UNCHANGED <<phase, result>>
  /\ UNCHANGED <<recording, ffmpeg>>

\* The model fails or is late: the whole transcription fails.
ChunkFails == phase = "chunks" /\ End("error") /\ UNCHANGED ffmpeg

Next == Decode \/ FfmpegEnds \/ Chunk \/ ChunkFails

Spec == Init /\ [][Next]_vars

-----------------------------------------------------------------------------
Spoken == WordsOf(recording, 1 .. Len(recording))

\* s is what is left of t when some words are left out.
Within(s, t) == \E f \in [1 .. Len(s) -> 1 .. Len(t)] :
                  /\ \A i, j \in 1 .. Len(s) : i < j => f[i] < f[j]
                  /\ \A i \in 1 .. Len(s) : s[i] = t[f[i]]

\* No word is made up, doubled or moved, also when the customer repeats himself
\* (transcribe.py 58-64).  It needs that no cut word is taken for another (Garbles = {}): of those
\* merge_transcript keeps both.
NothingAdded == Within(transcript, Spoken)

\* A word the customer says once is never lost, wherever the chunks cut the recording, and
\* no failed chunk is passed over (transcribe.py 58-64, 74-80).
WordsKept ==
  result = "ok" =>
    \A i \in DOMAIN Spoken :
      (\A j \in DOMAIN Spoken : Spoken[j] = Spoken[i] => j = i) =>
        \E k \in DOMAIN transcript : transcript[k] = Spoken[i]

\* Each chunk has sound that the chunk before had not, and the two meet (transcribe.py 72-80).
ChunksAdvance == phase = "chunks" /\ heardTo > 0 => start < heardTo /\ heardTo < Duration

\* No process of ffmpeg outlives its request (transcribe.py 43-49).
NoProcessLeft == result # "none" => ~ffmpeg

\* docs/api/orders.md 18: a recording longer than one chunk loses nothing.
\* The code does not keep this: README, section 6.
NothingLost == result = "ok" => transcript = Spoken
=============================================================================
