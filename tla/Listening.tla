------------------------------ MODULE Listening ------------------------------
(***************************************************************************)
(* How a call hears the customer: the bytes of the WebSocket made samples  *)
(* (stream.py, _on_audio), the samples made windows and the windows turns  *)
(* (vad.py, Endpointer), the turns queued and transcribed one by one       *)
(* (stream.py, _audio_worker), and the statistics that must say why a      *)
(* customer is not heard (call_stats.py).                                  *)
(*                                                                         *)
(* Bytes and windows are numbered in the order in which they arrive; a     *)
(* segment is the sequence of the numbers of its windows.  The classifier  *)
(* is any function of the window.  Left out: resampling, gain, the level   *)
(* and the measured rate of the audio, and so their two diagnoses.         *)
(***************************************************************************)
EXTENDS Integers, Sequences

CONSTANTS
  MinSpeech, EndSilence,  \* windows of speech that start a turn, of silence that end it
  Preroll,                \* windows kept from before the speech
  MaxSegment,             \* windows of the longest segment
  BargeIn,                \* windows of speech that interrupt the agent
  Window,                 \* samples of a window
  QueueSize,              \* bound of _audio_queue
  Chunks,                 \* sizes of messages, in bytes
  MaxBytes                \* bound of the run

ListeningAssumption ==
  /\ {MinSpeech, EndSilence, MaxSegment, BargeIn, Window, QueueSize} \subseteq Nat \ {0}
  /\ Preroll \in Nat /\ MaxSegment > MinSpeech /\ Chunks \subseteq Nat /\ MaxBytes \in Nat

VARIABLES
  accepted, ending,
  bytes,       \* bytes received
  odd,         \* _odd_byte: the position of the byte, as a sequence of at most one
  pending,     \* _pending: number of samples
  ear,         \* the endpointer
  classes,     \* history: what the classifier said of each window
  emitted,     \* history: the segments of the turns, with the window that started each
  barge,       \* _barge_pending
  queue,       \* segments in _audio_queue
  transcribing,
  failures,    \* _stt_failures
  stats,       \* the counters of CallAudioStats
  shifted      \* history: a sample was made of the second byte of one and the first of the next

worker == <<transcribing, failures>>
input == <<bytes, odd, pending, ear, classes, emitted, barge, shifted>>
vars == <<accepted, ending, input, queue, worker, stats>>

Silent == [in_speech |-> FALSE, preroll |-> <<>>, segment |-> <<>>, run |-> 0, silence |-> 0, voiced |-> 0, from |-> 0]

Counters == {"ignored_bytes", "segments", "empty", "errors", "transcripts", "ignored_short", "starts"}

Init ==
  /\ accepted = FALSE /\ ending = FALSE /\ bytes = 0 /\ odd = <<>> /\ pending = 0
  /\ ear = Silent /\ classes = <<>> /\ emitted = <<>> /\ barge = FALSE
  /\ queue = 0 /\ transcribing = FALSE /\ failures = 0
  /\ stats = [c \in Counters |-> 0] /\ shifted = FALSE

TypeOK ==
  /\ {accepted, ending, barge, transcribing, shifted} \subseteq BOOLEAN
  /\ bytes \in 0..MaxBytes /\ Len(odd) <= 1 /\ pending \in 0..(Window - 1)
  /\ Len(ear.preroll) <= MinSpeech + Preroll /\ (ear.in_speech => ear.preroll = <<>>)
  /\ ear.in_speech => Len(ear.segment) <= MinSpeech + Preroll \/ Len(ear.segment) < MaxSegment
  /\ ~ear.in_speech => ear.segment = <<>> /\ ear.voiced = 0
  /\ ear.run \in 0..MinSpeech /\ ear.silence \in 0..(EndSilence - 1)
  /\ queue \in 0..QueueSize /\ failures \in 0..2 /\ stats \in [Counters -> Nat]

-----------------------------------------------------------------------------
(* Endpointer._step: one window. *)

\* mutant: one window more before a turn starts.
HearLate(e, w, speech) ==
  LET all == Append(e.preroll, w)
      kept == IF Len(all) > MinSpeech + Preroll THEN Tail(all) ELSE all
      run == IF speech THEN e.run + 1 ELSE 0
  IN  IF run > MinSpeech
      THEN [Silent EXCEPT !.in_speech = TRUE, !.segment = kept, !.run = run, !.voiced = run, !.from = w]
      ELSE [e EXCEPT !.preroll = kept, !.run = run]

\* Not in a turn: the window joins the preroll, which forgets its oldest.
Hear(e, w, speech) ==
  LET all == Append(e.preroll, w)
      kept == IF Len(all) > MinSpeech + Preroll THEN Tail(all) ELSE all
      run == IF speech THEN e.run + 1 ELSE 0
  IN  IF run >= MinSpeech
      THEN [Silent EXCEPT !.in_speech = TRUE, !.segment = kept, !.run = run, !.voiced = run, !.from = w]
      ELSE [e EXCEPT !.preroll = kept, !.run = run]

\* In a turn: the window joins the segment.
Grow(e, w, speech) ==
  [e EXCEPT !.segment = Append(@, w), !.voiced = @ + (IF speech THEN 1 ELSE 0),
            !.silence = IF speech THEN 0 ELSE @ + 1]

Ends(e) == e.silence >= EndSilence \/ Len(e.segment) >= MaxSegment

\* reset()
Reset(e) == Silent

\* Once the queue was full nothing more is done for the message.
Started(acc, agent) ==
  IF acc.full THEN acc
  ELSE [acc EXCEPT !.barge = (agent # "silent"), !.stats["starts"] = @ + 1]

\* A start while the agent may be heard is an interruption only when it lasts;
\* an end before that, while the agent goes on speaking, is dropped as noise.
Ended(acc, segment, agent) ==
  IF acc.full THEN acc
  ELSE IF acc.barge /\ agent = "speaks" THEN [acc EXCEPT !.barge = FALSE, !.stats["ignored_short"] = @ + 1]
  ELSE [acc EXCEPT !.barge = FALSE, !.stats["segments"] = @ + 1,
                   !.queue = IF acc.queue = QueueSize THEN @ ELSE @ + 1,
                   !.full = (acc.queue = QueueSize),
                   !.emitted = Append(@, segment)]

\* The endpointer after the window `speech` tells of, and what comes of its start or its end. The
\* code has the windows of a message first, and then their starts and ends: neither reads the other.
Step(acc, speech, agent) ==
  LET w == Len(acc.classes) + 1
      e == IF acc.ear.in_speech THEN Grow(acc.ear, w, speech) ELSE Hear(acc.ear, w, speech)
      heard == [acc EXCEPT !.ear = e, !.classes = Append(@, speech)]
  IN  IF acc.ear.in_speech /\ Ends(e)
      THEN Ended([heard EXCEPT !.ear = Reset(e)], [windows |-> e.segment, from |-> e.from], agent)
      ELSE IF e.in_speech /\ ~acc.ear.in_speech THEN Started(heard, agent)
      ELSE heard

-----------------------------------------------------------------------------
(* _on_audio: one message with all its windows. *)

Ignore(n) ==
  /\ ~accepted \/ ending
  /\ stats' = [stats EXCEPT !["ignored_bytes"] = @ + n]
  /\ bytes + n <= MaxBytes /\ bytes' = bytes + n
  /\ UNCHANGED <<accepted, ending, odd, pending, ear, classes, emitted, barge, queue, worker, shifted>>

\* The byte that was kept and the new ones: whole samples, and the byte that is left.
Whole(n) ==
  LET all == Len(odd) + n IN
  [samples |-> all \div 2, odd |-> IF all % 2 = 1 THEN <<bytes + n>> ELSE <<>>]

\* After the last of the windows.
Heard(speech, agent) ==
  LET after[i \in 0..Len(speech)] ==
        IF i = 0 THEN [ear |-> ear, classes |-> classes, barge |-> barge, stats |-> stats,
                       queue |-> queue, full |-> FALSE, emitted |-> emitted]
        ELSE Step(after[i - 1], speech[i], agent)
  IN  after[Len(speech)]

Hears(n, speech, agent) ==
  LET first == IF odd = <<>> THEN bytes + 1 ELSE odd[1]
      w == Whole(n)
      done == Heard(speech, agent)
  IN  /\ accepted /\ ~ending /\ bytes + n <= MaxBytes /\ bytes' = bytes + n
      /\ Len(speech) = (pending + w.samples) \div Window
      /\ odd' = w.odd /\ pending' = (pending + w.samples) % Window
      /\ shifted' = (shifted \/ (w.samples > 0 /\ first % 2 = 0))
      /\ ear' = done.ear /\ classes' = done.classes
      /\ emitted' = done.emitted /\ stats' = done.stats /\ queue' = done.queue /\ ending' = done.full
      /\ barge' = (done.barge /\ ~(done.ear.in_speech /\ done.ear.voiced >= BargeIn))
      /\ UNCHANGED <<accepted, worker>>

-----------------------------------------------------------------------------
(* The client accepts; _audio_worker, one segment at a time. *)

Accept ==
  /\ ~accepted /\ accepted' = TRUE
  /\ UNCHANGED <<ending, input, queue, worker, stats>>

\* After the end of the call segments are taken and left.
Take ==
  /\ queue > 0 /\ ~transcribing /\ queue' = queue - 1 /\ transcribing' = ~ending
  /\ UNCHANGED <<accepted, ending, input, failures, stats>>

\* An exception: the second in a row ends the call.
Fails ==
  /\ transcribing /\ transcribing' = FALSE /\ failures' = (IF failures < 2 THEN failures + 1 ELSE 2)
  /\ ending' = (ending \/ failures' = 2) /\ stats' = [stats EXCEPT !["errors"] = @ + 1]
  /\ UNCHANGED <<accepted, input, queue>>

Transcribed(counter) ==
  /\ transcribing /\ transcribing' = FALSE /\ failures' = 0 /\ stats' = [stats EXCEPT ![counter] = @ + 1]
  /\ UNCHANGED <<accepted, ending, input, queue>>

Next ==
  \/ Accept \/ Take \/ Fails \/ \E c \in {"transcripts", "empty"} : Transcribed(c)
  \/ \E n \in Chunks : \/ Ignore(n)
                       \/ \E k \in 0..((n + Window) \div Window) : \E speech \in [1..k -> BOOLEAN] :
                            \E agent \in {"speaks", "tail", "silent"} : Hears(n, speech, agent)

Spec == Init /\ [][Next]_vars

-----------------------------------------------------------------------------
(* CallAudioStats.diagnosis *)

diagnosis ==
  IF stats["transcripts"] > 0 THEN "ok"
  ELSE IF pending = 0 /\ classes = <<>> THEN "no_audio"
  ELSE IF stats["segments"] > 0 /\ stats["errors"] >= stats["segments"] THEN "stt_error"
  ELSE IF stats["segments"] > 0 /\ stats["empty"] > 0 THEN "stt_empty"
  ELSE IF classes # <<>> /\ ~\E i \in DOMAIN classes : classes[i] THEN "vad_no_speech"
  ELSE "no_speech_yet"

-----------------------------------------------------------------------------
Segments == emitted \o (IF ear.in_speech THEN <<[windows |-> ear.segment, from |-> ear.from]>> ELSE <<>>)
First(i) == Segments[i].windows[1]
Final(i) == Segments[i].windows[Len(Segments[i].windows)]

\* No window is in two segments and none is missing inside one, also across
\* messages and after a segment that was cut at its longest (vad.py:264-298).
SegmentsAreWhole ==
  \A i \in DOMAIN Segments :
    /\ \A k \in 1..(Len(Segments[i].windows) - 1) : Segments[i].windows[k + 1] = Segments[i].windows[k] + 1
    /\ i > 1 => Final(i - 1) < First(i)

\* The customer's speech reaches the transcription: unless it was dropped as an
\* echo of the agent, every MinSpeech windows of speech in a row are in a segment,
\* or begin in one that was cut at its longest (vad.py:274-298, stream.py:480-505).
SpeechIsKept ==
  stats["ignored_short"] = 0 /\ ~ending =>
    \A i \in 1..(Len(classes) - MinSpeech + 1) :
      LET speech == i..(i + MinSpeech - 1)
          covered == UNION {First(s)..Final(s) : s \in DOMAIN Segments}
      IN  (\A w \in speech : classes[w]) => speech \subseteq covered \/ i \in covered

\* A segment takes the windows of before its speech, as many as are kept and were
\* not in the segment before: the first sound is not cut (vad.py:224-225, 280-285).
PrerollIsTaken ==
  stats["ignored_short"] = 0 /\ ~ending =>
    \A i \in DOMAIN Segments :
      LET before == IF i = 1 THEN 0 ELSE Final(i - 1)
          longest == Segments[i].from - MinSpeech - Preroll
      IN  First(i) = 1 + (IF before > longest THEN before ELSE longest) \/ (First(i) = 1 /\ longest < 0)

\* When nothing is left to transcribe, and no text came of any segment, the
\* statistics blame the transcription (call_stats.py:124-140).
FailureIsNamed ==
  stats["segments"] > 0 /\ queue = 0 /\ ~transcribing /\ ~ending /\ stats["transcripts"] = 0
    => diagnosis \in {"stt_error", "stt_empty"}

\* "no_speech_yet: the call goes on, no speech up to now" (call_stats.py:13): not
\* after the customer's speech was transcribed and the transcription failed.
\* The code does not keep this: README, section 6.
NoSpeechYetIsTrue == diagnosis = "no_speech_yet" => stats["errors"] = 0

\* "The last byte completes the next message instead of being thrown away and
\* shifting every sample after it by a byte" (stream.py:468-469).
\* The code does not keep this: README, section 6.
SamplesAreAligned == ~shifted

\* Samples are aligned unless a client has sent half a sample before the call was accepted
\* (stream.py:462-472).
SamplesAreAlignedLater == ~ending /\ shifted => stats["ignored_bytes"] % 2 = 1
=============================================================================
