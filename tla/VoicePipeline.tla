---------------------------- MODULE VoicePipeline ----------------------------
(***************************************************************************)
(* One turn of the agent (pipecat_voice.py, speak_turn): four processors   *)
(* with a queue before each.  Generate reads the stream of the model       *)
(* (stream.py, vllm_stream), Aggregate makes phrases of its texts, Speak   *)
(* asks for their speech, Playback sends it.  They share one error, and a  *)
(* frame that says the turn is complete goes through all of them after the *)
(* last text.  The caller waits for it, or is cancelled by the customer    *)
(* who interrupts.                                                         *)
(*                                                                         *)
(* Texts are numbered; a phrase is a sequence of texts.  Where a phrase    *)
(* ends is any choice here: the splitter is the subject of Splitter.  What *)
(* the speech of a phrase is, and how failures of it are counted, is left  *)
(* to VoiceCall: here a phrase has speech, has none, or raises.            *)
(***************************************************************************)
EXTENDS Naturals, Sequences, SequencesExt

CONSTANT MaxTexts  \* bound of the run: texts of a turn

PipelineAssumption == MaxTexts \in Nat

VARIABLES
  stream,   \* "open", or how it ended: "whole", "broken"
  finish,   \* completed: a finish_reason was seen; calls: a tool was named
  texts,    \* texts that the model has sent
  gen,      \* Generate: "reading", "over"
  buffer,   \* texts the splitter holds
  q,        \* frames before Aggregate, Speak, Playback: texts, phrases, and End
  busy,     \* the phrase that is with Speak or Playback, or <<>>
  error, framework, completed, tools,  \* the state that the processors share
  caller,   \* "waits", "drains", "returned", "raised", "cancelled"
  played,   \* phrases sent to the client
  silent    \* history: phrases without speech

chain == <<q, busy, buffer>>
shared == <<error, framework, completed, tools>>
past == <<played, silent>>
vars == <<stream, finish, texts, gen, chain, shared, caller, past>>

End == <<0>>  \* TurnCompleteFrame; the texts count from 1
Queues == {"aggregate", "speak", "play"}
Over == {"returned", "raised", "cancelled"}
Running == caller \notin Over /\ ~framework

TypeOK ==
  /\ stream \in {"open", "whole", "broken"} /\ finish \in [completed : BOOLEAN, calls : BOOLEAN]
  /\ texts \in 0..MaxTexts /\ gen \in {"reading", "over"} /\ (gen = "over" <=> stream # "open")
  /\ DOMAIN q = Queues /\ DOMAIN busy = {"speak", "play"}
  /\ {error, framework, completed, tools} \subseteq BOOLEAN /\ (framework => error)
  /\ tools => stream = "whole"
  /\ caller \in {"waits", "drains"} \cup Over

Init ==
  /\ stream = "open" /\ finish = [completed |-> FALSE, calls |-> FALSE] /\ texts = 0 /\ gen = "reading"
  /\ buffer = <<>> /\ q = [x \in Queues |-> <<>>] /\ busy = [x \in {"speak", "play"} |-> <<>>]
  /\ error = FALSE /\ framework = FALSE /\ completed = FALSE /\ tools = FALSE
  /\ caller = "waits" /\ played = <<>> /\ silent = <<>>

-----------------------------------------------------------------------------
(* The stream of the model, and Generate that reads it. *)

Put(x, frame) == [q EXCEPT ![x] = Append(@, frame)]

ReadText ==
  /\ Running /\ stream = "open" /\ texts < MaxTexts /\ texts' = texts + 1 /\ q' = Put("aggregate", <<texts + 1>>)
  /\ UNCHANGED <<stream, finish, gen, busy, buffer, shared, caller, past>>

ReadReason ==
  /\ Running /\ stream = "open" /\ ~finish.completed /\ finish' = [finish EXCEPT !.completed = TRUE]
  /\ UNCHANGED <<stream, texts, gen, chain, shared, caller, past>>

ReadCall ==
  /\ Running /\ stream = "open" /\ ~finish.calls /\ finish' = [finish EXCEPT !.calls = TRUE]
  /\ UNCHANGED <<stream, texts, gen, chain, shared, caller, past>>

\* The end of the stream: without a finish_reason it is incomplete.
Eof ==
  /\ Running /\ stream = "open" /\ gen' = "over" /\ q' = Put("aggregate", End)
  /\ IF finish.completed THEN stream' = "whole" /\ tools' = finish.calls /\ UNCHANGED error
     ELSE stream' = "broken" /\ error' = TRUE /\ UNCHANGED tools
  /\ UNCHANGED <<finish, texts, busy, buffer, framework, completed, caller, past>>

\* An error of HTTP or of JSON, or a reply cut at its longest; also in the middle of a text.
Breaks ==
  /\ Running /\ stream = "open" /\ gen' = "over" /\ q' = Put("aggregate", End)
  /\ stream' = "broken" /\ error' = TRUE
  /\ UNCHANGED <<finish, texts, busy, buffer, framework, completed, tools, caller, past>>

-----------------------------------------------------------------------------
(* Aggregate *)

\* mutant: what the splitter holds at the end is left there.
AggregateKeeps ==
  LET frame == Head(q["aggregate"])
      held == buffer \o frame
  IN  /\ Running /\ q["aggregate"] # <<>>
      /\ IF frame = End
         THEN /\ buffer' = <<>> /\ q' = [q EXCEPT !["aggregate"] = Tail(@), !["speak"] = Append(@, End)]
         ELSE \E cut \in 0..Len(held) :
                /\ buffer' = SubSeq(held, cut + 1, Len(held))
                /\ q' = [q EXCEPT !["aggregate"] = Tail(@),
                         !["speak"] = IF cut > 0 THEN Append(@, SubSeq(held, 1, cut)) ELSE @]
      /\ UNCHANGED <<stream, finish, texts, gen, busy, shared, caller, past>>

\* A text may complete a phrase; the end flushes the rest; after an error texts are dropped.
Aggregate ==
  LET frame == Head(q["aggregate"])
      held == buffer \o frame
  IN  /\ Running /\ q["aggregate"] # <<>>
      /\ IF frame = End
         THEN /\ buffer' = IF error THEN buffer ELSE <<>>
              /\ q' = [q EXCEPT !["aggregate"] = Tail(@),
                       !["speak"] = IF error \/ buffer = <<>> THEN Append(@, End) ELSE @ \o <<buffer, End>>]
         ELSE IF error THEN q' = [q EXCEPT !["aggregate"] = Tail(@)] /\ UNCHANGED buffer
         ELSE \E cut \in 0..Len(held) :
                /\ buffer' = SubSeq(held, cut + 1, Len(held))
                /\ q' = [q EXCEPT !["aggregate"] = Tail(@),
                         !["speak"] = IF cut > 0 THEN Append(@, SubSeq(held, 1, cut)) ELSE @]
      /\ UNCHANGED <<stream, finish, texts, gen, busy, shared, caller, past>>

-----------------------------------------------------------------------------
(* Speak and Playback: each takes a frame, waits, and is done with it. *)

Take(x) ==
  LET frame == Head(q[x])
  IN  /\ Running /\ busy[x] = <<>> /\ q[x] # <<>>
      /\ q' = [q EXCEPT ![x] = Tail(@)]
      /\ busy' = IF error /\ frame # End THEN busy ELSE [busy EXCEPT ![x] = frame]
      /\ UNCHANGED <<stream, finish, texts, gen, buffer, shared, caller, past>>

Spoken ==
  /\ Running /\ busy["speak"] # <<>> /\ busy' = [busy EXCEPT !["speak"] = <<>>] /\ q' = Put("play", busy["speak"])
  /\ UNCHANGED <<stream, finish, texts, gen, buffer, shared, caller, past>>

\* A phrase that cleaning leaves empty, that was said before, or whose speech failed once.
SpokenNothing ==
  /\ Running /\ busy["speak"] \notin {<<>>, End} /\ busy' = [busy EXCEPT !["speak"] = <<>>]
  /\ silent' = silent \o busy["speak"]
  /\ UNCHANGED <<stream, finish, texts, gen, q, buffer, shared, caller, played>>

Played ==
  /\ Running /\ busy["play"] # <<>> /\ busy' = [busy EXCEPT !["play"] = <<>>]
  /\ IF busy["play"] = End THEN completed' = TRUE /\ UNCHANGED played
     ELSE played' = played \o busy["play"] /\ UNCHANGED completed
  /\ UNCHANGED <<stream, finish, texts, gen, q, buffer, error, framework, tools, caller, silent>>

\* The speech fails for good, or the client cannot be sent to: later phrases are dropped.
Raises(x) ==
  /\ Running /\ busy[x] \notin {<<>>, End} /\ busy' = [busy EXCEPT ![x] = <<>>] /\ error' = TRUE
  /\ UNCHANGED <<stream, finish, texts, gen, q, buffer, framework, completed, tools, caller, past>>

\* on_pipeline_error: something else in a processor fails, and the worker is cancelled.
Collapses ==
  /\ Running /\ error' = TRUE /\ framework' = TRUE /\ completed' = TRUE
  /\ UNCHANGED <<stream, finish, texts, gen, chain, tools, caller, past>>

-----------------------------------------------------------------------------
(* The caller *)

Completes ==
  /\ caller = "waits" /\ completed /\ caller' = "drains"
  /\ UNCHANGED <<stream, finish, texts, gen, chain, shared, past>>

\* The worker has come to its end, after an EndFrame or because it was cancelled.
Leaves ==
  /\ caller = "drains" /\ caller' = IF error THEN "raised" ELSE "returned"
  /\ UNCHANGED <<stream, finish, texts, gen, chain, shared, past>>

\* The customer interrupts: the worker is cancelled and waited for, the stream closed.
Cancel ==
  /\ caller \in {"waits", "drains"} /\ caller' = "cancelled"
  /\ UNCHANGED <<stream, finish, texts, gen, chain, shared, past>>

Read == ReadText \/ ReadReason \/ ReadCall \/ Eof \/ Breaks
Speak == Take("speak") \/ Spoken \/ SpokenNothing \/ Raises("speak")
Play == Take("play") \/ Played \/ Raises("play")

Next == Read \/ Aggregate \/ Speak \/ Play \/ Collapses \/ Completes \/ Leaves \/ Cancel

Spec == Init /\ [][Next]_vars

-----------------------------------------------------------------------------
IsIncreasing(s) == \A i \in 1..(Len(s) - 1) : s[i] < s[i + 1]

\* The customer hears the texts of the model in their order and none twice,
\* however the processors run ahead of each other (pipecat_voice.py:44-119).
HeardInOrder == IsIncreasing(played)

\* A turn that returns has come to the end of a whole stream, and each of its
\* texts was sent or has no speech: nothing is left in a queue, and tools are
\* not run after a turn that was cut off (pipecat_voice.py:140-156, stream.py:155-163).
ReturnedIsWhole ==
  caller = "returned" =>
    stream = "whole" /\ ToSet(played) \cup ToSet(silent) = 1..texts

\* After an error no phrase that was still in a queue is sent to the client
\* (pipecat_voice.py:90, 111).
NothingBegunAfterError ==
  [][error /\ busy'["play"] # busy["play"] => busy'["play"] \in {<<>>, End}]_vars

\* Every turn ends, also when a processor has failed before the last text
\* (pipecat_voice.py:61, 83, 100, 117-119).
TurnEnds == <>(caller \in Over)
=============================================================================
