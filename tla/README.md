# Formal models of the Iraqi back end

This directory holds TLA+ models of the service in `src/`: the modules, the TLC
configurations that model-check them, and proofs that TLAPS checks. They cover its live
voice calls, the model clients and speech models under them, the chat and order routes,
and the correction of districts.

| file | what it is |
| --- | --- |
| `CallAdmission.tla`, `VoiceCall.tla`, `CallOutcome.tla` | how a call gets a slot, one call with all its tasks, what the application is promised of it |
| `Listening.tla`, `VoicePipeline.tla`, `Splitter.tla` | how a call hears, and how a reply is spoken |
| `SpeechService.tla`, `TtsPool.tla` | the speech models that all calls share |
| `OutcomeFiles.tla` | the directory of outcomes |
| `LlmEngine.tla`, `ModelStatus.tla` | the client of the model server, and what the chat routes know of it |
| `ChatTurn.tla`, `OperatorLoop.tla`, `CatalogTools.tla` | a chat request, a turn of the staff assistant, the tools on the store's data |
| `OrderIntake.tla`, `AudioOrder.tla` | an order from a message, and the transcription of a recorded one |
| `Locations.tla`, `LocationSearch.tla` | the index of places, and the search of a text for them |
| `VoiceServices.tla`, `RequestsAndStores.tla`, `Districts.tla` | compositions: what a voice call stands on, the requests with what is kept on the disk for them, and the correction of districts with the search for places |
| `CorrectionFlow.tla`, `Matching.tla`, `SemanticIndex.tla`, `AliasStore.tla`, `CatalogImport.tla` | district correction: a request, its rules, its index of meanings, its memory, its catalog |
| `*_proof.tla` | proofs for every value of the constants; `VoiceServices_proof.tla`, `Requests_proof.tla`, `Orders_proof.tla` and `Stores_proof.tla` are about the parts of the compositions, `Districts_proof.tla` about the parts of `Districts` |
| `MCCallAdmission.tla`, `MCVoiceCall.tla`, `MCTtsPool.tla` | instances for TLC of one component each |
| `MCVoiceServices.tla`, `MCDistricts.tla`, `MCRequestsAndStores.tla` | instances for TLC of several components that share no state |
| `PROJECT.json` | components, runs, mutants, source map, findings, hazards, theorems |

Run `tlc -config MCVoiceCall.cfg MCVoiceCall.tla` for a run and
`tlapm VoiceCall_proof.tla` for the proofs.

## 1. Inventory

The program is a FastAPI service on one asyncio loop, with a few worker threads
(speech models, SQLite, embeddings). It has no database of its own except the
SQLite file of the district aliases and a directory of outcome files.

### Voice follow-up (`app/features/voice_followup`)

| part | state | operations | interacts with |
| --- | --- | --- | --- |
| admission: `calls.py`, `router.py`, `serve` in `stream.py` | `_pending` (reservations), `_active_calls` | `start_call`, `consume_stream_id`, `serve` | readiness of engine, TTS, STT; starts `StreamCall.run` |
| session: `StreamCall` in `stream.py` | queue of speech segments, history, response task, `ending`, `_stop`, failure counters, playback clock | receive loop, audio worker, watchdog, `_respond`, `run` and its teardown | Pipecat pipeline, STT, TTS, LLM, call tools, WebSocket client |
| call tools: `call_tools.py` | `saved`, `outcome`, `end_requested` of a call | `save_outcome`, `end_call`, `verify_location`, catalog lookups, fallback | outcome store, business system, catalog, district correction |
| outcome store: `outcomes.py` | one JSON file per room | save (temporary file, replace, prune), load, get | polled by the application over HTTP |
| Pipecat pipeline: `pipecat_voice.py` | processors and queues of one turn | `speak_turn` | LLM stream, TTS, playback |
| endpointer: `vad.py` | frame counters, gain, pre-roll | `push` gives start and end events | receive loop |
| TTS pool: `tts.py` | free voices, counters of places and loads, last result | acquire, release, synthesize, warm-up | threads |
| STT: `stt.py` | loaded model, lock, last result | load, transcribe with a timeout | threads |
| health: `voice_health.py`, `call_stats.py` | warm-up state, counters of a call | warm up, verdict | TTS, STT |
| operator: `operator.py`, `operator_tools.py` | messages of one turn | tool loop, forced retries | LLM, calls |

What is hard here. Four tasks of a call share its fields and interleave at every
`await`: a customer who speaks while tools run, during the goodbye, or while the
phone still rings; responses that are cancelled but need time to stop; a save that
goes on behind a shield after its response is cancelled; a hang-up or a shutdown
between the outcome file and the flag that says it is saved; a queue that is full;
models that fail or never answer; several bridges connecting at once.

What makes it correct. Slots are counted exactly and never exceed the limit; a
reservation is used at most once, by the body it was made for; nobody hears
anything before the call is accepted; the chat history is well formed whenever the
model reads it; a response that was superseded is gone before newer speech is
understood; a saved outcome is never replaced by a fallback; every call leaves an
outcome, ends, and gives its slot back.

### The rest of the service

| part | state | operations | what would make it correct |
| --- | --- | --- | --- |
| LLM engine (`core/engine.py`, `core/model_status.py`) | `_ready`, poller task, cached status | start, poll, stream with tools, shutdown | readiness follows the server; streams are closed; tool calls are assembled whole |
| lifespan (`main.py`) | started parts | start and stop in order | what started is stopped, also when a later start fails |
| business system (`core/system_backend.py`, `voice_followup/gateway.py`, `orders/gateway.py`) | none kept | post with fallback keys and paths | no submission twice, no retry of what must not be retried |
| catalog (`core/catalog.py`) | none kept | search, pages of stock | pages are followed to the end or to the bound |
| orders (`app/orders`) | none kept | extract, resolve, submit | incomplete orders are never submitted, a failed submission never fails the reply |
| order intake (`features/order_intake`) | none kept | voice, image or text to order | limits hold; chunks cover the recording |
| sales, OpenAI-compatible chat (`features/sales`, `features/openai_compat`) | none kept | a turn with tools, one forced retry | at most one extra generation; well-formed tool calls |
| district correction (`features/district_correction`) | alias memory with its SQLite copy, catalogs, embedding vectors | correct, learn, forget, replace catalog | memory equals the file; a reviewed alias is never overridden by an automatic one |
| retrieval (`app/rag`) | read-only indexes | search | ranking only |
| text helpers (`core/text_norm.py`, `core/dialect.py`, ...) | none | rewriting of text | data only |
| configuration, keys | settings | | no behaviour |
| `training`, `scripts`, `static`, shell scripts, `docs` | | | not part of the running service |

`PROJECT.json` lists each part with its status, and under `hazards` what can go
wrong at which line.

## 2. What is modelled

### CallAdmission

An action is the code between two awaits of a request or of `serve`.
`StartCall` and `StartCallRefused` are `start_call` (`calls.py` 62-71); pruning is
part of both. `Open`, `OpenFails`, `StreamIdRefused`, `Rejected`, `Admit` and
`CallOver` are the exits and the stages of `serve` (`stream.py` 867-930). Validation,
consumption of the reservation, the limit, the readiness checks and the increment
have no await between them and are one step. `Tick` is the clock; `ReadinessFlips`
stands for everything that changes readiness. `admitted` and `asked` are
observations that no guard reads.

Abstractions: a `uuid4` value is a member of `Ids` that is drawn once. The room
name is the reservation's id; the code builds it from 8 or 12 hexadecimal digits of
a uuid, so `RoomsExclusive` is as good as those digits.

### VoiceCall

The state is that of `StreamCall`, named as in the code, with its fields reduced to
what the control reads: `stop` is `_stop` with `end_reason`; `queue` keeps of each
segment only whether it overlaps the agent's voice; `playback` is the playback clock
in the four classes the code compares it with; `resp` is where the response task
stands (in the pipeline, in the tools, in the goodbye, in `_agent_end`...), and
`cancelled` is `cancelling() > 0`; `worker` is where the audio worker stands.

| task | actions | code |
| --- | --- | --- |
| receive loop | `Accept`, `CustomerHangup`, `LineDrops`, `TaskFails`, `SpeechStart`, `BargeConfirmed`, `SpeechEnd` | `stream.py` 419-511, 552-565 |
| watchdog | `MaxDuration`, `IdleTimeout`, `ServerEndStops` | 530-548 |
| audio worker | `TakeSegment`, `YieldDone`, `SttFails`, `SttEcho`, `SttEmpty`, `SttWords`, `YieldWordsDone`, `Told`, `StartAwaited` | 567-631 |
| response | `Speak`, `TtsFails`, `TtsGivesUp`, `TtsEndStops`, `TurnDone`, `LlmFails`, `TeardownDone`, `ToolsAsked`, `RunTool`, `SaveFile`, `SubmitDone`, `ToolsDone`, `Goodbye`, `Hangup`, `GraceOver` | 633-827, `call_tools.py` 46-83 |
| `run` | `Finish`, `Finalize` | 346-417, `call_tools.py` 86-102 |
| the customer's ear | `PlaybackAdvances` | 513-519, 816 |

A transcription gives words, nothing, the agent's echo, or an error. The model
answers with any of the tool lists in `Batches`; a lookup tool, an unknown tool and
a `save_outcome` without a summary are `"other"`, which changes nothing of the call.
Faults are a constant: speech recognition, synthesis, model, disk, line, an
unexpected exception in a task, a shutdown that cancels `run`.

Simplifications a reader should know:

- A send is immediate, except that `_server_end` awaits its send before `stop`
  (`endings`, and `"ttsEnd"` for the response), and that the worker awaits the
  transcript (`"told"`). Sends elsewhere only lengthen steps that others may
  interleave with anyway, but a cancellation in the middle of one is not modelled:
  in `_server_end` of a response it would lose the stop until `max_duration`.
- `stop` wakes `run`. What another task still does before `run` is scheduled was due
  before the stop, and is in the model before the stop or while `run` drains.
- `disk` covers a write that fails, before the file is in place or after it in the
  pruning. Reads succeed; the code takes an unreadable file for an absent one, so
  that with unreadable files the fallback would replace a saved outcome.
- The room's file does not expire and is not pruned during its own call, which is
  shorter than `call_outcomes_ttl_hours`.
- The model starts after the first message to the client (`ready`, 352). A call cancelled
  during that send leaves `run` before its `try`, without an outcome.
- The content of the history is not modelled, only that tool calls and their results
  are together.

### TtsPool

`tts.py` keeps at most `tts_pool_size` loaded copies of the speech model and lends each to
one thread at a time. A block under the condition's lock is a step (`TakeFree`,
`TakePlace` and `Sleep` are one turn of the loop in `acquire`, 121-126; `CountLoaded`,
`GivePlaceBack` and `Release` the other blocks); loading (`Load`) and inference (`Infer`)
run outside it, and each may fail. `waiters` is the queue of the condition: `notify` wakes
the longest sleeper, which then competes for the lock with threads that have just come.
A cancelled call does not stop its thread, so the pool knows nothing of calls, and
`VoiceCall` sees of it only that synthesis may take long or fail. Python's condition has
no spurious wake-ups; the loop would take one for a `woken` thread.

### CallOutcome

What the application that polls is promised: `pending`, perhaps the fallback, for
good the agent's result. `VoiceCall` implements it with `status` mapped from `store`;
TLC checks this with liveness, and TLAPS proves the safety part.

### Listening, VoicePipeline, Splitter

`Listening` is the way of the customer's voice: `Hears` is one message of the WebSocket,
from its bytes (`stream.py` 462-480, an odd byte is kept for the next message) over the
windows of `Endpointer.push` (`vad.py` 224-298: the deque of the preroll, the run of
speech that begins a turn, the run of silence that ends it, the cut at the longest
segment) to the queue; `Take`, `Transcribed` and `Fails` are the worker. The windows of a
message are one pass (`Heard` is a fold of `Step` over them), as the loop in `push` has no
await. Windows are numbered, and a segment is the list of its windows, so that a lost or a doubled one
shows. Statistics and `diagnosis` are those of `call_stats.py`. The classifier is any
function of the window; gain, resampling and level are left out, and so are the two
diagnoses that read them. After a cut at the longest segment a rest shorter than
`MinSpeech` windows is lost; `SpeechIsKept` says so. A queue that is full ends the call in
the middle of a message, whose later windows reach nobody; `PrerollIsTaken` therefore
speaks of calls that are not ending.

`VoicePipeline` is `speak_turn` with its four processors (`Read`, `Aggregate`, `Speak`,
`Play`), each with a queue, the shared error, and the frame of the end that overtakes
nothing. A processor may raise or collapse, a stream may be cut off, the caller may be
cancelled. Phrases end anywhere; where they really end is the subject of `Splitter`,
which feeds tokens of any length to `SentenceSplitter` (`stream.py` 200-234). The
characters are six classes: a letter, a digit, a blank, a comma, a full stop, and any other
mark that ends a sentence. A comma inside a number may end a first phrase in the code, and does in the model. The
model was compared with the running class on all texts of up to six characters and all
their tokens (64 896 cases).

### SpeechService

One recogniser behind a lock, a pool of threads, callers with a time-out, and the
warm-up. A caller that gives up leaves its thread in the lock (`TimesOut`), or takes
its job out of the queue of the pool. `Returns` is the `except` and the end of
`transcribe_array` (`stt.py` 91-98). A call is asked for only when the models are there;
an order loads the recogniser if need be. Health is what `voice_status` computes.

### LlmEngine, ModelStatus

`LlmEngine` is the lifespan of the application and the poller, the audio warm-up and the
requests in it: `Post`, `ServerEnds`, `Cancel` and their counting (`CountEnd`) are
`_chat_completion` (`engine.py` 283-318). The server comes, goes and has or has not the
model, `MaxSwitches` times. `ModelStatus` is the cached probe of two calls that all chat
requests share, with a clock, so that "stale" has a measure. A probe keeps what the first list of
models says (`ListSays`) until the second list has answered; from then on the status is of
either of the two (`Found`).

### ChatTurn, OperatorLoop, CatalogTools

`ChatTurn` is a request of one of the three routes (`route`): `Generate` covers the
generation, the retry with a forced tool and the retry of an empty reply, `Respond` the
cleaning of tags, the parsing of calls and their ids. `OperatorLoop` is
`run_operator_turn`: calls of this server run here, those of the application go back, a
mixed reply runs the first and drops the others; a tool that raises anything but
`CatalogError` ends the request (`ToolBreaks`). `CatalogTools` has the tools both share:
`SearchProducts` starts the pages of all products at once (`ReadPage`, `ReadFails` in any
order), and the stock may change between two pages. Of a customer's orders only the first
`OrdersPage` are read (`FirstPages`, `catalog.py` 195-197), and without a phone number, or with an order's
number that is none (`NoOrder`), the catalog is not asked at all (`NothingToAsk`). Prompts, the event stream and the
formats of answers are data.

### OrderIntake, AudioOrder, Locations, LocationSearch

`OrderIntake` is the handler of `/orders/create` with its awaits (transcription, upload,
model, order system), what stands in for an answer that is no JSON, the correction of the
place, the blockers, the total and the submission. `Locations` is the index both
`OrderIntake` and `LocationSearch` read; spelling is kept to what decides a match. In the
instances "salah din" is a governorate and a district of another one, as in the data of
the service, where صلاح الدين is also a district of Erbil. `AudioOrder` decodes a
recording, cuts it and joins the chunks with `merge_transcript`, which looks for a shared end of at
most `MaxShared` words, 40 in the code. A word inside a chunk is heard as it was said. One that the
edge of a chunk cuts is heard whole, not at all, or as one of `Garbles`, a constant that the
run and the theorems about recordings leave empty (sections 6 and 7).

### CorrectionFlow, Matching, SemanticIndex, AliasStore, CatalogImport

`CorrectionFlow` is `CorrectionService.correct` in its stages: rules, semantic search,
trained model (off, shadow, decide), the LLM in batches under a semaphore and a limit,
learning. What a matcher finds is chosen freely within what its kind allows. Two failures are caught by nobody and
end the request with status 500: embeddings of different lengths (`SemanticBreaks`) and a
memory that cannot be written (`LearnFails`). `Matching`
is the rules themselves: one action per tier of `match_case`, with the text after a
center matched again. The span of an answer is the words its name was read from, those of the
center before it included. Two-word governorates, an unknown governorate, `_resegment`, HTML entities, the
folding of letters and scores of similarity are left out. It was compared with the
running `match_case` on 85 968 cases. `SemanticIndex` is the double-checked lock of
each list of names and the batches inside it. `AliasStore` is a SQLite table with a copy,
written one after the other under a lock, and read without it. `CatalogImport` is the
import of the workbooks with its one temporary file, the check of staleness at the start
of the server, and the command of an operator; files are inodes with POSIX semantics,
and times are kept as the set of the workbooks newer than a file. `Alone` keeps the
command and the server apart; without it `DatabaseIsWhole` fails (section 6).

### OutcomeFiles

`outcomes.py` as the steps that a kill of the process can come between: `Begin`, `Write`
(the temporary file), `Replace`, `Prune`, with time and number of files. The docstring
speaks of a separate worker; `start.sh` 383 starts one process, and so all of a
save is one step of the event loop but for a kill.

## 3. Runs

| run | configuration | shows |
| --- | --- | --- |
| `admission` | 3 bridges, 3 ids, 2 bodies, 2 slots, 2 reservations that live 1 tick, 2 ticks | `SlotsExact`, `LimitHolds`, `RoomsExclusive`, `ReservedBodyRuns`, `PendingBounded`, `ReservationsNotLost` |
| `call` | queue of 1, 2 tool rounds, all tool lists below, every fault but the unexpected exception, 2 utterances | the safety of a call under every interleaving |
| `call_live` | queue of 8, 1 utterance, failing synthesis, dropping line, unexpected exceptions and shutdown; fairness | the call closes, leaves an outcome, implements `CallOutcome` |
| `tts_pool` | 4 threads, 2 phrases each, 2 places, 3 copies that could be loaded | `VoicesExclusive`, `VoicesBounded`, `NobodyStranded` |
| `tts_pool_live` | 3 threads, 1 phrase each, 2 places; fairness | every phrase ends |
| `voice_services` | engine: 2 requests, the server changes twice. Speech: 1 call, 2 orders, 2 threads, warm-up on. Listening: 33 bytes in messages of 3, 8 or 11, windows of 2 samples, segments of at most 4 windows. Pipeline: 3 texts. Splitter: every text of up to 6 characters. Status: a chat and a health request, 3 ticks | `EngineSafe`, `SpeechSafe`, `HeardWhole`, `SpokenWhole`, `ServicesAnswer` |
| `districts` | flow: 2 cases of 2 governorates, 2 names, batches of 1, limit 1. Index: 3 requests, 2 lists of names, 2 batches. Matching: catalogs of up to 2 of 7 names, about 600 texts. Search: every text of up to 4 of 9 words | `RulesStand`, `MethodsBounded`, `IndexSafe`, `PlacesReadRight`, `RequestsEnd` |
| `requests_and_stores` | aliases: 2 clients, 2 texts, 2 names, 2 writes. Outcomes: 3 rooms, 2 files, 4 saves, 1 kill. Import: 2 companies, 1 edit, 1 kill, server and command. Orders: 1 request. Recordings of up to 4 words and pauses. Catalog: 3 orders, of which a page has 2, 2 products, 3 rows, pages of 1, 1 change. Operator: 3 rounds, 2 calls. Chat: texts of 2 tokens, 2 calls | `AliasesSafe`, `StoresServe`, `OrderIsWhatWasSaid`, `ToolsAreTrue`, `ConversationIsValid`, `StoresRecover` |
| `lost_turn`, `unheard`, `no_hangup`, `late_save` | small instances | a documented promise the code does not keep (section 6) |

Why the bounds are enough. *Admission*: three bridges for two slots let one be turned
away while two run; two of them can present the same reservation, and a third can
come after it expired; two bodies give a right and a wrong one; two places in the
table, ids for three, let the limit be met before and after pruning. `Ids`, `Bridges`
and `Requests` are symmetric. *Call*: the tool lists (`AllBatches`) are save, end,
other, save then end, and the like, so that a batch completes a call at its first,
its last or no tool. Two utterances are what it takes to interrupt an answer while
an older segment is waiting; with a queue of one the second one also overflows it.
Two tool rounds reach "another round" and "no more rounds". Failure counters matter
up to two. Prewarm is TRUE, as the service is deployed; the proofs cover both values. Deadlock
checking is off for calls since a closed call stops. *Pool*: two places and four threads
let two sleep at once while a third overtakes them; the third copy of the model is there
to be loaded wrongly; two phrases let a thread come back while others sleep. Threads and
voices are symmetric in the safety run. Deadlock checking is off since the phrases end;
`EveryPhraseEnds` rules out a deadlock before that.

The last three runs hold several components each. They share no state in the code,
and none is driven by another but through what its module leaves open (readiness, a
failure, a text); so a state of one says nothing of another, and exploring their product
would only repeat each of them for each state of the others. `Together` is the conjunction
of the specifications of the components, about which the theorems are stated. `InTurns` is
what the runs check: `part` chooses the component that moves, the others stay in one initial
state. A property of such a run is a conjunction of the properties of the components, which
are stated, each with its reason, in their modules. TLC sees one action, `TurnNext`, in these
runs; that each action of each component is taken was checked with TLC's coverage of the
component alone. `VoiceServices`, `RequestsAndStores` and `Districts` compose; their MC modules
give values and choose the initial state (`MCInit`).

Their bounds. *Engine*: two requests can be counted together, and two changes of the
server let it come and go. *Speech*: two threads and three jobs let a caller give up in the queue while
another holds the lock. *Listening*: 33 bytes are eight windows, enough for a
turn, its end and another one, or a cut at the longest segment and what follows; 3 and 11 are odd.
*Splitter*: the limits 2, 3 and 5 keep the order of those of the code, and six characters reach
beyond the longest. *Flow*: a limit of one for two governorates tells whether it is
counted over both. *Index*: three requests are one inside the lock, one that waits and
one that fails. *Matching*: the names have and have not a label, one is the center, one is longer
than another, two hold the same words in another order. *Search*: windows of two words, texts of up
to four; one district has three words, as some of the service have more than a window. *Import*: after one edit and one kill a server or a command still runs to the end;
one of the workbooks starts with one content, which halves the run and is reached by the edit in the other order.
*Chat*: two tokens are a tag and a word in both orders, and some texts of three have a closing tag in the middle.
*Catalog*: of three orders the first page of two leaves one out, which may be the customer's own.
*Operator*: a third round is the last, where no tool of this server is offered.

### Fairness

`FairSpec` assumes weak fairness of what the runtime does by itself: timers fire
(`MaxDuration`, `GraceOver`, playback), a send ends or times out (`ServerEndStops`,
`TtsEndStops`, `Hangup`: `_send` has a timeout), tools end (`Tool`: the submission, the
catalog, the district models all have timeouts), and `run` goes on once it is woken
(`Finish` after a stop, `Finalize`). `TeardownDone` assumes of the Pipecat library that a
cancelled runner ends. Nothing is assumed of the customer, the model's stream, the
transcription or the synthesis: they may never answer, and the call still closes, because the
watchdog does not depend on them and everything it interrupts can be interrupted.

For the pool, threads run, a load ends or fails, and so does an inference: without a
timeout in the code that is an assumption on the model's library. Python's lock is not
fair; a thread may be overtaken as long as others still have phrases, and phrases are
finite in the run.

There is one exception for calls, and TLC shows that it is needed. When the server shuts down
while tools run, the response goes on to its goodbye (669: no stop is set) while `run`
already waits for it, and synthesis in a thread has no timeout. `GoodbyeAtShutdown` assumes
that this thread comes back.

In the compositions fairness is `TurnFairness`, each part under its `part`. *Engine*: the tasks of the event loop run, and a request ends by the client's
timeout. *Speech*: a free lock is taken, a thread that has it comes back (an assumption
on the model's library), timers run. *Pipeline*: the processors run, and the stream ends or
breaks off, since the client of the model has a timeout. *Aliases, index*: who holds the lock goes on. *Import*: the
server is started again after a kill and imports; nothing is assumed of the operator who edits or commands.
*Operator*: a completion and a tool end by their timeouts. All of it is weak fairness.

## 4. Proofs

`CallAdmission_proof.tla` proves each property of the `admission` run for any finite
set of bridges and any limits. The argument:

- `SlotsExact` is inductive with `TypeOK` and needs facts on cardinality: `Admit` adds
  one bridge to `Running`, `CallOver` removes one, nothing else touches it.
- `LimitHolds` follows from it, since `Admit` tests the limit.
- `RoomsExclusive` and `ReservedBodyRuns` need `RoomsInv`: ids in reservations, in
  rooms and in `admitted` were drawn, no reservation has the id of an admitted call,
  and a reservation has one body.
- `PendingBounded` needs that reservations are finite; `ReservationsNotLost` holds of
  each action under `TypeOK`.

`VoiceCall_proof.tla` proves `[]CallInv` and from it the properties of the `call` and
the `call_live` run, except the two below. `CallInv` conjoins:

- `TypeOK`;
- `SubmitInv`: a save in flight has its response in the tools, its file in the store,
  and is not yet saved; without it nothing says that `SubmitDone` reports a stored
  outcome;
- `OutcomeInv`: what was sent is in the store, a fallback flag means a non-empty store,
  `saved` means an agent's outcome;
- `RingingInv`: before acceptance there is no sound, no segment, no tool;
- `TurnInv`: a worker that transcribes what was not overlapping has no response beside
  it, and calls without results exist only inside the tools;
- `CompletionInv`: a completed call is ending unless it is in its tools or over, the
  model is not running in it, and a worker that is about to start a response waits for
  one that is cancelled or finds the call not completed; it carries the interrupted
  tools over to the next step of the worker.

None of the properties is inductive alone: each needs the place of the *other* task,
and that is what these conjuncts record. The proof has one step per action, with the
group of variables it leaves alone handled once for all conjuncts that read only
those. `OutcomeRefined` shows that each step of a call is a step of `CallOutcome` or
leaves the outcome alone.

`TtsPool_proof.tla` proves `[]PoolInv` and from it the safety of the pool. `NobodyStranded`
says that while a thread sleeps, at least one woken thread is on its way for each free
voice and each place to have. It is not inductive alone: `Sleep` needs that no voice and
no place is left (its guard, with `created <= Size`), `Notify` needs that the first of the
queue is asleep and is queued once (`SleepInv`), so that exactly one more thread is
woken for the one voice or place more. `VoicesBounded` needs `PlaceInv`: `created` is the number of
copies and of places held by loads, also between a failed load and the block that gives
its place back.

`VoiceServices_proof.tla` has a section for each component under a call.

- *Engine*: `EngineSafe`, for any finite set of requests. `CountsAgree` needs that posted
  requests, good ends and bad ends are three disjoint sets, so that the cardinalities move
  together, and that errors are at most the failures; `LifeInv` adds that readiness comes of a
  probe and that no poller is left when the client is closed.
- *Transcriptions*: `SpeechSafe` and `NoWorkBegunLate`. A job is busy if and only if it has
  the lock, the count of loads is 1 exactly when the weights are there, a queued job still
  has its caller, and with the warm-up on a job of a call finds the weights loaded, because
  admission asked for them before.
- *Pipeline*: `HeardInOrder` and `ReturnedIsWhole`. Texts are numbered as the model sends
  them. `PipelineInv` says that the nine places a text can be in, from the client back to the
  stream, hold consecutive runs of numbers (`LineOrder`), that nothing is between them
  (`NoneLost`), that the frame of the end is behind all of them (`EndComesLast`), and that the
  caller has not returned while one is under way (`CallerWaits`). A processor moves the head
  of a place to the tail of the next.
- *Splitter*: `NothingIsHalved`, `PhrasesFit`, `AllIsSaid`, for any limits and any text.
  `SplitInv` says that each phrase fits and ends where one may end; a full stop behind a digit
  is no such place while it is the last sign that was fed, because the next token could make
  a decimal point of it.
- *Ear*: the four parts of `HeardWhole`. `ListenInv` says that since the window at which the
  ear was last silent it either waits, with no run of speech in hand long enough to begin a
  turn, or is in a turn whose windows follow each other; that the segments are ordered, have
  no window twice, and cover each run of speech; and that bytes are windows, pending samples
  and one odd byte. One window keeps it (one lemma per branch of `Step`), and by induction on
  the least window that does not, so does a message.
- *Status*: `RefusalIsRecent`, `HealthIsCurrent`. Each state of the server has the last time
  it was in it, and what a probe found was so since it began.
- *Types*: `TypesHold`. A few types are no invariants by themselves: the windows in hand are
  at most those the bytes could give, a buffer of texts is at most what is left of them, the
  cuts rise.

`Districts_proof.tla` is about the correction of districts and the search for places. It proves `IndexSafe`: who embeds has found no vectors inside the
lock of its key, and keeps them only when no batch is missing; so vectors are none or
all.

It proves `RulesStand` for any cases, names and governorates. `OpenInv` says what is left open by the rules, `SentInv` that the LLM is sent
no more than that, `DecidedInv` that in decide mode only disagreements stay open, and
`ResultInv` relates each result to its rule; each stage needs what the stage before left.
`MethodsBounded` needs two more facts. For what is learned (`LearnInv`): a case that a later
method may still answer has not been learned, and the two methods that agreed keep their votes.
For the LLM: the cases of a batch and those ahead in the budget are numbered, and numbers
below a limit are at most as many as the limit (`NumberedCases`).

The last property of that run is `PlacesReadRight` (`PlacesAreReadRight`), of two parts:

- *Matching* (`TextIsReadRight`), for any catalog, text and address. Tiers work on a part of the
  text, `lo` to `hi`, and may stop at a center to match what follows. `MatchInv` says that each word
  outside of that part is context or was read by a center that waits (`Shape`, `BasesRead`), so
  that an answer accounts for its own part only (`AnswerRead`). What is trimmed (`CleanIs`) and
  skipped (`StartsAre`) is context. A name at the start of the text is written in a window there
  (`BeginningIsWritten`), and the answer is of the window that reaches furthest: so no tier that
  guesses is asked for the whole text, and what follows a center begins behind the name
  (`NotPassed`). Where nothing but centers comes before a district, its window reaches the end of
  the text and the answer is the district (`GivesWay`).
- *Search* (`SearchIsRight`), for texts of any length. The scan is greedy (`ScannedGreedily`): of
  the windows it has taken each came before all that were left at the time, and when there was
  room for more none was left. With the order of the windows, written before guessed and long before short,
  this gives what each of the properties says.

Trimming, skipping and scanning are recursive functions. What they give is proved by induction on the
least argument for which it fails, for which no induction theorem with an operator parameter is needed.

`Requests_proof.tla` is about the tools and the chat, `Stores_proof.tla` about what is on the
disk, and `Orders_proof.tla`, on top of both, about orders and the types of all parts.

- *Operator*: `OperatorInv` says how far the results have come: those after the last message
  with calls answer them in their order, those of every earlier message are complete. From it
  `ResultsFollowCalls` and `NoServerCallLeaks`.
- *Tools*: `ToolsInv` says that the pages read so far are the first rows of the stock, and that
  a change of the stock in between is remembered; so the last page completes them.
- *Chat*: an answer is sent as the choice of the last request asked for it, and the ids given
  to its calls differ from each other.
- *Aliases*: `ReviewerStands` and that what is remembered is in the table, for any errors of
  the database, and the rest of `AliasesSafe` when a forget does not fail half-way, which
  section 6 shows to be necessary. `CopyInv` says that the copy is the table but for the rows
  still to be copied.
- *Outcomes*: `NewestAreServed` and `DirectoryIsBounded`. Saves are numbered, so what was
  saved after a room is a set of rooms; a file that is to be pruned has `MaxFiles` newer ones
  (`FilesInv`). Files that are left have different numbers of newer ones, each below
  `MaxFiles`, hence the bound.
- *Import*: `DatabaseIsWhole` and `ServedIsCurrent`, under `Alone`. `ImportInv` compares two
  records of one thing: what an import has read, and what the workbooks say of the companies
  it has passed (`ReadRight`). An edit makes a file older than a workbook, which the server
  sees, or cannot be seen by it, and then the file is marked blind.
- *Recording*: `NothingAdded`, `WordsKept`, `ChunksAdvance`, `NoProcessLeft`, for a recording of
  any words and pauses, when a cut word is heard whole or not at all (`Garbles = {}`). `AudioInv` says that the text so far is read off the recording in its
  order (`Reads`), and that what was heard up to the end of the last chunk is in it, words said
  once all of them, the others at least behind the start of the next chunk (`HeardUpTo`). The
  text of the next chunk is read off the recording too. The two meet (`Meet`): what lies in the
  overlap is in both but for words that are cut, and no more than `MaxShared` words of the old
  text lie there (`FewMeet`). So the longest end that is looked for is never shorter than the
  true overlap, nothing is doubled or moved, and what a longer one drops has its word in the new
  text (`MergeReads`).
- *Order*: `GuessNeverSent`, `ImageIsReadOrRefused`, `CompleteIsSentOnce` by the control of a
  request (`RequestIs`): before the model's answer it has neither reading nor order, a text that
  stands in for the answer has no name and so is never sent, and what was sent is the order that
  was answered. `PlaceAgrees` and `CityOverruledByDistrictOnly` hold of each order that is made
  of a reading (`OrderAgrees`): the district that overrules a city lies in one governorate only
  (`OnlyPlace`), also when it was found in the address, since the search takes only windows it
  has not taken a word of (`ScannedIs`, by induction on the least number of windows for which it
  fails), and a window that is no guess is a district with all of its governorates (`HitIs`).
- *Types*: `TypesHold`, under `Alone` and with `Garbles = {}`.

Each component's assumption on its constants is named in its module (`AdmissionAssumption`,
`CallAssumption`, `PoolAssumption`, `EngineAssumption`, `SpeechAssumption`,
`SemanticAssumption`, `FlowAssumption`, `AliasAssumption`; `ServicesAssumption`,
`RequestsAssumption` and `DistrictsAssumption` join those of the other components); TLC evaluates them in the runs. They
say of which sort a constant is (numbers positive, sets finite, values unlike any other), and
where the code relies on more, that: the limits of the splitter are ordered, an overlap is
at most half of a chunk (1 s of 28 s), holds any one word and at most `MaxShared` of them (40 in
`merge_transcript`), no name of a governorate is a part of the name of one before it in
`locations.json` (`NamesApart`), labels of places, of governorates, and centers are different
words, the other order of a name has the words of the name but for labels, no district is without a
name and each is found under its own, the tool that starts a call is none of the server's.

### Only model-checked

Every invariant of the passing runs is proved. What is left:

- Liveness: `CallCloses`, `EveryPhraseEnds`, the progress part of `OutcomePromise`,
  `RequestsEnd`, and in `ServicesAnswer` and `StoresRecover` what must come to an end. Fairness and
  `ENABLED` are out of the prover's reach.
- Similarity in letters and scores are given functions or free choices in the models, so neither
  the runs nor the proofs say how near a guess is.
- Four theorems need what the code does not give by itself: `AliasesSafe` a forget that does not
  fail half-way, `StoresServe` and `TypesHold` of the requests one importer at a time (`Alone`),
  `OrderIsWhatWasSaid` and that `TypesHold` cut words that are heard whole or not at all (`Garbles = {}`).
  In the runs all three are given; section 6 says what happens without them.
- The inductive invariants were checked with TLC before they were proved.

Each property has a mutant in `PROJECT.json`: a change of one definition, of the kind a
slip in the code would make, that breaks it.

## 5. Plan

What the modules leave for later work:

| work | why |
| --- | --- |
| `VoicePipeline` under `VoiceCall` by refinement | `VoiceCall` assumes of `speak_turn` that a turn ends and that tools follow a whole one; `TurnEnds` and `ReturnedIsWhole` say so of the pipeline, but no mapping ties the two |
| `OutcomeFiles` under `CallOutcome` for each room | the same, for the store |
| admission with several abstract calls in place of `CallOver` | liveness of slots from `CallCloses` |
| products, categories and delivery in `core/system_backend.py` | `fallback` of keys and paths is data so far |

## 6. Findings

Four promises of the documentation or of a comment that the code does not keep; each
has a run whose trace shows it and an entry in `PROJECT.json`.

- `lost_turn`: words that were recorded while another segment was queued are not
  answered when that segment turns out to be echo (`stream.py` 606), as the test at 615 is
  skipped. The documentation says the reply starts once the customer is quiet.
- `unheard`: the opening has no tools before the customer is heard, but an opening
  interrupted by its own echo is taken up again *with* tools (605, 647).
- `no_hangup`: a transcription that ends while a saved call says goodbye cancels the
  response, and with it the hang-up (608, 818-827); the call stays open until the
  maximum duration.
- `late_save`: an outcome that is saved while the call drains is followed by the older
  fallback outcome (405-407).

Disagreements that the other models show and that have no run of their own. Each property below is
stated in its module; as an invariant of the combined instance it is refuted.

| property | what happens | who says otherwise |
| --- | --- | --- |
| `AliasStore!AutoNeverReplaces` (with `"forget"` in `DiskFails`) | a forget leaves the copy before it is committed; when it is rolled back, an automatic answer takes the reviewer's place in memory (`aliases.py` 91-98) | `aliases.py` 6, `docs/api/district-correction.md` 154 |
| `CatalogImport!DatabaseIsWhole` (with `Alone <- FALSE`) | server and command use one temporary file; a half-built catalog may be put in place (`catalog.py` 84-128) | `catalog.py` 43, "atomically replace" |
| `ChatTurn!OneGeneration` | up to three generations (`openai_compat/router.py` 305, 314) | its lines 4 and 291 |
| `ChatTurn!WordsKept` | words, a channel tag and another tag leave an empty reply (164-170) | its lines 165-166 |
| `OrderIntake!UnknownIsNotFree` | a price `float()` cannot read gives a total of 0.0 (`orders/service.py` 77) | its line 91, `docs/api/orders.md` 197 |
| `AudioOrder!NothingLost` | of a word said twice at the edge of a chunk one is dropped (`transcribe.py` 62) | `docs/api/orders.md` 18 |
| `AudioOrder!NothingAdded` (with a word in `Garbles`) | a word that the edge of a chunk cuts and that is heard as another one stays beside the word itself (`transcribe.py` 58-64) | no document; it is what `NothingAdded` needs |
| `CorrectionFlow!SearchOnlyAssists` | embeddings of different lengths (`semantic.py` 66) end the whole request with status 500; so does a memory that cannot be written (`correction.py` 185) | `correction.py` 313, the search only assists |
| `SpeechService!FirstCallLoads` | after a warm-up that failed every call is refused as still loading (`stream.py` 911-919) | `tts.py` 256 |
| `Listening!NoSpeechYetIsTrue` | with one failed and one running transcription the diagnosis is `no_speech_yet` (`call_stats.py` 132) | its line 13 |
| `Listening!SamplesAreAligned` | an odd message before acceptance shifts every sample after it (`stream.py` 465) | its lines 468-469 |
| `OutcomeFiles!KeptForItsTime` | over the limit of files an outcome goes before its time (`outcomes.py` 62) | `docs/api/voice-followup.md` 76 |
| `Matching!CertainHasItsLabel` | "hay X" is certain to be "mujamma X" (`matching.py` 425) | its lines 50 and 211 |
| `Matching!EdgesAreClean` | the label of a governorate stays at the end of the details (366) | its line 351 |
| `LocationSearch!SameGovernorate` (without its bound on the words) | 17 districts of `locations.json` have five or six words; the scan of a text reads four at most and never finds them whole (`locations.py` 148), the district field does | its line 28, names have about four words |

`CenterGivesWay` leaves out one case on purpose: a center and the district after it that together are
read as a name, as it is spelt or in the other order of its parts (`matching.py` 652-687). There the
longer name is the answer.

## 7. Not modelled

Signal processing, scores of similarity, prompts, wording, the event stream and the
classes of errors are data. Of the LLM's pick of a district the checks (`text_support`,
`contradicts`) are not computed: a pick passes them or not. Two cases of one request whose texts
have the same memory key are not modelled: the one learned last gives the name that is saved
(`correction.py` 335-341, a dictionary by key). Configuration, keys, training,
scripts and the web console have no state of the running service. The retrieval of
dialect words and the text helpers only add or rewrite text.

Of speech recognition the models assume that a word inside a chunk is heard as it was said, and so
alike in both chunks that have it. That `NothingAdded` holds rests on this, and on cut words being
heard whole or not at all: `merge_transcript` compares words, and does not know a garbled one.

Exceptions that no handler names end a request with status 500. They are modelled for
the steps of a call, of a district correction and of the operator's tools, not everywhere.

Known hazards of a call that no property covers: the reservation is consumed before the
checks for a slot and readiness (`stream.py` 884); `max_duration` may fire while `_agent_end`
waits, and the client receives `end_call` twice (535); a response cancelled inside the
goodbye still waits `END_GRACE_SECONDS` (826); a call cancelled while its first message is sent
leaves without an outcome (352); what was spoken of a reply that then failed is not in
the history (689); after `MAX_TOOL_ROUNDS` the response ends in silence (648). The code
states no promise that these would break.
