----------------------------- MODULE LlmEngine -----------------------------
(***************************************************************************)
(* The client of the model server (app/core/engine.py) in the life of the  *)
(* application (lifespan of app/main.py): the poller that decides whether  *)
(* the server is usable, the requests that go through _chat_completion     *)
(* with their counters, and the audio warm-up that waits for the server.   *)
(*                                                                         *)
(* The server is the environment: it may go down, come up, or run without  *)
(* the model that is asked for, at any time.  uvicorn, also outside, ends  *)
(* the requests before it ends the lifespan.                               *)
(***************************************************************************)
EXTENDS Naturals, FiniteSets

CONSTANTS
  Requests,      \* requests for a completion
  MaxSwitches    \* bound of the run: changes of the server's state

ASSUME EngineAssumption == IsFiniteSet(Requests) /\ MaxSwitches \in Nat

Servers == {"down", "up", "nomodel"}

\* What a request ends with: the model's answer, the four codes of LLMUpstreamError, a reply that
\* is no JSON, or the cancellation of its task.
Failures == {"unavailable", "notloaded", "timeout", "upstream"}
Ends == Failures \cup {"answered", "garbled", "cancelled"}

VARIABLES
  app,        \* lifespan: "new", "serving", the steps of the shutdown, "stopped"
  server,     \* the model server
  switches,   \* changes of `server` so far
  client,     \* the HTTP client: "none", "open", "closed"
  ready,      \* _ready
  poller,     \* _poller_task: "none", "asks", "sleeps", "ended"
  warmup,     \* _warmup_audio_models: "none", "waits", "loads", "ended"
  seen,       \* history: the server has answered a probe
  request,    \* per request: "new", "posted" or one of Ends
  inflight,   \* _inflight
  served,     \* metrics["requests_served"]
  errors      \* metrics["errors"]

lifecycle == <<app, client, ready, poller, warmup, seen>>
counters == <<inflight, served, errors>>
vars == <<lifecycle, server, switches, request, counters>>

TypeOK ==
  /\ app \in {"new", "serving", "ending", "quiet", "stopped"}
  /\ server \in Servers /\ switches \in 0 .. MaxSwitches
  /\ client \in {"none", "open", "closed"}
  /\ ready \in BOOLEAN /\ seen \in BOOLEAN
  /\ poller \in {"none", "asks", "sleeps", "ended"}
  /\ warmup \in {"none", "waits", "loads", "ended"}
  /\ request \in [Requests -> {"new", "posted"} \cup Ends]
  /\ {inflight, served, errors} \subseteq 0 .. Cardinality(Requests)

Init ==
  /\ app = "new" /\ client = "none" /\ ready = FALSE /\ poller = "none" /\ warmup = "none"
  /\ seen = FALSE /\ server \in Servers /\ switches = 0
  /\ request = [r \in Requests |-> "new"]
  /\ inflight = 0 /\ served = 0 /\ errors = 0

-----------------------------------------------------------------------------
\* The environment.
Switch ==
  /\ switches < MaxSwitches
  /\ server' \in Servers \ {server}
  /\ switches' = switches + 1
  /\ UNCHANGED <<lifecycle, request, counters>>

\* LLMEngine.start and the rest of the start of the lifespan.
Start ==
  /\ app = "new"
  /\ app' = "serving" /\ client' = "open" /\ poller' = "asks" /\ warmup' = "waits"
  /\ UNCHANGED <<ready, seen, server, switches, request, counters>>

\* /models is answered by a server without the model too (LM Studio lists what is on the disk).
ProbeResult == client = "open" /\ server # "down"

PollerAnswersFailing ==  \* mutant: the exception of a probe is not caught
  IF ProbeResult THEN ready' = TRUE /\ poller' = "sleeps" ELSE ready' = ready /\ poller' = "ended"

\* One round of _readiness_poller.
PollerAnswers == ready' = ProbeResult /\ poller' = "sleeps"

Poll ==
  /\ poller = "asks"
  /\ PollerAnswers
  /\ seen' = (seen \/ ProbeResult)
  /\ UNCHANGED <<app, client, warmup, server, switches, request, counters>>

PollAgain ==
  /\ poller = "sleeps"
  /\ poller' = "asks"
  /\ UNCHANGED <<app, client, ready, warmup, seen, server, switches, request, counters>>

WarmupMayLoad == warmup = "waits" /\ ready

WarmupLoads ==
  /\ WarmupMayLoad
  /\ warmup' = "loads"
  /\ UNCHANGED <<app, client, ready, poller, seen, server, switches, request, counters>>

WarmupEnds ==
  /\ warmup = "loads"
  /\ warmup' = "ended"
  /\ UNCHANGED <<app, client, ready, poller, seen, server, switches, request, counters>>

-----------------------------------------------------------------------------
\* _chat_completion.
Refuse(r) ==
  /\ app = "serving" /\ request[r] = "new" /\ ~ready
  /\ request' = [request EXCEPT ![r] = "unavailable"]
  /\ UNCHANGED <<lifecycle, server, switches, counters>>

Post(r) ==
  /\ app = "serving" /\ request[r] = "new" /\ ready
  /\ request' = [request EXCEPT ![r] = "posted"]
  /\ inflight' = inflight + 1
  /\ UNCHANGED <<lifecycle, server, switches, served, errors>>

Posted == {r \in Requests : request[r] = "posted"}

\* What a posted request may end with.  A server that goes down breaks the connection; one that
\* is up may still reject the request or be too slow.
EndsOf(s) ==
  CASE s = "down" -> {"unavailable", "timeout"}
    [] s = "nomodel" -> {"notloaded", "timeout"}
    [] s = "up" -> {"answered", "garbled", "upstream", "timeout"}

IsError(e) == e \in Failures

CountEndTwice(e) ==  \* mutant: counted in the except clause and in the finally
  /\ inflight' = inflight - 1
  /\ served' = IF IsError(e) THEN served + 2 ELSE served + 1
  /\ errors' = IF IsError(e) THEN errors + 1 ELSE errors

CountEndCaught(e) ==  \* mutant: no `finally`, so that a cancelled request stays in flight
  /\ inflight' = IF e = "cancelled" THEN inflight ELSE inflight - 1
  /\ served' = served + 1
  /\ errors' = IF IsError(e) THEN errors + 1 ELSE errors

\* The except clauses and the finally of _chat_completion.  A cancellation is no Exception; a
\* reply that is no JSON fails after the finally.
CountEnd(e) ==
  /\ inflight' = inflight - 1
  /\ served' = served + 1
  /\ errors' = IF IsError(e) THEN errors + 1 ELSE errors

Finish(r, e) ==
  /\ request[r] = "posted"
  /\ request' = [request EXCEPT ![r] = e]
  /\ CountEnd(e)
  /\ UNCHANGED <<lifecycle, server, switches>>

ServerEnds(r) == \E e \in EndsOf(server) : Finish(r, e)

\* The caller's task is cancelled: its connection is closed, its call ends.
Cancel(r) == Finish(r, "cancelled")

-----------------------------------------------------------------------------
\* The finally of the lifespan, one await after the other.  Its task no longer waits for the
\* thread of a warm-up that is loading; the thread itself goes on until the process ends.
Stop ==
  /\ app = "serving" /\ Posted = {}
  /\ app' = "ending"
  /\ warmup' = "ended"
  /\ UNCHANGED <<client, ready, poller, seen, server, switches, request, counters>>

\* LLMEngine.shutdown: the poller is cancelled and awaited, then the client is closed.
EndPoller ==
  /\ app = "ending"
  /\ app' = "quiet"
  /\ poller' = "ended"

StopPoller ==
  /\ EndPoller
  /\ UNCHANGED <<client, ready, warmup, seen, server, switches, request, counters>>

CloseClient ==
  /\ app = "quiet"
  /\ app' = "stopped" /\ client' = "closed" /\ ready' = FALSE
  /\ UNCHANGED <<poller, warmup, seen, server, switches, request, counters>>

Stopped == app = "stopped" /\ UNCHANGED vars

Next ==
  \/ Switch \/ Start \/ Poll \/ PollAgain \/ WarmupLoads \/ WarmupEnds
  \/ \E r \in Requests : Refuse(r) \/ Post(r) \/ ServerEnds(r) \/ Cancel(r)
  \/ Stop \/ StopPoller \/ CloseClient \/ Stopped

Spec == Init /\ [][Next]_vars

-----------------------------------------------------------------------------
\* The counters agree with the requests however each of them ended, by an answer, by an error or
\* because its caller went away (engine.py:297-318): what is in flight is what was posted and has
\* not ended; a request refused for want of a server is not counted.
Ended(es) == {r \in Requests : request[r] \in es}
CountsAgree ==
  /\ inflight = Cardinality(Posted)
  /\ served - errors = Cardinality(Ended({"answered", "garbled", "cancelled"}))

\* The audio models are loaded only after the model server has answered a probe, since it must
\* reserve its memory first (main.py:45-50), also when it goes down again meanwhile.
ServerBeforeAudio == warmup = "loads" => seen

\* After the shutdown nothing is left that could use the closed client or turn the engine ready
\* again (engine.py:136-145).
StoppedForGood == app = "stopped" => (~ready /\ poller = "ended")

\* Whatever the server does while requests come, end and are given up, and while the application
\* starts and stops: the counters agree with the requests, the audio models wait for the server,
\* and the shutdown leaves nothing behind (engine.py:136-145, 297-318, main.py:45-50).
EngineSafe == CountsAgree /\ ServerBeforeAudio /\ StoppedForGood

\* While the application serves, the poller follows the server: one that stays usable becomes
\* ready, one that stays down stops being ready (engine.py:156-166), whatever happened before.
ReadyFollows ==
  /\ <>[](server # "down" /\ app = "serving") => <>[]ready
  /\ <>[](server = "down") => <>[]~ready

\* A request that was sent ends, with an answer or with a code (engine.py:283-318).
RequestEnds == \A r \in Requests : (request[r] = "posted") ~> (request[r] \in Ends)
=============================================================================
