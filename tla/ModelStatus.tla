---------------------------- MODULE ModelStatus ----------------------------
(***************************************************************************)
(* What the chat routes know of the model server before they ask it:       *)
(* get_model_status of app/core/model_status.py with its cache of a few    *)
(* seconds, _ensure_model_can_serve of the chat routes, which refuses on   *)
(* its answer, and /health/llm, which probes past the cache.               *)
(*                                                                         *)
(* A probe is two calls, so that other requests, and the server, go on in  *)
(* between.  One cache is shared by all requests.                          *)
(***************************************************************************)
EXTENDS Integers

CONSTANTS
  Chats,       \* requests of the chat routes
  Healths,     \* requests of /health/llm
  CacheTime,   \* _CACHE_SECONDS, in ticks
  CallTime,    \* _PROBE_TIMEOUT, in ticks: the longest of each of the two calls
  MaxTime,     \* bound of the run: ticks
  MaxChanges   \* bound of the run: changes of the server

StatusAssumption ==
  Chats \cap Healths = {} /\ {CallTime, MaxTime, MaxChanges} \subseteq Nat /\ CacheTime \in Nat \ {0}

Callers == Chats \cup Healths

\* The server is gone or answers with errors; or runs without the model; or serves it.
Servers == {"down", "unloaded", "loaded"}

\* ModelStatus, as far as a caller acts on it: "unknown" is reachable with loaded = None.
Statuses == Servers \cup {"unknown"}
NoStatus == "none"

VARIABLES
  now,      \* time.monotonic
  server,   \* the model server
  changes,  \* changes of `server` so far
  last,     \* history: when the server was last in each state; -MaxTime - CacheTime if never
  cache,    \* _cache
  cacheAt,  \* _cache_at
  caller    \* per request: [at |-> "new" | "lists" | "details" | "arrives" | "done", start, call, saw]
            \*   start: its `now`; call: when its present call began
            \*   saw: the status it got; until then what the first list says, once that is there

vars == <<now, server, changes, last, cache, cacheAt, caller>>

Never == -(MaxTime + CacheTime + 1)
Times == 0 .. MaxTime

TypeOK ==
  /\ now \in Times /\ cacheAt \in Times
  /\ server \in Servers /\ changes \in 0 .. MaxChanges
  /\ last \in [Servers -> Times \cup {Never}]
  /\ cache \in Statuses \cup {NoStatus}
  /\ caller \in [Callers -> [at : {"new", "lists", "details", "arrives", "done"}, start : Times, call : Times,
                             saw : Statuses \cup {NoStatus}]]

Init ==
  /\ now = 0 /\ server \in Servers /\ changes = 0
  /\ last = [s \in Servers |-> IF s = server THEN 0 ELSE Never]
  /\ cache = NoStatus /\ cacheAt = 0
  /\ caller = [c \in Callers |-> [at |-> "new", start |-> 0, call |-> 0, saw |-> NoStatus]]

-----------------------------------------------------------------------------
Change ==
  /\ changes < MaxChanges
  /\ changes' = changes + 1
  /\ server' \in Servers \ {server}
  /\ last' = [last EXCEPT ![server'] = now]
  /\ UNCHANGED <<now, cache, cacheAt, caller>>

\* Time passes while no call is past its timeout.
Tick ==
  /\ now < MaxTime
  /\ \A c \in Callers : caller[c].at \in {"lists", "details", "arrives"} => now < caller[c].call + CallTime
  /\ now' = now + 1
  /\ last' = [last EXCEPT ![server] = now + 1]
  /\ UNCHANGED <<server, changes, cache, cacheAt, caller>>

\* The health route probes in any case.
Usable(c) == c \notin Healths /\ cache # NoStatus /\ now - cacheAt < CacheTime

Begin(c) ==
  /\ caller[c].at = "new"
  /\ caller' = [caller EXCEPT ![c] =
       IF Usable(c) THEN [at |-> "done", start |-> now, call |-> 0, saw |-> cache]
       ELSE [at |-> "lists", start |-> now, call |-> now, saw |-> NoStatus]]
  /\ UNCHANGED <<now, server, changes, last, cache, cacheAt>>

\* The cache counts from the moment the request looked at it, before the probe.
Stamp(c) == caller[c].start

\* What the first list, /models, says: of LM Studio also models that are not loaded, so that
\* "loaded" may be said of either server; nothing that can be read; or an answer of 500 and more.
ListSays ==
  CASE server = "loaded"   -> {"loaded", "unknown"}
    [] server = "unloaded" -> {"loaded", "unloaded", "unknown"}
    [] server = "down"     -> {"down"}

\* The first call is answered.
ListAnswers(c) ==
  /\ caller[c].at = "lists"
  /\ \E s \in ListSays : caller' = [caller EXCEPT ![c].at = "details", ![c].call = now, ![c].saw = s]
  /\ UNCHANGED <<now, server, changes, last, cache, cacheAt>>

\* What the probe finds: a server that cannot be reached by the first call; or its state, by the
\* second, of LM Studio's own list.  Without a usable answer to the second the first list is believed,
\* older by then.
Found(c) ==
  CASE caller[c].at = "lists" -> {server} \cap {"down"}
    [] caller[c].at = "details" -> ({server} \ {"down"}) \cup {caller[c].saw}
    [] OTHER -> {}

Observe(c) ==
  /\ \E s \in Found(c) : caller' = [caller EXCEPT ![c].at = "arrives", ![c].saw = s]
  /\ UNCHANGED <<now, server, changes, last, cache, cacheAt>>

\* The end of get_model_status: both globals, without an await in between.
Answer(c) ==
  /\ caller[c].at = "arrives"
  /\ caller' = [caller EXCEPT ![c].at = "done", ![c].call = 0]
  /\ cache' = caller[c].saw
  /\ cacheAt' = Stamp(c)
  /\ UNCHANGED <<now, server, changes, last>>

Next ==
  \/ Change \/ Tick
  \/ \E c \in Callers : Begin(c) \/ ListAnswers(c) \/ Observe(c) \/ Answer(c)

Spec == Init /\ [][Next]_vars

-----------------------------------------------------------------------------
Refuses(s) == s \in {"down", "unloaded"}

\* A chat request is refused only for a state the server really was in, less than the cache's
\* time before the request came, however slow the probe and however many requests share it
\* (model_status.py:87-94; openai_compat/router.py:107-119).
RefusalIsRecent ==
  \A c \in Chats : caller[c].at = "done" /\ Refuses(caller[c].saw) =>
    last[caller[c].saw] > caller[c].start - CacheTime

\* /health/llm says "unhealthy" only for a state the server was in after it was asked
\* (main.py:123-131).
HealthIsCurrent ==
  \A c \in Healths : caller[c].at = "done" /\ Refuses(caller[c].saw) =>
    last[caller[c].saw] >= caller[c].start
=============================================================================
