------------------------------ MODULE ChatTurn ------------------------------
(***************************************************************************)
(* One request of a chat route: POST /v1/chat/completions                  *)
(* (app/features/openai_compat/router.py), /sales/chat/completions         *)
(* (sales/router.py) and /sales/agent/chat/completions (sales/agent.py),   *)
(* with create_completion of openai_compat/completion.py, which all three  *)
(* call.  The routes keep no state; the request generates, perhaps forces  *)
(* a tool, perhaps tries again, and turns the reply into an answer.        *)
(*                                                                         *)
(* The model is the environment.  Its text is a sequence of tokens: words, *)
(* "name", a word that is the name of a tool of the request, "close", the  *)
(* tag that ends a channel of the chat template, and "tag", any other tag. *)
(***************************************************************************)
EXTENDS SequencesExt, Naturals

CONSTANTS
  Contents,   \* bound of the run: the texts the model may write
  RawCalls,   \* bound of the run: lists of raw tool calls [good, id]; a call is good when it names
              \*   a tool of the request and its arguments are an object
  Ids,        \* the ids of raw calls
  NoId        \* a raw call without a usable id

\* A new id is a uuid: no model writes it.
ChatAssumption ==
  /\ RawCalls \subseteq Seq([good : BOOLEAN, id : Ids]) /\ Ids \cap ({"new"} \X Nat) = {}
  /\ Contents \subseteq Seq({"close", "tag", "word", "name"})

Routes == {"v1", "sales", "agent"}
ToolChoices == {"auto", "required", "none"}

\* A reply with a message, or one that has none.
Message == [calls : RawCalls, content : Contents]
Malformed == [calls |-> <<>>, content |-> <<"malformed">>]
Errors == {"unavailable", "notloaded", "timeout", "upstream"}
NoAnswer == [kind |-> "none"]
Fallback == [kind |-> "fallback"]   \* EXHAUSTED_FALLBACK

VARIABLES
  route, choice,   \* the route; tool_choice of the request
  tools,           \* whether the request has tools
  lastRole,        \* role of its last message: "user" or "tool"
  phase,           \* where the handler is
  asked,           \* history: tool_choice of every generation, in order
  data,            \* the last reply of the model
  answer           \* the response

request == <<route, choice, tools, lastRole>>
vars == <<request, phase, asked, data, answer>>

TypeOK ==
  /\ route \in Routes /\ choice \in ToolChoices /\ tools \in BOOLEAN
  /\ lastRole \in {"user", "tool"}
  /\ phase \in {"check", "first", "force", "retry", "answer", "done"}
  /\ asked \in BoundedSeq(ToolChoices, 3)
  /\ data \in Message \cup {Malformed}
  /\ answer.kind \in {"none", "error", "calls", "text", "fallback"}

Init ==
  /\ route \in Routes /\ choice \in ToolChoices /\ tools \in BOOLEAN /\ lastRole \in {"user", "tool"}
  /\ phase = IF route = "sales" THEN "first" ELSE "check"
  /\ asked = <<>> /\ data = Malformed /\ answer = NoAnswer

-----------------------------------------------------------------------------
(* From the reply to the answer. *)

\* _clean_content: what follows the last closing tag, unless nothing does; then all tags go.
Clean(content) ==
  LET last == SelectLastInSeq(content, LAMBDA t : t = "close")
      after == SubSeq(content, last + 1, Len(content))
  IN  SelectSeq(IF last > 0 /\ after # <<>> THEN after ELSE content,
                LAMBDA t : t \notin {"close", "tag", "malformed"})

\* seen_ids: a missing or repeated id is replaced by a new one.
IdOf(calls, k) ==
  IF calls[k].id # NoId /\ \A j \in 1 .. (k - 1) : calls[j].id # calls[k].id
  THEN calls[k].id ELSE <<"new", k>>

\* _normalized_tool_calls: the ids, or nothing if any call is not valid.
Normalized(calls) ==
  IF \A k \in 1 .. Len(calls) : calls[k].good THEN [k \in 1 .. Len(calls) |-> IdOf(calls, k)]
  ELSE <<>>

\* _is_empty_reply and _described_tool_call: a malformed reply is neither.
EmptyReply(d) == d # Malformed /\ d.calls = <<>> /\ Clean(d.content) = <<>>

Described(d) ==
  /\ tools /\ choice # "none" /\ lastRole = "user"
  /\ d # Malformed /\ d.calls = <<>> /\ Contains(d.content, "name")

ToAnswer(d) ==
  CASE Normalized(d.calls) # <<>> -> [kind |-> "calls", ids |-> Normalized(d.calls)]
    [] Normalized(d.calls) = <<>> /\ Clean(d.content) # <<>> ->
         [kind |-> "text", text |-> Clean(d.content)]
    [] OTHER -> Fallback

-----------------------------------------------------------------------------
(* The handler. *)

\* _ensure_model_can_serve.  Which status it sees is in ModelStatus.
CheckPasses ==
  /\ phase = "check"
  /\ phase' = "first"
  /\ UNCHANGED <<request, asked, data, answer>>

Fail(e) ==
  /\ phase' = "done"
  /\ answer' = [kind |-> "error", code |-> e]
  /\ UNCHANGED <<request, asked, data>>

CheckRefuses == phase = "check" /\ \E e \in {"unavailable", "notloaded"} : Fail(e)

RetryAsAsked == choice  \* mutant: after a tool's result a tool may be called again

\* The tool_choice of the next generation.
RetryChoice == IF lastRole = "tool" THEN "none" ELSE choice
ChoiceNow ==
  CASE phase = "first" -> choice
    [] phase = "force" -> "required"
    [] phase = "retry" -> RetryChoice

Generating == phase \in {"first", "force", "retry"}

\* Each failure of create_completion ends the request, also that of a second generation.
GenerationFails == Generating /\ \E e \in Errors : Fail(e)

\* sales_chat answers with what it has; the others try an empty reply once more.
Retries == route # "sales" /\ phase # "retry"

\* create_completion returns `d`, and the handler decides.
After(d) ==
  CASE phase = "first" /\ route = "v1" /\ Described(d) -> "force"
    [] ~(phase = "first" /\ route = "v1" /\ Described(d)) /\ Retries /\ EmptyReply(d) -> "retry"
    [] OTHER -> "answer"

\* A model that is told to call nothing calls nothing.
Replies == {d \in Message \cup {Malformed} : ChoiceNow = "none" \/ ~tools => d.calls = <<>>}

Generate ==
  /\ Generating
  /\ \E d \in Replies : data' = d /\ phase' = After(d)
  /\ asked' = Append(asked, ChoiceNow)
  /\ UNCHANGED <<request, answer>>

Respond ==
  /\ phase = "answer"
  /\ phase' = "done"
  /\ answer' = ToAnswer(data)
  /\ UNCHANGED <<request, asked, data>>

Done == phase = "done" /\ UNCHANGED vars

Next == CheckPasses \/ CheckRefuses \/ GenerationFails \/ Generate \/ Respond \/ Done

Spec == Init /\ [][Next]_vars

-----------------------------------------------------------------------------
(* Properties *)

\* The tool choice of the caller is respected over all generations of a request: "none" stays
\* "none", a tool is forced only on a user's turn, and after a tool's result no generation but the
\* first may call another one, which would be a loop (openai_compat/router.py:260-270, 307-314).
ChoiceRespected ==
  \A k \in 1 .. Len(asked) :
    /\ choice = "none" => asked[k] = "none"
    /\ asked[k] = "required" => choice = "required" \/ (lastRole = "user" /\ tools)
    /\ k > 1 /\ lastRole = "tool" => asked[k] = "none"

\* A caller can match each tool result to one call: the ids of an answer are distinct, and an
\* answer has all calls of the reply or none (router.py:209-245).
CallsMatchable ==
  answer.kind = "calls" =>
    /\ Len(answer.ids) = Len(data.calls)
    /\ \A j, k \in DOMAIN answer.ids : answer.ids[j] = answer.ids[k] => j = k

\* The general excuse is given for an empty reply only if the model stayed silent twice
\* (router.py:307-314, sales/agent.py:61-65); the plain sales route has no second try.
ExcusedAfterRetry ==
  answer = Fallback /\ EmptyReply(data) /\ route # "sales" => Len(asked) >= 2

\* openai_compat/router.py:4 says of the route that it performs exactly one generation.
\* The code does not keep this: README, section 6.
OneGeneration == route = "v1" /\ answer.kind \in {"calls", "text", "fallback"} => Len(asked) = 1

\* openai_compat/router.py:165-166 says that the original is kept when no text follows the last
\* channel tag: a reply with words is not answered by the excuse.
\* The code does not keep this: README, section 6.
WordsKept ==
  answer = Fallback => ~\E k \in DOMAIN data.content : data.content[k] \in {"word", "name"}
=============================================================================
