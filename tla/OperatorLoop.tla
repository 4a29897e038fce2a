---------------------------- MODULE OperatorLoop ----------------------------
(***************************************************************************)
(* One turn of the staff assistant: run_operator_turn of                   *)
(* app/features/voice_followup/operator.py.  The model may call tools of   *)
(* the application, which go back to it, and tools on the store's data,    *)
(* which this server runs itself (operator_tools.py) before it asks the    *)
(* model again.                                                            *)
(*                                                                         *)
(* The model and the catalog are the environment.  A reply is a list of    *)
(* the tools it calls, Broken for a list that is not valid, with or        *)
(* without a text.                                                         *)
(***************************************************************************)
EXTENDS SequencesExt

CONSTANTS
  ServerTools,   \* names of operator_tools.TOOLS
  ClientTools,   \* names of the tools the application sent; they may collide with the others
  StartCall,     \* START_CALL_TOOL_NAME
  Foreign,       \* a tool nobody has
  MaxRounds,     \* MAX_SERVER_TOOL_ROUNDS
  MaxCalls       \* bound of the run: tools called by one reply

OperatorAssumption ==
  /\ MaxRounds \in Nat /\ MaxCalls \in Nat
  /\ StartCall \notin ServerTools /\ Foreign \notin ServerTools \cup ClientTools \cup {StartCall}

ToolNames == ServerTools \cup ClientTools \cup {StartCall, Foreign}
CallLists == BoundedSeq(ToolNames, MaxCalls)
Reply == [calls : CallLists, text : BOOLEAN]
NoReply == [calls |-> <<>>, text |-> FALSE]

VARIABLES
  configured,  \* catalog.configured(), of the settings
  choice,      \* tool_choice of the request: "auto" or "none"
  lastRole,    \* role of the request's last message: "user" or "tool"
  round,       \* round_no
  tried,       \* the second completion of the round
  phase,       \* "model", "tools", "done"
  pending,     \* server_calls that have not run yet
  talk,        \* messages added to the conversation: [calls] of the model, [result] of a tool
  answer       \* [kind, calls]

vars == <<configured, choice, lastRole, round, tried, phase, pending, talk, answer>>

\* active_tools and build_tools: a tool of the application gives way to one of the same name.
Active == IF configured THEN ServerTools ELSE {}
Tools == (ClientTools \ (Active \cup {StartCall})) \cup {StartCall} \cup Active

\* round_tools: without the server's tools in the last round, so that it ends the loop.
Allowed == IF round < MaxRounds THEN Tools ELSE Tools \ Active

NoAnswer == [kind |-> "none", calls |-> <<>>]

TypeOK ==
  /\ configured \in BOOLEAN /\ choice \in {"auto", "none"} /\ lastRole \in {"user", "tool"}
  /\ round \in 0 .. MaxRounds /\ tried \in BOOLEAN
  /\ phase \in {"model", "tools", "done"}
  /\ pending \in CallLists
  /\ answer \in [kind : {"none", "error", "calls", "text", "fallback"}, calls : CallLists]
  /\ talk \in Seq([calls : CallLists] \cup [result : ToolNames])

Init ==
  /\ configured \in BOOLEAN /\ choice \in {"auto", "none"} /\ lastRole \in {"user", "tool"}
  /\ round = 0 /\ tried = FALSE /\ phase = "model" /\ pending = <<>> /\ talk = <<>>
  /\ answer = NoAnswer

-----------------------------------------------------------------------------
\* _parse: valid calls, else a text, else nothing.
Valid(d) == d.calls # <<>> /\ ToSet(d.calls) \subseteq Allowed
Usable(d) == Valid(d) \/ d.text

\* tool_choice of the next completion: in the first round the second try after a tool's result
\* asks for a text.
ChoiceNow == IF tried /\ round = 0 /\ lastRole = "tool" THEN "none" ELSE choice

\* A model that is told to call nothing calls nothing.
Replies == {d \in Reply : ChoiceNow = "none" => d.calls = <<>>}

\* server_calls: what this server runs of a reply.
ServerCalls(calls) == SelectSeq(calls, LAMBDA n : n \in Active)

End(a) == phase' = "done" /\ answer' = a /\ UNCHANGED <<round, tried, pending, talk>>

\* A usable reply: an answer, or the start of the server's tools.
Take(d) ==
  IF Valid(d) /\ \E n \in Active : n \in ToSet(d.calls)
  THEN \E mine \in CallLists :
         /\ mine = ServerCalls(d.calls)
         /\ phase' = "tools" /\ pending' = mine
         /\ talk' = Append(talk, [calls |-> mine])
         /\ UNCHANGED <<round, tried, answer>>
  ELSE End(IF Valid(d) THEN [kind |-> "calls", calls |-> d.calls] ELSE [kind |-> "text", calls |-> <<>>])

TryAgain == ~tried /\ tried' = TRUE /\ UNCHANGED <<round, phase, pending, talk, answer>>

\* _completion returns: two tries in a round, then the fallback.
Complete ==
  /\ phase = "model"
  /\ \E d \in Replies :
       \/ Usable(d) /\ Take(d)
       \/ ~Usable(d) /\ TryAgain
       \/ ~Usable(d) /\ tried /\ End([kind |-> "fallback", calls |-> <<>>])
  /\ UNCHANGED <<configured, choice, lastRole>>

\* LLMUpstreamError of any completion ends the turn, also when tools have run.
CompletionFails ==
  /\ phase = "model"
  /\ End([kind |-> "error", calls |-> <<>>])
  /\ UNCHANGED <<configured, choice, lastRole>>

\* operator_tools.run: data, a message about wrong arguments, or that of a CatalogError; each is
\* the result of its call.
RunTool ==
  /\ phase = "tools" /\ pending # <<>>
  /\ talk' = Append(talk, [result |-> Head(pending)])
  /\ pending' = Tail(pending)
  /\ UNCHANGED <<configured, choice, lastRole, round, tried, phase, answer>>

\* An error that is no CatalogError, of an answer that is not as expected, ends the turn with status 500.
ToolBreaks ==
  /\ phase = "tools" /\ pending # <<>>
  /\ End([kind |-> "error", calls |-> <<>>])
  /\ UNCHANGED <<configured, choice, lastRole>>

\* The next round.
NextRound ==
  /\ phase = "tools" /\ pending = <<>>
  /\ round' = round + 1 /\ tried' = FALSE
  /\ phase' = "model"
  /\ UNCHANGED <<configured, choice, lastRole, pending, talk, answer>>

Done == phase = "done" /\ UNCHANGED vars

Next == Complete \/ CompletionFails \/ RunTool \/ ToolBreaks \/ NextRound \/ Done
Spec == Init /\ [][Next]_vars

-----------------------------------------------------------------------------
\* The conversation the model is shown is one it accepts: after each of its messages with calls
\* come the results of exactly these calls, in their order, before anything else, whatever of a
\* mixed reply was left for the application (operator.py:278-286).
ResultsFollowCalls ==
  phase = "model" =>
    \A k \in DOMAIN talk : "calls" \in DOMAIN talk[k] =>
      LET n == Len(talk[k].calls)
      IN  /\ k + n <= Len(talk)
          /\ \A j \in 1 .. n : talk[k + j] = [result |-> talk[k].calls[j]]
          /\ k + n < Len(talk) => "calls" \in DOMAIN talk[k + n + 1]

\* The application never gets a call of a tool that this server runs, nor one that nobody has
\* (operator_tools.py:4-6): also not in the last round, and not if it sent a tool of that name.
NoServerCallLeaks ==
  answer.kind = "calls" =>
    ToSet(answer.calls) \subseteq (ClientTools \cup {StartCall}) \ Active

\* A turn ends, however often the model asks for data (operator.py:47, 271-277).
TurnEnds == <>(phase = "done")
=============================================================================
