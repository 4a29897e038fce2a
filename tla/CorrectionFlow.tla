--------------------------- MODULE CorrectionFlow ---------------------------
(***************************************************************************)
(* One correction request: CorrectionService.correct of                    *)
(* app/features/district_correction/correction.py.  The rules match every  *)
(* case; semantic search, the trained model and the LLM see what the rules *)
(* left open, in that order; what two methods agreed on is learned.        *)
(*                                                                         *)
(* What a matcher finds in a text is data and is chosen freely: the rules' *)
(* result of a case, the nearest name by meaning, the model's pick, the    *)
(* LLM's answer.  Kept is which result may replace which, what is sent     *)
(* where, and what is left when a method fails.  Two failures nobody       *)
(* catches: a list of embeddings that are not of one length, and a memory  *)
(* that cannot be written, end the request without an answer.              *)
(***************************************************************************)
EXTENDS Naturals, FiniteSets

CONSTANTS
  Cases,        \* excelSequence, in the order of the request
  Names,        \* district names of the catalog
  Center,       \* the name that is the governorate's center
  NoName,
  Groups,       \* governorates
  GroupOf,      \* governorate of each case
  Chunk,        \* _CHUNK: cases in a batch for the LLM
  MaxLlm,       \* district_llm_max_cases
  Concurrency,  \* district_llm_concurrency
  Modes,        \* what the trained model may be: "off", "shadow", "decide"
  Kinds         \* bound of the run: the certainties of the rules that occur

ASSUME FlowAssumption ==
  /\ Cases \subseteq Nat /\ IsFiniteSet(Cases)
  /\ Center \in Names /\ NoName \notin Names
  /\ GroupOf \in [Cases -> Groups]
  /\ {Chunk, Concurrency} \subseteq Nat \ {0} /\ MaxLlm \in Nat
  /\ Modes \subseteq {"off", "shadow", "decide"}

\* What the rules make of a case: certain or remembered; found, with confidence that is high,
\* fair or at most CENTER_REVIEW; not found; not found with an error or without a text.
Certainty == {"settled", "strong", "fair", "doubt", "none", "refused"}
NamesOrNone == Names \cup {NoName}
Rules == [name : NamesOrNone, sure : Certainty]
ValidRule(r) == (r.name = NoName) <=> (r.sure \in {"none", "refused"})

VARIABLES
  phase,     \* where in correct the request is
  mode,      \* the trained model of this service
  rule,      \* per case: result of the rules
  result,    \* per case: results[...].correctDistrict and the method it comes from
  open,      \* llm_groups: cases bound for the LLM
  ranked,    \* governorates the semantic search has done
  similar,   \* per case: nearest name by meaning, if it is known to the later stages
  agreed,    \* cases that semantic search has settled
  pick,      \* per case: model_picks
  jobs,      \* batches that wait for the LLM
  active,    \* batches in resolve_batch
  sent,      \* cases given to the LLM
  said,      \* per case: the LLM's answer that was accepted
  learned    \* per case: the name that will be learned

vars == <<phase, mode, rule, result, open, ranked, similar, agreed, pick, jobs, active, sent,
          said, learned>>

Phases == {"match", "semantic", "model", "schedule", "batches", "record", "learn", "done", "failed"}
Methods == {"rules", "model", "llm"}
Batches == SUBSET Cases
Nothing == [c \in Cases |-> NoName]

TypeOK ==
  /\ phase \in Phases /\ mode \in Modes
  /\ rule \in [Cases -> Rules]
  /\ result \in [Cases -> [name : NamesOrNone, by : Methods]]
  /\ open \subseteq Cases /\ ranked \subseteq Groups /\ agreed \subseteq Cases
  /\ sent \subseteq Cases
  /\ {similar, pick, said, learned} \subseteq [Cases -> NamesOrNone]
  /\ jobs \subseteq Batches /\ active \subseteq Batches

Init ==
  /\ phase = "match" /\ mode \in Modes
  /\ rule \in [Cases -> {r \in Rules : ValidRule(r) /\ r.sure \in Kinds}]
  /\ result = [c \in Cases |-> [name |-> NoName, by |-> "rules"]]
  /\ open = {} /\ ranked = {} /\ agreed = {} /\ sent = {}
  /\ similar = Nothing /\ pick = Nothing /\ said = Nothing /\ learned = Nothing
  /\ jobs = {} /\ active = {}

-----------------------------------------------------------------------------
Found(c) == rule[c].name # NoName
InGroup(cs, g) == {c \in cs : GroupOf[c] = g}

NeedsAi(c) == rule[c].sure \in {"strong", "fair", "doubt", "none"}

\* _match_all.  Without an LLM nothing is bound for it.
Match(configured) ==
  /\ phase = "match"
  /\ result' = [c \in Cases |-> [name |-> rule[c].name, by |-> "rules"]]
  /\ open' = IF configured THEN {c \in Cases : NeedsAi(c)} ELSE {}
  /\ phase' = "semantic"
  /\ UNCHANGED <<mode, rule, ranked, similar, agreed, pick, jobs, active, sent, said, learned>>

Confirmed(c) == Found(c) /\ rule[c].sure # "doubt"

\* _semantic_check, one governorate: `near` are the nearest names; some of them are ahead of
\* the second by the margin.
SemanticRanks(g, near, clear) ==
  LET cs == InGroup(open, g)
      sure == {c \in cs \cap clear : Confirmed(c) /\ near[c] = rule[c].name}
  IN  /\ phase = "semantic"
      /\ g \notin ranked /\ cs # {}
      /\ ranked' = ranked \cup {g}
      /\ agreed' = agreed \cup sure
      /\ open' = open \ sure
      /\ learned' = [c \in Cases |-> IF c \in sure THEN rule[c].name ELSE learned[c]]
      /\ similar' = [c \in Cases |-> IF c \in cs \ sure THEN near[c] ELSE similar[c]]
      /\ UNCHANGED <<phase, mode, rule, result, pick, jobs, active, sent, said>>

\* All governorates are done, or the search is not configured.
SemanticDone ==
  /\ phase = "semantic"
  /\ \/ ranked = {}
     \/ \A g \in Groups \ ranked : InGroup(open, g) = {}
  /\ phase' = "model"
  /\ UNCHANGED <<mode, rule, result, open, ranked, similar, agreed, pick, jobs, active, sent,
                 said, learned>>

\* EmbeddingError: what was settled stays, no names go on to the other stages.
SemanticFails ==
  /\ phase = "semantic" /\ open # {}
  /\ similar' = Nothing
  /\ phase' = "model"
  /\ UNCHANGED <<mode, rule, result, open, ranked, agreed, pick, jobs, active, sent, said, learned>>

\* The vectors are not of one length: the ValueError of numpy is outside of the try, is no
\* EmbeddingError, and ends the request with status 500.
SemanticBreaks ==
  /\ phase = "semantic" /\ open # {}
  /\ phase' = "failed"
  /\ UNCHANGED <<mode, rule, result, open, ranked, similar, agreed, pick, jobs, active, sent, said, learned>>

\* _shadow_targets
Targets == open \cup {c \in Cases : rule[c].sure = "none"}

\* _model_picks fails as a whole.
Picks == {Nothing} \cup {[c \in Cases |-> IF c \in Targets THEN f[c] ELSE NoName] :
                           f \in [Targets -> NamesOrNone]}

RulesCenter(c) == rule[c].name = Center

\* The rows the model settles: it agrees with the rules, or they found nothing but the center.
Settled(p) == {c \in Targets : p[c] = rule[c].name \/ ~Found(c) \/ RulesCenter(c)}

\* _model_decide, when the model works.
ModelDecides(p) ==
  LET took == {c \in Settled(p) : p[c] \notin {NoName, rule[c].name}}
      confirmed == {c \in Settled(p) : Found(c) /\ p[c] = rule[c].name /\ ~RulesCenter(c)}
  IN  /\ phase = "model" /\ mode = "decide" /\ Targets # {}
      /\ pick' = p
      /\ result' = [c \in Cases |-> IF c \in took THEN [name |-> p[c], by |-> "model"] ELSE result[c]]
      /\ learned' = [c \in Cases |-> IF c \in confirmed THEN rule[c].name ELSE learned[c]]
      /\ open' = open \ Settled(p)
      /\ phase' = "schedule"
      /\ UNCHANGED <<mode, rule, ranked, similar, agreed, jobs, active, sent, said>>

\* No model, no targets, a model that only looks on, or one that failed.
ModelSkipped ==
  /\ phase = "model"
  /\ phase' = "schedule"
  /\ UNCHANGED <<mode, rule, result, open, ranked, similar, agreed, pick, jobs, active, sent,
                 said, learned>>

\* Positions in the lists of llm_groups.
Position(c) == Cardinality({d \in InGroup(open, GroupOf[c]) : d < c})

WithinBudgetEach(order) == {c \in open : Position(c) < MaxLlm}  \* mutant: the limit is per governorate

WithinBudget(order) ==
  {c \in open : LET earlier == {d \in open : order[GroupOf[d]] < order[GroupOf[c]]}
                IN  Cardinality(earlier) + Position(c) < MaxLlm}

\* Batches are cut from the lists and then shortened to the budget.
Schedule(order) ==
  LET kept == WithinBudget(order)
      batch(c) == {d \in InGroup(kept, GroupOf[c]) : Position(d) \div Chunk = Position(c) \div Chunk}
  IN  /\ phase = "schedule"
      /\ jobs' = {batch(c) : c \in kept}
      /\ sent' = kept
      /\ phase' = "batches"
      /\ UNCHANGED <<mode, rule, result, open, ranked, similar, agreed, pick, active, said, learned>>

BatchFree == Cardinality(active) < Concurrency

\* A batch passes the semaphore.
BatchStarts(b) ==
  /\ phase = "batches" /\ b \in jobs /\ BatchFree
  /\ jobs' = jobs \ {b}
  /\ active' = active \cup {b}
  /\ UNCHANGED <<phase, mode, rule, result, open, ranked, similar, agreed, pick, sent, said, learned>>

NeverYields(c, n) == FALSE  \* mutant: the center replaces a district that the rules found

\* The center does not replace a district that the rules found with high confidence.
YieldsToRule(c, n) == n = Center /\ n # rule[c].name /\ rule[c].sure = "strong"

\* A pick that is accepted for its own agreement is learned too.
Learnable(c, n) == n # NoName /\ ((n = rule[c].name /\ Confirmed(c)) \/ n = similar[c])

\* The LLM may choose among the candidates, and its choice must be one of the catalog's names.
Answers(b) == [b -> NamesOrNone]

\* _apply_llm.  `answer` is the pick of each case that passes every check of its text, NoName
\* for no answer, a double answer, UNRESOLVED, or a pick that some check refuses.
BatchAnswered(b, answer) ==
  LET taken == {c \in b : answer[c] # NoName /\ ~YieldsToRule(c, answer[c])}
  IN  /\ phase = "batches" /\ b \in active
      /\ active' = active \ {b}
      /\ said' = [c \in Cases |-> IF c \in taken THEN answer[c] ELSE said[c]]
      /\ result' = [c \in Cases |-> IF c \in taken THEN [name |-> answer[c], by |-> "llm"]
                                    ELSE result[c]]
      /\ learned' = [c \in Cases |-> IF c \in taken /\ Learnable(c, answer[c])
                                     THEN answer[c] ELSE learned[c]]
      /\ UNCHANGED <<phase, mode, rule, open, ranked, similar, agreed, pick, jobs, sent>>

\* LLMError: _fallback for the whole batch keeps the rules' results.
BatchFails(b) ==
  /\ phase = "batches" /\ b \in active
  /\ active' = active \ {b}
  /\ UNCHANGED <<phase, mode, rule, result, open, ranked, similar, agreed, pick, jobs, sent, said, learned>>

\* gather returns; in shadow mode the model has been asked beside it.
BatchesDone(p) ==
  /\ phase = "batches" /\ jobs = {} /\ active = {}
  /\ pick' = IF mode = "shadow" /\ Targets # {} THEN p ELSE pick
  /\ phase' = "record"
  /\ UNCHANGED <<mode, rule, result, open, ranked, similar, agreed, jobs, active, sent, said, learned>>

\* _record_shadow: the pick is shown and logged; the answer stays.
Record ==
  /\ phase = "record"
  /\ phase' = "learn"
  /\ UNCHANGED <<mode, rule, result, open, ranked, similar, agreed, pick, jobs, active, sent,
                 said, learned>>

\* _learn, and the response.
Respond ==
  /\ phase = "learn"
  /\ phase' = "done"
  /\ UNCHANGED <<mode, rule, result, open, ranked, similar, agreed, pick, jobs, active, sent,
                 said, learned>>

\* SQLite fails what is learned: nobody catches it, and the finished answer is lost.
LearnFails ==
  /\ phase = "learn" /\ learned # Nothing
  /\ phase' = "failed"
  /\ UNCHANGED <<mode, rule, result, open, ranked, similar, agreed, pick, jobs, active, sent,
                 said, learned>>

Orders == {f \in [Groups -> 1..Cardinality(Groups)] : \A g, h \in Groups : f[g] = f[h] => g = h}

Next ==
  \/ \E configured \in BOOLEAN : Match(configured)
  \/ \E g \in Groups : \E near \in [InGroup(open, g) -> Names], clear \in SUBSET InGroup(open, g) :
       SemanticRanks(g, near, clear)
  \/ SemanticDone \/ SemanticFails \/ SemanticBreaks
  \/ \E p \in Picks : ModelDecides(p)
  \/ ModelSkipped
  \/ \E order \in Orders : Schedule(order)
  \/ \E b \in jobs : BatchStarts(b)
  \/ \E b \in active : BatchFails(b) \/ \E answer \in Answers(b) : BatchAnswered(b, answer)
  \/ \E p \in Picks : BatchesDone(p)
  \/ Record \/ Respond \/ LearnFails

Spec == Init /\ [][Next]_vars

-----------------------------------------------------------------------------
(* Properties *)

\* Whatever is refused later, and whichever method fails, a district that the rules found is not
\* answered by "unresolved"; a request that broke down answers nothing (correction.py 417-422, 438-523).
RulesAnswerKept == phase # "match" => \A c \in Cases : Found(c) => result[c].name # NoName

\* What spelling or a reviewer settled is never changed, nor shown to model or LLM
\* (correction.py 371-381, 199-207).
SettledStays ==
  phase # "match" =>
    \A c \in Cases : rule[c].sure \in {"settled", "refused"} =>
      result[c] = [name |-> rule[c].name, by |-> "rules"] /\ pick[c] = NoName /\ c \notin sent

\* The model never overrules a district that the rules found, and in decide mode the LLM sees
\* only the rows where the two disagree (correction.py 222-258).
ModelNeverOverrules ==
  \A c \in Cases :
    /\ result[c].by = "model" => mode = "decide" /\ (~Found(c) \/ RulesCenter(c))
    /\ c \in sent /\ pick # Nothing /\ mode = "decide" =>
         Found(c) /\ ~RulesCenter(c) /\ pick[c] # rule[c].name

\* The center never takes the place of a district that the rules found with high confidence
\* (correction.py 236-253, 515-523).
CenterYields ==
  phase # "match" =>
    \A c \in Cases : rule[c].sure = "strong" /\ result[c].name = Center => rule[c].name = Center

\* Through all stages of a request, whichever of them fail, what the rules are sure of stands:
\* a found district is not lost, a settled one not touched, one of high confidence not replaced by
\* the center, and none overruled by the model (correction.py 199-258, 371-523).
RulesStand == RulesAnswerKept /\ SettledStays /\ ModelNeverOverrules /\ CenterYields

\* Only what is answered is learned, and only what two methods agreed on: a model that looks
\* on is not one, nor are rules that doubt their own center (correction.py 131-133, 239-242,
\* 297-306, 537-543).
LearnedTwice ==
  \A c \in Cases : learned[c] # NoName =>
    LET name == learned[c]
        votes == {m \in {"rules", "semantic", "model", "llm"} :
                    \/ m = "rules" /\ rule[c].name = name /\ Confirmed(c)
                    \/ m = "rules" /\ rule[c].name = name /\ pick[c] = name /\ ~RulesCenter(c)
                    \/ m = "semantic" /\ (c \in agreed \/ similar[c] = name)
                    \/ m = "model" /\ mode = "decide" /\ pick[c] = name
                    \/ m = "llm" /\ said[c] = name}
    IN  result[c].name = name /\ Cardinality(votes) >= 2

\* The LLM is asked about at most max_llm_cases cases of a request, each in one batch of one
\* governorate, and never by more batches at once than configured (correction.py 147-175).
LlmBounded ==
  /\ Cardinality(sent) <= MaxLlm
  /\ Cardinality(active) <= Concurrency
  /\ \A b, d \in jobs \cup active :
       /\ b # d => b \cap d = {}
       /\ Cardinality(b) <= Chunk /\ \A x, y \in b : GroupOf[x] = GroupOf[y]

\* The other methods are kept in bounds: they answer names of the catalog, what is learned has two
\* votes, and the LLM has its limits (correction.py 131-175, 297-306, 468-480, 537-543).
MethodsBounded == TypeOK /\ LearnedTwice /\ LlmBounded

\* Not so, and part of no run: the other methods only assist, so that every request is answered
\* ("without it the request runs as before", correction.py:313).  SemanticBreaks and LearnFails end it.
SearchOnlyAssists == phase # "failed"
=============================================================================
