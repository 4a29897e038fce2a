---------------------------- MODULE Districts_proof ----------------------------
(***************************************************************************)
(* Proofs about the correction of districts and the names of places:       *)
(* CorrectionFlow, for any cases, names, governorates, sizes of batches    *)
(* and limits; SemanticIndex, for any requests, keys and batches;          *)
(* Matching, for any catalog, text and address; and the search of a text   *)
(* of any length.                                                          *)
(*                                                                         *)
(* The argument follows a case through the stages: only cases that the     *)
(* rules left open reach a later stage (OpenInv), what a stage sends on is *)
(* part of what was sent to it (SentInv), and what a stage puts in the     *)
(* place of the rules' result is never worse than it (ResultInv).          *)
(*                                                                         *)
(* For what is learned: a case that a later stage may still answer has     *)
(* not been learned, and the two methods that agreed on a name keep their  *)
(* votes (LearnInv).  For the LLM's limits: cases are numbered, by their   *)
(* position in a batch and by the cases ahead of them in the budget, and   *)
(* numbers below a limit are at most as many as the limit (NumberedCases). *)
(*                                                                         *)
(* The index of meanings: a request embeds only inside the lock of its key *)
(* and only after it found no vectors there, and the lock keeps every      *)
(* other request from writing them meanwhile.  So vectors come only once,  *)
(* all at a time.                                                          *)
(*                                                                         *)
(* Matching (MatchInv): every word before the part of the text that a tier *)
(* works on is context or was read by an answer with a center that waits,  *)
(* so an answer has only its own part to account for (RestReads).  What is *)
(* trimmed and skipped is context (CleanIs, StartsAre).  A name at the     *)
(* start of the text is written there (BeginningIsWritten), so the window  *)
(* that reaches furthest covers it and later tiers are not asked; and a    *)
(* name after nothing but centers is that window's (CentersGive).          *)
(*                                                                         *)
(* The search: the scan is greedy (Greedy): each hit comes before every    *)
(* other window that was left, and when there was room for more, no window *)
(* was left.                                                               *)
(***************************************************************************)
EXTENDS Districts, FiniteSetTheorems, SequenceTheorems, WellFoundedInduction, TLAPS

EarlyPhases == {"match", "semantic", "model"}

\* Only open cases go to model and LLM; the certain ones, and those without a text, do not.
OpenInv ==
  /\ \A c \in Cases : ValidRule(rule[c])
  /\ \A c \in open : NeedsAi(c)
  /\ phase \in EarlyPhases => pick = Nothing
  /\ \A c \in Cases : rule[c].sure \in {"settled", "refused"} => pick[c] = NoName

\* The LLM is given what is open, in batches of what is sent.
SentInv ==
  /\ phase \in EarlyPhases \cup {"schedule"} => sent = {} /\ jobs = {} /\ active = {}
  /\ sent \subseteq open
  /\ \A b \in jobs \cup active : b \subseteq sent

\* Once a model that decides has picked, open is where it disagrees with what the rules found.
DecidedInv ==
  mode = "decide" /\ pick # Nothing =>
    \A c \in open : Found(c) /\ ~RulesCenter(c) /\ pick[c] # rule[c].name

ResultInv ==
  /\ phase = "match" => \A c \in Cases : result[c].by = "rules"
  /\ RulesAnswerKept
  /\ phase # "match" =>
       \A c \in Cases : rule[c].sure \in {"settled", "refused"} =>
         result[c] = [name |-> rule[c].name, by |-> "rules"]
  /\ \A c \in Cases : result[c].by = "model" => mode = "decide" /\ (~Found(c) \/ RulesCenter(c))
  /\ CenterYields

FlowInv == TypeOK /\ OpenInv /\ SentInv /\ DecidedInv /\ ResultInv

-----------------------------------------------------------------------------
LEMMA NamesFact == NoName \in NamesOrNone /\ NoName \notin Names /\ Names \subseteq NamesOrNone
                   /\ Center \in NamesOrNone /\ Center # NoName
  BY FlowAssumption DEF NamesOrNone

\* What a valid result of the rules says.
LEMMA RuleFact ==
  ASSUME TypeOK, OpenInv, NEW c \in Cases
  PROVE  /\ rule[c].name \in NamesOrNone /\ rule[c].sure \in Certainty
         /\ Found(c) <=> rule[c].sure \in {"settled", "strong", "fair", "doubt"}
         /\ NeedsAi(c) => rule[c].sure \notin {"settled", "refused"}
  BY DEF TypeOK, OpenInv, Rules, ValidRule, Found, NeedsAi, Certainty

LEMMA InitFlow == Init => FlowInv
<1> SUFFICES ASSUME Init
             PROVE  FlowInv
  OBVIOUS
<1> USE NamesFact DEF Init
<1>1. TypeOK
  BY DEF TypeOK, Phases, Nothing, Methods
<1>2. OpenInv /\ SentInv /\ DecidedInv
  BY DEF OpenInv, SentInv, DecidedInv, Nothing
<1>3. ResultInv
  BY DEF ResultInv, RulesAnswerKept, CenterYields
<1> QED BY <1>1, <1>2, <1>3 DEF FlowInv

\* The rules match every case.
LEMMA RulesStep ==
  ASSUME FlowInv, NEW configured \in BOOLEAN, Match(configured)
  PROVE  FlowInv'
<1> USE DEF FlowInv
<1>1. TypeOK'
  <2>1. \A c \in Cases : rule[c].name \in NamesOrNone
    BY RuleFact
  <2>2. result' \in [Cases -> [name : NamesOrNone, by : Methods]]
    BY <2>1 DEF Match, Methods
  <2>3. open' \subseteq Cases
    BY DEF Match
  <2> QED BY <2>2, <2>3 DEF Match, TypeOK, Phases
<1>2. OpenInv'
  BY DEF Match, OpenInv, EarlyPhases, NeedsAi, ValidRule
<1>3. SentInv' /\ DecidedInv'
  BY DEF Match, SentInv, DecidedInv, OpenInv, EarlyPhases
<1>4. \A c \in Cases : result'[c] = [name |-> rule[c].name, by |-> "rules"]
  BY DEF Match
<1>5. ResultInv'
  BY <1>4, RuleFact DEF Match, ResultInv, RulesAnswerKept, CenterYields, Found, RulesCenter
<1> QED BY <1>1, <1>2, <1>3, <1>5

\* The stages that leave the results alone: semantic search settles cases, or fails.
LEMMA SemanticStep ==
  ASSUME FlowInv,
         \/ \E g \in Groups : \E near \in [InGroup(open, g) -> Names], clear \in SUBSET InGroup(open, g) :
              SemanticRanks(g, near, clear)
         \/ SemanticDone \/ SemanticFails
  PROVE  FlowInv'
<1> USE DEF FlowInv
<1>1. /\ phase = "semantic" /\ phase' \in {"semantic", "model"} /\ open' \subseteq open
      /\ UNCHANGED <<mode, rule, result, pick, jobs, active, sent, said>>
  BY DEF SemanticRanks, SemanticDone, SemanticFails
<1>2. /\ similar' \in [Cases -> NamesOrNone] /\ learned' \in [Cases -> NamesOrNone]
      /\ ranked' \subseteq Groups /\ agreed' \subseteq Cases
  <2>1. ASSUME NEW g \in Groups, NEW near \in [InGroup(open, g) -> Names],
               NEW clear \in SUBSET InGroup(open, g), SemanticRanks(g, near, clear)
        PROVE  /\ similar' \in [Cases -> NamesOrNone] /\ learned' \in [Cases -> NamesOrNone]
               /\ ranked' \subseteq Groups /\ agreed' \subseteq Cases
    <3> DEFINE cs == InGroup(open, g)
               sure == {c \in cs \cap clear : Confirmed(c) /\ near[c] = rule[c].name}
    <3>1. cs \subseteq Cases /\ sure \subseteq cs
      BY DEF InGroup, TypeOK
    <3>2. \A c \in cs : near[c] \in NamesOrNone
      BY NamesFact
    <3>3. \A c \in Cases : rule[c].name \in NamesOrNone
      BY RuleFact
    <3>4. similar' = [c \in Cases |-> IF c \in cs \ sure THEN near[c] ELSE similar[c]]
          /\ learned' = [c \in Cases |-> IF c \in sure THEN rule[c].name ELSE learned[c]]
          /\ ranked' = ranked \cup {g} /\ agreed' = agreed \cup sure
      BY <2>1 DEF SemanticRanks
    <3>5. similar \in [Cases -> NamesOrNone] /\ learned \in [Cases -> NamesOrNone]
          /\ ranked \subseteq Groups /\ agreed \subseteq Cases
      BY DEF TypeOK
    <3> HIDE DEF cs, sure
    <3> QED BY <3>1, <3>2, <3>3, <3>4, <3>5
  <2>2. CASE SemanticDone \/ SemanticFails
    BY <2>2, NamesFact DEF SemanticDone, SemanticFails, TypeOK, Nothing
  <2> QED BY <2>1, <2>2
<1>3. TypeOK'
  BY <1>1, <1>2 DEF TypeOK, Phases
<1>4. OpenInv' /\ SentInv' /\ DecidedInv'
  BY <1>1 DEF OpenInv, SentInv, DecidedInv, EarlyPhases, NeedsAi, ValidRule, Found, RulesCenter
<1>5. ResultInv'
  BY <1>1 DEF ResultInv, RulesAnswerKept, CenterYields, Found, RulesCenter
<1> QED BY <1>3, <1>4, <1>5

\* A pick is a name for a target, and nothing for the others.
LEMMA PicksType ==
  ASSUME TypeOK, OpenInv, NEW p \in Picks
  PROVE  /\ p \in [Cases -> NamesOrNone]
         /\ \A c \in Cases : rule[c].sure \in {"settled", "refused"} => p[c] = NoName
<1>1. CASE p = Nothing
  BY <1>1, NamesFact DEF Nothing
<1>2. CASE \E f \in [Targets -> NamesOrNone] : p = [c \in Cases |-> IF c \in Targets THEN f[c] ELSE NoName]
  <2>1. PICK f \in [Targets -> NamesOrNone] : p = [c \in Cases |-> IF c \in Targets THEN f[c] ELSE NoName]
    BY <1>2
  <2>2. \A c \in Targets : rule[c].sure \notin {"settled", "refused"}
    BY DEF Targets, OpenInv, NeedsAi
  <2> QED BY <2>1, <2>2, NamesFact
<1> QED BY <1>1, <1>2 DEF Picks

\* The model decides: what it settles leaves the open cases.
LEMMA ModelStep ==
  ASSUME FlowInv, NEW p \in Picks, ModelDecides(p)
  PROVE  FlowInv'
<1> DEFINE took == {c \in Settled(p) : p[c] \notin {NoName, rule[c].name}}
           confirmed == {c \in Settled(p) : Found(c) /\ p[c] = rule[c].name /\ ~RulesCenter(c)}
<1> USE DEF FlowInv
<1>1. /\ p \in [Cases -> NamesOrNone]
      /\ \A c \in Cases : rule[c].sure \in {"settled", "refused"} => p[c] = NoName
  BY PicksType
<1>2. Settled(p) \subseteq Cases /\ Targets \subseteq Cases
  BY DEF Settled, Targets, TypeOK
<1>3. /\ phase = "model" /\ phase' = "schedule" /\ mode = "decide" /\ pick' = p
      /\ result' = [c \in Cases |-> IF c \in took THEN [name |-> p[c], by |-> "model"] ELSE result[c]]
      /\ learned' = [c \in Cases |-> IF c \in confirmed THEN rule[c].name ELSE learned[c]]
      /\ open' = open \ Settled(p)
      /\ UNCHANGED <<mode, rule, ranked, similar, agreed, jobs, active, sent, said>>
  BY DEF ModelDecides
<1>4. \A c \in took : /\ c \in Cases /\ p[c] \in Names
                      /\ ~Found(c) \/ RulesCenter(c)
                      /\ rule[c].sure \notin {"settled", "refused"}
  BY <1>1, <1>2 DEF Settled, NamesOrNone
<1>5. TypeOK'
  <2>1. \A c \in Cases : rule[c].name \in NamesOrNone
    BY RuleFact
  <2>2. learned' \in [Cases -> NamesOrNone]
    BY <1>3, <2>1 DEF TypeOK
  <2>3. result' \in [Cases -> [name : NamesOrNone, by : Methods]]
    BY <1>1, <1>3 DEF TypeOK, Methods
  <2> HIDE DEF took, confirmed
  <2> QED BY <1>1, <1>3, <2>2, <2>3 DEF TypeOK, Phases
<1>6. OpenInv' /\ SentInv'
  BY <1>1, <1>3 DEF OpenInv, SentInv, EarlyPhases, NeedsAi, ValidRule
<1>7. DecidedInv'
  <2>1. \A c \in open \ Settled(p) : Found(c) /\ ~RulesCenter(c) /\ p[c] # rule[c].name
    BY DEF Settled, Targets
  <2> QED BY <1>3, <2>1 DEF DecidedInv, Found, RulesCenter
<1>8. ResultInv'
  <2>1. ASSUME NEW c \in Cases, c \in took
        PROVE  result'[c] = [name |-> p[c], by |-> "model"]
    BY <1>3, <2>1
  <2>2. ASSUME NEW c \in Cases, c \notin took
        PROVE  result'[c] = result[c]
    BY <1>3, <2>2
  <2>3. \A c \in took : rule[c].sure = "strong" => rule[c].name = Center
    BY <1>4, RuleFact DEF RulesCenter
  <2> HIDE DEF took, confirmed
  <2>4. RulesAnswerKept'
    BY <1>3, <1>4, <2>1, <2>2, NamesFact DEF ResultInv, RulesAnswerKept, Found
  <2>5. CenterYields'
    BY <1>3, <2>1, <2>2, <2>3 DEF ResultInv, CenterYields
  <2>6. \A c \in Cases : rule[c].sure \in {"settled", "refused"} =>
          result'[c] = [name |-> rule[c].name, by |-> "rules"]
    BY <1>3, <1>4, <2>2 DEF ResultInv
  <2>7. \A c \in Cases : result'[c].by = "model" => ~Found(c) \/ RulesCenter(c)
    BY <1>4, <2>1, <2>2 DEF ResultInv
  <2> QED BY <1>3, <2>4, <2>5, <2>6, <2>7 DEF ResultInv, Found, RulesCenter
<1> QED BY <1>5, <1>6, <1>7, <1>8

\* What is open, up to the budget, is cut into batches.
LEMMA ScheduleStep ==
  ASSUME FlowInv, NEW order \in Orders, Schedule(order)
  PROVE  FlowInv'
<1> USE DEF FlowInv
<1>1. WithinBudget(order) \subseteq open
  BY DEF WithinBudget
<1>2. /\ phase = "schedule" /\ phase' = "batches" /\ sent' = WithinBudget(order)
      /\ \A b \in jobs' : b \subseteq WithinBudget(order)
      /\ UNCHANGED <<mode, rule, result, open, ranked, similar, agreed, pick, active, said, learned>>
  BY DEF Schedule, InGroup
<1>3. TypeOK'
  BY <1>1, <1>2 DEF TypeOK, Phases, Batches
<1>4. OpenInv' /\ SentInv' /\ DecidedInv'
  BY <1>1, <1>2 DEF OpenInv, SentInv, DecidedInv, EarlyPhases, NeedsAi, ValidRule, Found, RulesCenter
<1>5. ResultInv'
  BY <1>2 DEF ResultInv, RulesAnswerKept, CenterYields, Found, RulesCenter
<1> QED BY <1>3, <1>4, <1>5

\* The LLM's answer to a batch: it was sent, so none of its cases is certain.
LEMMA AnswerStep ==
  ASSUME FlowInv, NEW b \in active, NEW answer \in Answers(b), BatchAnswered(b, answer)
  PROVE  FlowInv'
<1> DEFINE taken == {c \in b : answer[c] # NoName /\ ~YieldsToRule(c, answer[c])}
           learns == {c \in taken : Learnable(c, answer[c])}
<1> USE DEF FlowInv
<1>1. b \subseteq Cases /\ b \subseteq open /\ phase = "batches"
  BY DEF SentInv, TypeOK, BatchAnswered
<1>2. /\ active' = active \ {b}
      /\ said' = [c \in Cases |-> IF c \in taken THEN answer[c] ELSE said[c]]
      /\ result' = [c \in Cases |-> IF c \in taken THEN [name |-> answer[c], by |-> "llm"] ELSE result[c]]
      /\ learned' = [c \in Cases |-> IF c \in learns THEN answer[c] ELSE learned[c]]
      /\ UNCHANGED <<phase, mode, rule, open, ranked, similar, agreed, pick, jobs, sent>>
  BY DEF BatchAnswered
<1>3. \A c \in taken : /\ c \in Cases /\ answer[c] \in Names /\ answer[c] \in NamesOrNone
                       /\ rule[c].sure \notin {"settled", "refused"}
                       /\ ~YieldsToRule(c, answer[c])
  BY <1>1 DEF Answers, NamesOrNone, OpenInv, NeedsAi
<1>4. learns \subseteq taken
  OBVIOUS
<1> HIDE DEF taken, learns
<1>5. TypeOK'
  <2>1. said' \in [Cases -> NamesOrNone] /\ learned' \in [Cases -> NamesOrNone]
    BY <1>2, <1>3, <1>4 DEF TypeOK
  <2>2. result' \in [Cases -> [name : NamesOrNone, by : Methods]]
    BY <1>2, <1>3 DEF TypeOK, Methods
  <2> QED BY <1>2, <2>1, <2>2 DEF TypeOK
<1>6. OpenInv' /\ SentInv' /\ DecidedInv'
  BY <1>1, <1>2 DEF OpenInv, SentInv, DecidedInv, EarlyPhases, NeedsAi, ValidRule, Found, RulesCenter
<1>7. ResultInv'
  <2>1. \A c \in Cases : c \in taken => result'[c] = [name |-> answer[c], by |-> "llm"]
    BY <1>2
  <2>2. \A c \in Cases : c \notin taken => result'[c] = result[c]
    BY <1>2
  <2>3. RulesAnswerKept'
    BY <1>2, <1>3, <2>1, <2>2, NamesFact DEF ResultInv, RulesAnswerKept, Found
  <2>4. CenterYields'
    BY <1>1, <1>2, <1>3, <2>1, <2>2 DEF ResultInv, CenterYields, YieldsToRule
  <2>5. \A c \in Cases : rule[c].sure \in {"settled", "refused"} =>
          result'[c] = [name |-> rule[c].name, by |-> "rules"]
    BY <1>1, <1>3, <2>2 DEF ResultInv
  <2>6. \A c \in Cases : result'[c].by = "model" => mode = "decide" /\ (~Found(c) \/ RulesCenter(c))
    <3>1. ASSUME NEW c \in Cases, c \in taken
          PROVE  result'[c].by = "llm"
      <4>1. result'[c] = [name |-> answer[c], by |-> "llm"]
        BY <2>1, <3>1
      <4> QED BY <4>1
    <3>2. \A c \in Cases : result[c].by = "model" => mode = "decide" /\ (~Found(c) \/ RulesCenter(c))
      BY DEF ResultInv
    <3> QED BY <2>2, <3>1, <3>2
  <2> QED BY <1>1, <1>2, <2>3, <2>4, <2>5, <2>6 DEF ResultInv, Found, RulesCenter
<1> QED BY <1>5, <1>6, <1>7

\* Batches that start or fail, and the steps between the stages.
LEMMA OtherStep ==
  ASSUME FlowInv,
         \/ SemanticBreaks \/ ModelSkipped \/ Record \/ Respond \/ LearnFails \/ UNCHANGED vars
         \/ \E b \in jobs : BatchStarts(b)
         \/ \E b \in active : BatchFails(b)
  PROVE  FlowInv'
<1> USE DEF FlowInv
<1>1. /\ UNCHANGED <<mode, rule, result, open, ranked, similar, agreed, pick, sent, said, learned>>
      /\ phase' \in Phases /\ (phase' \in EarlyPhases \cup {"schedule"} => phase \in EarlyPhases \cup {"schedule"})
      /\ (phase' \in EarlyPhases => phase' = phase) /\ (phase = "match" => phase' = "match")
      /\ jobs' \cup active' \subseteq jobs \cup active
      /\ phase' # phase \/ UNCHANGED vars \/ phase = "batches"
  BY DEF SemanticBreaks, ModelSkipped, Record, Respond, LearnFails, vars, BatchStarts, BatchFails, Phases, EarlyPhases, TypeOK
<1>2. TypeOK'
  BY <1>1 DEF TypeOK
<1>3. OpenInv' /\ DecidedInv'
  BY <1>1 DEF OpenInv, DecidedInv, NeedsAi, ValidRule, Found, RulesCenter
<1>4. SentInv'
  BY <1>1 DEF SentInv, EarlyPhases
<1>5. ResultInv'
  BY <1>1 DEF ResultInv, RulesAnswerKept, CenterYields, Found, RulesCenter, EarlyPhases
<1> QED BY <1>2, <1>3, <1>4, <1>5

\* All batches are done; a model that only looks on was asked beside them.
LEMMA DoneStep ==
  ASSUME FlowInv, NEW p \in Picks, BatchesDone(p)
  PROVE  FlowInv'
<1> USE DEF FlowInv
<1>1. /\ phase = "batches" /\ phase' = "record"
      /\ UNCHANGED <<mode, rule, result, open, ranked, similar, agreed, jobs, active, sent, said, learned>>
      /\ pick' = pick \/ (pick' = p /\ mode = "shadow")
  BY DEF BatchesDone
<1>2. pick' \in [Cases -> NamesOrNone]
      /\ \A c \in Cases : rule[c].sure \in {"settled", "refused"} => pick'[c] = NoName
  BY <1>1, PicksType DEF TypeOK, OpenInv
<1>3. TypeOK'
  BY <1>1, <1>2 DEF TypeOK, Phases
<1>4. OpenInv' /\ SentInv'
  BY <1>1, <1>2 DEF OpenInv, SentInv, NeedsAi, ValidRule, EarlyPhases
<1>5. DecidedInv'
  BY <1>1 DEF DecidedInv, Found, RulesCenter
<1>6. ResultInv'
  BY <1>1 DEF ResultInv, RulesAnswerKept, CenterYields, Found, RulesCenter
<1> QED BY <1>3, <1>4, <1>5, <1>6

\* The whole of it is invariant.
THEOREM FlowInvariant == Spec => []FlowInv
<1>1. Init => FlowInv
  BY InitFlow
<1>2. FlowInv /\ [Next]_vars => FlowInv'
  BY RulesStep, SemanticStep, ModelStep, ScheduleStep, AnswerStep, OtherStep, DoneStep DEF Next
<1> QED BY <1>1, <1>2, PTL DEF Spec

\* Every state has the type.
THEOREM FlowTypes == Spec => []TypeOK
<1>1. FlowInv => TypeOK
  BY DEF FlowInv
<1> QED BY <1>1, FlowInvariant, PTL

\* Whichever method fails or is refused later, a district the rules found is not lost (correction.py
\* 417-422, 438-523).
THEOREM AnswersKept == Spec => []RulesAnswerKept
<1>1. FlowInv => RulesAnswerKept
  BY DEF FlowInv, ResultInv
<1> QED BY <1>1, FlowInvariant, PTL

\* What spelling or a reviewer settled is neither changed nor sent (correction.py 371-381).
THEOREM CertainStays == Spec => []SettledStays
<1>1. FlowInv => SettledStays
  <2> SUFFICES ASSUME FlowInv, phase # "match", NEW c \in Cases, rule[c].sure \in {"settled", "refused"}
               PROVE  /\ result[c] = [name |-> rule[c].name, by |-> "rules"]
                      /\ pick[c] = NoName /\ c \notin sent
    BY DEF SettledStays
  <2> QED BY DEF FlowInv, ResultInv, OpenInv, SentInv, NeedsAi
<1> QED BY <1>1, FlowInvariant, PTL

\* The model never overrules the rules, and the LLM sees their disagreements only (correction.py
\* 222-258).
THEOREM RulesOverModel == Spec => []ModelNeverOverrules
<1>1. FlowInv => ModelNeverOverrules
  BY DEF FlowInv, ModelNeverOverrules, ResultInv, DecidedInv, SentInv, TypeOK
<1> QED BY <1>1, FlowInvariant, PTL

\* The center never replaces a district found with high confidence (correction.py 236-253).
THEOREM CenterGivesPlace == Spec => []CenterYields
<1>1. FlowInv => CenterYields
  BY DEF FlowInv, ResultInv
<1> QED BY <1>1, FlowInvariant, PTL

\* What the rules are sure of stands, for any cases, names and stages that fail.
THEOREM RulesStandAlways == Spec => []RulesStand
<1>1. RulesStand <=> RulesAnswerKept /\ SettledStays /\ ModelNeverOverrules /\ CenterYields
  BY DEF RulesStand
<1> QED BY <1>1, AnswersKept, CertainStays, RulesOverModel, CenterGivesPlace, PTL
-----------------------------------------------------------------------------
(* What is learned, and the limits of the LLM. *)

\* Two methods that agree on what is learned for a case.
TwoVotes(c) ==
  \/ c \in agreed /\ Confirmed(c) /\ rule[c].name = learned[c]
  \/ mode = "decide" /\ pick[c] = learned[c] /\ rule[c].name = learned[c] /\ ~RulesCenter(c)
  \/ said[c] = learned[c] /\ rule[c].name = learned[c] /\ Confirmed(c)
  \/ said[c] = learned[c] /\ similar[c] = learned[c]

\* Whatever a later stage may still answer has not been learned.
LearnInv ==
  /\ phase = "match" => learned = Nothing
  /\ phase \in EarlyPhases => said = Nothing
  /\ phase \in {"semantic", "model"} => \A c \in Cases : result[c].name = rule[c].name
  /\ phase \in EarlyPhases \cup {"schedule"} => \A c \in open : learned[c] = NoName
  /\ \A b \in jobs \cup active : \A c \in b : learned[c] = NoName
  /\ \A c \in Cases : learned[c] # NoName => result[c].name = learned[c] /\ TwoVotes(c)

\* A batch waits or runs, and no case is in two.
BatchInv == jobs \cap active = {} /\ LlmBounded

BoundsInv == LearnInv /\ BatchInv

-----------------------------------------------------------------------------
LEMMA CasesFinite ==
  ASSUME NEW S \in SUBSET Cases
  PROVE  IsFiniteSet(S) /\ Cardinality(S) \in Nat
  BY FlowAssumption, FS_Subset, FS_CardinalityType

\* A set of cases is smaller than one that has all of it and one case more.
LEMMA SmallerSet ==
  ASSUME NEW S \in SUBSET Cases, NEW T \in SUBSET S, NEW c \in S \ T
  PROVE  Cardinality(T) < Cardinality(S)
<1>1. IsFiniteSet(S) /\ Cardinality(S) \in Nat /\ Cardinality(T) \in Nat
  BY CasesFinite
<1>2. Cardinality(T) <= Cardinality(S) /\ (Cardinality(S) = Cardinality(T) => S = T)
  BY <1>1, FS_Subset
<1> QED BY <1>1, <1>2

\* Cases with different numbers of an interval are at most as many as the interval has.
LEMMA NumberedCases ==
  ASSUME NEW S \in SUBSET Cases, NEW first \in Nat, NEW n \in Nat,
         NEW number \in [S -> first .. (first + n - 1)],
         \A c, d \in S : number[c] = number[d] => c = d
  PROVE  Cardinality(S) <= n
<1>1. IsFiniteSet(first .. (first + n - 1)) /\ Cardinality(first .. (first + n - 1)) = n
  BY FS_Interval
<1>2. number \in Injection(S, first .. (first + n - 1))
  BY DEF Injection, IsInjective
<1> QED BY <1>1, <1>2, FS_Injection

\* Positions grow in the list of a governorate.
LEMMA PositionGrows ==
  ASSUME open \subseteq Cases, NEW c \in open, NEW d \in open, GroupOf[c] = GroupOf[d], c < d
  PROVE  Position(c) < Position(d)
<1> DEFINE below(x) == {y \in InGroup(open, GroupOf[x]) : y < x}
<1>0. \A x \in Cases : x \in Nat
  BY FlowAssumption
<1>1. below(d) \subseteq Cases /\ c \in below(d) \ below(c)
  BY <1>0 DEF InGroup
<1>2. below(c) \subseteq below(d)
  BY <1>0 DEF InGroup
<1>3. Cardinality(below(c)) < Cardinality(below(d))
  BY <1>1, <1>2, SmallerSet
<1> QED BY <1>3 DEF Position

LEMMA PositionType ==
  ASSUME open \subseteq Cases, NEW c \in open
  PROVE  Position(c) \in Nat
  BY CasesFinite DEF Position, InGroup

LEMMA Quotient ==
  ASSUME NEW p \in Nat, NEW n \in Nat \ {0}
  PROVE  p \div n \in Nat /\ n * (p \div n) <= p /\ p <= n * (p \div n) + n - 1
  OBVIOUS

\* A batch has at most Chunk cases: their positions are different, with the same quotient.
LEMMA BatchSize ==
  ASSUME open \subseteq Cases, NEW kept \in SUBSET open, NEW c \in kept
  PROVE  Cardinality({d \in InGroup(kept, GroupOf[c]) : Position(d) \div Chunk = Position(c) \div Chunk}) <= Chunk
<1> DEFINE batch == {d \in InGroup(kept, GroupOf[c]) : Position(d) \div Chunk = Position(c) \div Chunk}
           k == Position(c) \div Chunk
           first == Chunk * k
<1>1. batch \subseteq Cases /\ batch \subseteq open /\ \A d \in batch : GroupOf[d] = GroupOf[c]
  BY DEF InGroup
<1>2. Chunk \in Nat \ {0}
  BY FlowAssumption
<1>3. k \in Nat /\ first \in Nat
  BY <1>2, PositionType
<1>4. ASSUME NEW d \in batch
      PROVE  Position(d) \in first .. (first + Chunk - 1)
  <2>1. Position(d) \in Nat /\ Position(d) \div Chunk = k
    BY <1>1, PositionType
  <2>2. first <= Position(d) /\ Position(d) <= first + Chunk - 1
    BY <1>2, <2>1, Quotient
  <2> HIDE DEF first
  <2> QED BY <1>2, <1>3, <2>1, <2>2
<1>5. ASSUME NEW d \in batch, NEW e \in batch, Position(d) = Position(e)
      PROVE  d = e
  <2>1. d \in Nat /\ e \in Nat /\ Position(d) \in Nat /\ Position(e) \in Nat
    BY <1>1, PositionType, FlowAssumption
  <2>2. ~(d < e) /\ ~(e < d)
    BY <1>1, <1>5, <2>1, PositionGrows
  <2> QED BY <2>1, <2>2
<1> DEFINE number == [d \in batch |-> Position(d)]
<1>6. number \in [batch -> first .. (first + Chunk - 1)]
  BY <1>4
<1>7. \A d, e \in batch : number[d] = number[e] => d = e
  BY <1>5
<1> HIDE DEF number, batch, first
<1>8. Cardinality(batch) <= Chunk
  BY <1>1, <1>2, <1>3, <1>6, <1>7, NumberedCases
<1> QED BY <1>8 DEF batch

\* At most MaxLlm cases are sent: each has another number of cases before it.
LEMMA BudgetHolds ==
  ASSUME open \subseteq Cases, NEW order \in Orders
  PROVE  Cardinality(WithinBudget(order)) <= MaxLlm
<1> DEFINE kept == WithinBudget(order)
           earlier(c) == {d \in open : order[GroupOf[d]] < order[GroupOf[c]]}
           below(c) == {d \in InGroup(open, GroupOf[c]) : d < c}
           ahead(c) == earlier(c) \cup below(c)
<1>1. /\ \A c \in Cases : c \in Nat /\ GroupOf[c] \in Groups
      /\ \A g \in Groups : order[g] \in Int
      /\ \A g, h \in Groups : order[g] = order[h] => g = h
      /\ MaxLlm \in Nat
  <2>1. \A g \in Groups : order[g] \in 1..Cardinality(Groups)
    BY DEF Orders
  <2>2. \A n \in 1..Cardinality(Groups) : n \in Int
    OBVIOUS
  <2> QED BY <2>1, <2>2, FlowAssumption DEF Orders
<1>2. ASSUME NEW c \in open
      PROVE  /\ ahead(c) \subseteq Cases /\ Cardinality(ahead(c)) \in Nat
             /\ Cardinality(ahead(c)) = Cardinality(earlier(c)) + Position(c)
  <2>1. earlier(c) \in SUBSET Cases /\ below(c) \in SUBSET Cases /\ earlier(c) \cap below(c) = {}
    BY <1>1 DEF InGroup
  <2>2. IsFiniteSet(earlier(c)) /\ IsFiniteSet(below(c)) /\ Cardinality(earlier(c)) \in Nat /\ Cardinality(below(c)) \in Nat
    BY <2>1, CasesFinite
  <2>3. Cardinality(ahead(c)) = Cardinality(earlier(c)) + Cardinality(below(c)) - Cardinality(earlier(c) \cap below(c))
    BY <2>2, FS_Union
  <2>4. Cardinality(earlier(c) \cap below(c)) = 0
    BY <2>1, FS_EmptySet
  <2>5. Position(c) = Cardinality(below(c))
    BY DEF Position
  <2> HIDE DEF earlier, below
  <2> QED BY <2>1, <2>2, <2>3, <2>4, <2>5
<1>3. kept \subseteq open /\ \A c \in kept : Cardinality(ahead(c)) < MaxLlm
  BY <1>2 DEF WithinBudget
<1>4. ASSUME NEW c \in open, NEW d \in open, c # d
      PROVE  Cardinality(ahead(c)) # Cardinality(ahead(d))
  <2>1. ASSUME NEW x \in open, NEW y \in open,
               order[GroupOf[x]] < order[GroupOf[y]] \/ (GroupOf[x] = GroupOf[y] /\ x < y)
        PROVE  Cardinality(ahead(x)) < Cardinality(ahead(y))
    <3>1. x \in ahead(y) \ ahead(x)
      BY <1>1, <2>1 DEF InGroup
    <3>2. ahead(x) \subseteq ahead(y)
      BY <1>1, <2>1 DEF InGroup
    <3> QED BY <1>2, <3>1, <3>2, SmallerSet
  <2>2. \/ order[GroupOf[c]] < order[GroupOf[d]] \/ order[GroupOf[d]] < order[GroupOf[c]]
        \/ (GroupOf[c] = GroupOf[d] /\ c < d) \/ (GroupOf[c] = GroupOf[d] /\ d < c)
    BY <1>1, <1>4
  <2>3. Cardinality(ahead(c)) \in Nat /\ Cardinality(ahead(d)) \in Nat
    BY <1>2
  <2>4. Cardinality(ahead(c)) < Cardinality(ahead(d)) \/ Cardinality(ahead(d)) < Cardinality(ahead(c))
    BY <2>1, <2>2
  <2> HIDE DEF ahead
  <2> QED BY <2>3, <2>4
<1> DEFINE number == [c \in kept |-> Cardinality(ahead(c))]
<1>5. number \in [kept -> 0 .. (0 + MaxLlm - 1)]
  <2>1. ASSUME NEW c \in kept
        PROVE  Cardinality(ahead(c)) \in 0 .. (0 + MaxLlm - 1)
    <3>1. Cardinality(ahead(c)) \in Nat /\ Cardinality(ahead(c)) < MaxLlm
      BY <1>2, <1>3
    <3> HIDE DEF ahead
    <3> QED BY <1>1, <3>1
  <2> HIDE DEF ahead, kept
  <2> QED BY <2>1
<1>6. \A c, d \in kept : number[c] = number[d] => c = d
  BY <1>3, <1>4
<1>7. kept \in SUBSET Cases
  BY <1>3
<1> HIDE DEF kept, number
<1>8. Cardinality(kept) <= MaxLlm
  BY <1>1, <1>5, <1>6, <1>7, NumberedCases
<1> QED BY <1>8 DEF kept

-----------------------------------------------------------------------------
LEMMA InitBounds == Init => BoundsInv
<1> SUFFICES ASSUME Init
             PROVE  BoundsInv
  OBVIOUS
<1>1. LearnInv
  BY DEF Init, LearnInv, EarlyPhases, Nothing
<1>2. Cardinality({}) = 0
  BY FS_EmptySet
<1>3. BatchInv
  BY <1>2, FlowAssumption DEF Init, BatchInv, LlmBounded
<1> QED BY <1>1, <1>3 DEF BoundsInv

\* Batches and the cases sent are touched by the LLM's stage only.
LEMMA BatchKept ==
  ASSUME BatchInv, UNCHANGED <<jobs, active, sent>>
  PROVE  BatchInv'
  BY DEF BatchInv, LlmBounded

LEMMA MatchBounds ==
  ASSUME FlowInv, BoundsInv, NEW configured \in BOOLEAN, Match(configured)
  PROVE  BoundsInv'
<1> USE DEF BoundsInv
<1>1. /\ phase = "match" /\ phase' = "semantic"
      /\ \A c \in Cases : result'[c].name = rule[c].name
      /\ UNCHANGED <<mode, rule, pick, jobs, active, said, learned, similar, agreed, sent>>
      /\ open' \subseteq Cases
  BY DEF Match
<1>2. learned = Nothing /\ \A c \in Cases : learned[c] = NoName
  BY <1>1 DEF LearnInv, Nothing
<1>3. LearnInv'
  BY <1>1, <1>2 DEF LearnInv, EarlyPhases
<1> QED BY <1>1, <1>3, BatchKept

\* What semantic search settles is learned with the rules' vote and its own; later stages do not
\* see it.
LEMMA SemanticBounds ==
  ASSUME FlowInv, BoundsInv,
         \/ \E g \in Groups : \E near \in [InGroup(open, g) -> Names], clear \in SUBSET InGroup(open, g) :
              SemanticRanks(g, near, clear)
         \/ SemanticDone \/ SemanticFails
  PROVE  BoundsInv'
<1> USE DEF BoundsInv
<1>1. /\ phase = "semantic" /\ phase' \in {"semantic", "model"}
      /\ UNCHANGED <<mode, rule, result, pick, jobs, active, sent, said>>
  BY DEF SemanticRanks, SemanticDone, SemanticFails
<1>2. pick = Nothing /\ said = Nothing
  BY <1>1 DEF FlowInv, OpenInv, LearnInv, EarlyPhases
<1>3. \A c \in Cases : learned[c] # NoName => c \in agreed /\ Confirmed(c) /\ rule[c].name = learned[c]
  BY <1>2 DEF LearnInv, TwoVotes, Nothing
<1>4. /\ open' \subseteq open
      /\ \A c \in open' : c \in Cases => learned'[c] = NoName
      /\ \A c \in Cases : learned'[c] # NoName => c \in agreed' /\ Confirmed(c) /\ rule[c].name = learned'[c]
      /\ jobs = {} /\ active = {}
  <2>1. jobs = {} /\ active = {}
    BY <1>1 DEF FlowInv, SentInv, EarlyPhases
  <2>2. ASSUME NEW g \in Groups, NEW near \in [InGroup(open, g) -> Names],
               NEW clear \in SUBSET InGroup(open, g), SemanticRanks(g, near, clear)
        PROVE  /\ open' \subseteq open
               /\ \A c \in open' : c \in Cases => learned'[c] = NoName
               /\ \A c \in Cases : learned'[c] # NoName => c \in agreed' /\ Confirmed(c) /\ rule[c].name = learned'[c]
    <3> DEFINE cs == InGroup(open, g)
               sure == {c \in cs \cap clear : Confirmed(c) /\ near[c] = rule[c].name}
    <3>1. \A c \in sure : Confirmed(c)
      OBVIOUS
    <3>2. /\ agreed' = agreed \cup sure /\ open' = open \ sure
          /\ learned' = [c \in Cases |-> IF c \in sure THEN rule[c].name ELSE learned[c]]
      BY <2>2 DEF SemanticRanks
    <3>3. \A c \in open : learned[c] = NoName
      BY <1>1 DEF LearnInv, EarlyPhases
    <3> HIDE DEF cs, sure
    <3> QED BY <1>3, <3>1, <3>2, <3>3
  <2>3. CASE SemanticDone \/ SemanticFails
    <3>1. open' = open /\ learned' = learned /\ agreed' = agreed
      BY <2>3 DEF SemanticDone, SemanticFails
    <3>2. \A c \in open : learned[c] = NoName
      BY <1>1 DEF LearnInv, EarlyPhases
    <3> QED BY <1>3, <2>1, <3>1, <3>2
  <2> QED BY <2>1, <2>2, <2>3
<1>5. open' \subseteq Cases
  BY <1>4 DEF FlowInv, TypeOK
<1>6. LearnInv'
  BY <1>1, <1>2, <1>4, <1>5 DEF LearnInv, EarlyPhases, TwoVotes, Confirmed, Found
<1> QED BY <1>1, <1>6, BatchKept

\* What the model agrees on is learned; what it takes was not learned before.
LEMMA ModelBounds ==
  ASSUME FlowInv, BoundsInv, NEW p \in Picks, ModelDecides(p)
  PROVE  BoundsInv'
<1> DEFINE took == {c \in Settled(p) : p[c] \notin {NoName, rule[c].name}}
           confirmed == {c \in Settled(p) : Found(c) /\ p[c] = rule[c].name /\ ~RulesCenter(c)}
<1> USE DEF BoundsInv
<1>1. /\ phase = "model" /\ phase' = "schedule" /\ mode = "decide" /\ pick' = p
      /\ result' = [c \in Cases |-> IF c \in took THEN [name |-> p[c], by |-> "model"] ELSE result[c]]
      /\ learned' = [c \in Cases |-> IF c \in confirmed THEN rule[c].name ELSE learned[c]]
      /\ open' = open \ Settled(p)
      /\ UNCHANGED <<mode, rule, ranked, similar, agreed, jobs, active, sent, said>>
  BY DEF ModelDecides
<1>2. /\ pick = Nothing /\ said = Nothing /\ jobs = {} /\ active = {}
      /\ \A c \in Cases : result[c].name = rule[c].name
      /\ \A c \in open : learned[c] = NoName
      /\ open \subseteq Cases
  BY <1>1 DEF FlowInv, OpenInv, SentInv, LearnInv, EarlyPhases, TypeOK
<1>3. \A c \in Cases : learned[c] # NoName =>
        c \in agreed /\ Confirmed(c) /\ rule[c].name = learned[c] /\ c \notin Targets
  <2>1. \A c \in Cases : learned[c] # NoName => c \in agreed /\ Confirmed(c) /\ rule[c].name = learned[c]
    BY <1>2 DEF LearnInv, TwoVotes, Nothing
  <2>2. \A c \in Cases : Found(c) => rule[c].sure # "none"
    BY DEF FlowInv, OpenInv, ValidRule, Found
  <2> QED BY <1>2, <2>1, <2>2 DEF Targets, Confirmed
<1>4. \A c \in confirmed : /\ c \in Targets /\ c \notin took /\ p[c] = rule[c].name /\ ~RulesCenter(c)
  BY DEF Settled
<1>5. \A c \in took : c \in Targets
  BY DEF Settled
<1> HIDE DEF took, confirmed
<1>6. \A c \in Cases : learned'[c] # NoName => result'[c].name = learned'[c] /\ TwoVotes(c)'
  <2> SUFFICES ASSUME NEW c \in Cases, learned'[c] # NoName
               PROVE  result'[c].name = learned'[c] /\ TwoVotes(c)'
    OBVIOUS
  <2>1. CASE c \in confirmed
    BY <1>1, <1>2, <1>4, <2>1 DEF TwoVotes, RulesCenter
  <2>2. CASE c \notin confirmed
    <3>1. learned'[c] = learned[c] /\ learned[c] # NoName
      BY <1>1, <2>2
    <3>2. result'[c] = result[c]
      BY <1>1, <1>3, <1>5, <3>1
    <3> QED BY <1>1, <1>2, <1>3, <3>1, <3>2 DEF TwoVotes, Confirmed, Found
  <2> QED BY <2>1, <2>2
<1>7. \A c \in open' : learned'[c] = NoName
  <2>1. \A c \in confirmed : c \in Settled(p)
    BY DEF confirmed
  <2> QED BY <1>1, <1>2, <2>1
<1>8. LearnInv'
  BY <1>1, <1>2, <1>6, <1>7 DEF LearnInv, EarlyPhases
<1> QED BY <1>1, <1>8, BatchKept

\* The batches: of one governorate, apart, of at most Chunk cases, and within the budget.
LEMMA ScheduleBounds ==
  ASSUME FlowInv, BoundsInv, NEW order \in Orders, Schedule(order)
  PROVE  BoundsInv'
<1> DEFINE kept == WithinBudget(order)
           batch(c) == {d \in InGroup(kept, GroupOf[c]) : Position(d) \div Chunk = Position(c) \div Chunk}
<1> USE DEF BoundsInv
<1>1. /\ phase = "schedule" /\ phase' = "batches" /\ sent' = kept
      /\ jobs' = {batch(c) : c \in kept}
      /\ UNCHANGED <<mode, rule, result, open, ranked, similar, agreed, pick, active, said, learned>>
  BY DEF Schedule
<1>2. kept \subseteq open /\ open \subseteq Cases /\ active = {} /\ \A c \in open : learned[c] = NoName
  BY <1>1 DEF WithinBudget, FlowInv, TypeOK, SentInv, LearnInv, EarlyPhases
<1>3. \A c \in kept : batch(c) \subseteq kept /\ \A x \in batch(c) : GroupOf[x] = GroupOf[c]
  BY DEF InGroup
<1>4. \A c, d \in kept : batch(c) \cap batch(d) # {} => batch(c) = batch(d)
  BY DEF InGroup
<1>5. \A c \in kept : Cardinality(batch(c)) <= Chunk
  BY <1>2, BatchSize
<1>6. Cardinality(kept) <= MaxLlm
  BY <1>2, BudgetHolds
<1>7. Cardinality({}) = 0 /\ 0 <= Concurrency
  BY FS_EmptySet, FlowAssumption
<1> HIDE DEF kept, batch
<1>8. LearnInv'
  <2>1. \A b \in jobs' : \A c \in b : learned'[c] = NoName
    BY <1>1, <1>2, <1>3
  <2> QED BY <1>1, <1>2, <2>1 DEF LearnInv, EarlyPhases, TwoVotes, Confirmed, Found, RulesCenter
<1>9. BatchInv'
  <2>1. Cardinality(sent') <= MaxLlm
    BY <1>1, <1>6
  <2>2. Cardinality(active') <= Concurrency
    BY <1>1, <1>2, <1>7
  <2>3. ASSUME NEW b \in jobs', NEW d \in jobs'
        PROVE  /\ b # d => b \cap d = {}
               /\ Cardinality(b) <= Chunk /\ \A x, y \in b : GroupOf[x] = GroupOf[y]
    BY <1>1, <1>3, <1>4, <1>5
  <2> QED BY <1>1, <1>2, <2>1, <2>2, <2>3 DEF BatchInv, LlmBounded
<1> QED BY <1>8, <1>9

LEMMA BatchesFinite ==
  ASSUME TypeOK
  PROVE  IsFiniteSet(active) /\ Cardinality(active) \in Nat
<1>1. IsFiniteSet(SUBSET Cases)
  BY FlowAssumption, FS_SUBSET
<1>2. active \in SUBSET (SUBSET Cases)
  BY DEF TypeOK, Batches
<1> QED BY <1>1, <1>2, FS_Subset, FS_CardinalityType

\* A batch that is over leaves the others apart and no more of them.
LEMMA BatchLeaves ==
  ASSUME TypeOK, BatchInv, NEW b \in active, active' = active \ {b}, UNCHANGED <<jobs, sent>>
  PROVE  BatchInv'
<1>1. Cardinality(active \ {b}) = Cardinality(active) - 1 /\ Cardinality(active) \in Nat
  BY BatchesFinite, FS_RemoveElement
<1>2. Cardinality(active') <= Concurrency
  BY <1>1, FlowAssumption DEF BatchInv, LlmBounded
<1> QED BY <1>2 DEF BatchInv, LlmBounded

\* What the LLM's answer makes learned has the LLM's vote and that of the rules or of the meaning;
\* the cases of the other batches are not touched.
LEMMA AnswerBounds ==
  ASSUME FlowInv, BoundsInv, NEW b \in active, NEW answer \in Answers(b), BatchAnswered(b, answer)
  PROVE  BoundsInv'
<1> DEFINE taken == {c \in b : answer[c] # NoName /\ ~YieldsToRule(c, answer[c])}
           learns == {c \in taken : Learnable(c, answer[c])}
<1> USE DEF BoundsInv
<1>1. /\ phase = "batches" /\ active' = active \ {b}
      /\ said' = [c \in Cases |-> IF c \in taken THEN answer[c] ELSE said[c]]
      /\ result' = [c \in Cases |-> IF c \in taken THEN [name |-> answer[c], by |-> "llm"] ELSE result[c]]
      /\ learned' = [c \in Cases |-> IF c \in learns THEN answer[c] ELSE learned[c]]
      /\ UNCHANGED <<phase, mode, rule, open, ranked, similar, agreed, pick, jobs, sent>>
  BY DEF BatchAnswered
<1>2. b \subseteq Cases /\ jobs \cup active \subseteq SUBSET Cases
  BY DEF FlowInv, TypeOK, Batches
<1>3. \A c \in b : learned[c] = NoName
  BY DEF LearnInv
<1>4. \A c \in learns : c \in taken /\ answer[c] # NoName
                        /\ ((answer[c] = rule[c].name /\ Confirmed(c)) \/ answer[c] = similar[c])
  BY DEF Learnable
<1>5. taken \subseteq b
  OBVIOUS
<1> HIDE DEF taken, learns
<1>6. \A c \in Cases : learned'[c] # NoName => result'[c].name = learned'[c] /\ TwoVotes(c)'
  <2> SUFFICES ASSUME NEW c \in Cases, learned'[c] # NoName
               PROVE  result'[c].name = learned'[c] /\ TwoVotes(c)'
    OBVIOUS
  <2>1. CASE c \in learns
    <3>1. result'[c] = [name |-> answer[c], by |-> "llm"] /\ said'[c] = answer[c] /\ learned'[c] = answer[c]
      BY <1>1, <1>4, <2>1
    <3>2. result'[c].name = answer[c]
      BY <3>1
    <3> QED BY <1>1, <1>4, <2>1, <3>1, <3>2 DEF TwoVotes, Confirmed, Found
  <2>2. CASE c \notin learns
    <3>1. learned'[c] = learned[c] /\ learned[c] # NoName
      BY <1>1, <2>2
    <3>2. result'[c] = result[c] /\ said'[c] = said[c]
      BY <1>1, <1>3, <1>5, <3>1
    <3>3. result[c].name = learned[c] /\ TwoVotes(c)
      BY <3>1 DEF LearnInv
    <3> QED BY <1>1, <3>1, <3>2, <3>3 DEF TwoVotes, Confirmed, Found, RulesCenter
  <2> QED BY <2>1, <2>2
<1>7. ASSUME NEW d \in jobs' \cup active', NEW c \in d
      PROVE  learned'[c] = NoName
  <2>1. d \in jobs \cup active /\ d # b
    BY <1>1 DEF BatchInv
  <2>2. c \notin b /\ c \in Cases
    BY <1>2, <2>1 DEF BatchInv, LlmBounded
  <2> QED BY <1>1, <1>4, <1>5, <2>1, <2>2 DEF LearnInv
<1>8. LearnInv'
  BY <1>1, <1>6, <1>7 DEF LearnInv, EarlyPhases
<1> QED BY <1>1, <1>8, BatchLeaves DEF FlowInv

\* A batch passes the semaphore, or the LLM fails with it.
LEMMA BatchBounds ==
  ASSUME FlowInv, BoundsInv,
         (\E b \in jobs : BatchStarts(b)) \/ (\E b \in active : BatchFails(b))
  PROVE  BoundsInv'
<1> USE DEF BoundsInv
<1>1. /\ UNCHANGED <<phase, mode, rule, result, open, ranked, similar, agreed, pick, sent, said, learned>>
      /\ jobs' \cup active' \subseteq jobs \cup active
  BY DEF BatchStarts, BatchFails
<1>2. LearnInv'
  BY <1>1 DEF LearnInv, TwoVotes, Confirmed, Found, RulesCenter
<1>3. ASSUME NEW b \in jobs, BatchStarts(b)
      PROVE  BatchInv'
  <2>1. jobs' = jobs \ {b} /\ active' = active \cup {b} /\ Cardinality(active) < Concurrency /\ b \notin active
    BY <1>3 DEF BatchStarts, BatchFree, BatchInv
  <2>2. Cardinality(active \cup {b}) = Cardinality(active) + 1 /\ Cardinality(active) \in Nat
    BY <2>1, BatchesFinite, FS_AddElement DEF FlowInv
  <2>3. Cardinality(active') <= Concurrency
    BY <2>1, <2>2, FlowAssumption
  <2> QED BY <1>1, <2>1, <2>3 DEF BatchInv, LlmBounded
<1>4. ASSUME NEW b \in active, BatchFails(b)
      PROVE  BatchInv'
  BY <1>4, BatchLeaves DEF BatchFails, FlowInv
<1> QED BY <1>2, <1>3, <1>4

\* The steps between the stages; a model that only looks on has no vote.
LEMMA StageBounds ==
  ASSUME FlowInv, BoundsInv,
         \/ SemanticBreaks \/ ModelSkipped \/ Record \/ Respond \/ LearnFails \/ UNCHANGED vars
         \/ \E p \in Picks : BatchesDone(p)
  PROVE  BoundsInv'
<1> USE DEF BoundsInv
<1>1. /\ UNCHANGED <<mode, rule, result, open, ranked, similar, agreed, jobs, active, sent, said, learned>>
      /\ mode = "shadow" \/ pick' = pick
      /\ phase' \in EarlyPhases \cup {"schedule"} => phase \in EarlyPhases \cup {"schedule"}
      /\ phase' \in EarlyPhases => phase' = phase
  BY DEF SemanticBreaks, ModelSkipped, Record, Respond, LearnFails, vars, BatchesDone, EarlyPhases
<1>2. \A c \in Cases : TwoVotes(c) => TwoVotes(c)'
  BY <1>1 DEF TwoVotes, Confirmed, Found, RulesCenter
<1>3. LearnInv'
  BY <1>1, <1>2 DEF LearnInv, EarlyPhases
<1> QED BY <1>1, <1>3, BatchKept

\* Two different elements of a small set of votes.
LEMMA TwoOf ==
  ASSUME NEW S \in SUBSET {"rules", "semantic", "model", "llm"}, NEW v \in S, NEW w \in S, v # w
  PROVE  Cardinality(S) >= 2
<1>1. IsFiniteSet({"rules", "semantic", "model", "llm"})
  <2>1. IsFiniteSet({"rules"})
    BY FS_Singleton
  <2>2. IsFiniteSet({"rules"} \cup {"semantic"})
    BY <2>1, FS_AddElement
  <2>3. IsFiniteSet(({"rules"} \cup {"semantic"}) \cup {"model"})
    BY <2>2, FS_AddElement
  <2>4. IsFiniteSet((({"rules"} \cup {"semantic"}) \cup {"model"}) \cup {"llm"})
    BY <2>3, FS_AddElement
  <2>5. (({"rules"} \cup {"semantic"}) \cup {"model"}) \cup {"llm"} = {"rules", "semantic", "model", "llm"}
    OBVIOUS
  <2> QED BY <2>4, <2>5
<1>2. IsFiniteSet(S) /\ Cardinality(S) \in Nat
  BY <1>1, FS_Subset, FS_CardinalityType
<1>3. Cardinality(S) # 0 /\ Cardinality(S) # 1
  BY <1>2, FS_EmptySet, FS_Singleton
<1> QED BY <1>2, <1>3

LEMMA VotesCount == LearnInv => LearnedTwice
<1> SUFFICES ASSUME LearnInv, NEW c \in Cases, learned[c] # NoName
             PROVE  LET name == learned[c]
                        votes == {m \in {"rules", "semantic", "model", "llm"} :
                                    \/ m = "rules" /\ rule[c].name = name /\ Confirmed(c)
                                    \/ m = "rules" /\ rule[c].name = name /\ pick[c] = name /\ ~RulesCenter(c)
                                    \/ m = "semantic" /\ (c \in agreed \/ similar[c] = name)
                                    \/ m = "model" /\ mode = "decide" /\ pick[c] = name
                                    \/ m = "llm" /\ said[c] = name}
                    IN  result[c].name = name /\ Cardinality(votes) >= 2
  BY DEF LearnedTwice
<1> DEFINE name == learned[c]
           votes == {m \in {"rules", "semantic", "model", "llm"} :
                                    \/ m = "rules" /\ rule[c].name = name /\ Confirmed(c)
                                    \/ m = "rules" /\ rule[c].name = name /\ pick[c] = name /\ ~RulesCenter(c)
                                    \/ m = "semantic" /\ (c \in agreed \/ similar[c] = name)
                                    \/ m = "model" /\ mode = "decide" /\ pick[c] = name
                                    \/ m = "llm" /\ said[c] = name}
<1>1. result[c].name = name /\ TwoVotes(c)
  BY DEF LearnInv
<1>2. \E v, w \in votes : v # w
  <2>1. CASE c \in agreed /\ Confirmed(c) /\ rule[c].name = name
    <3>1. "rules" \in votes /\ "semantic" \in votes /\ "rules" # "semantic"
      BY <2>1
    <3> QED BY <3>1
  <2>2. CASE mode = "decide" /\ pick[c] = name /\ rule[c].name = name /\ ~RulesCenter(c)
    <3>1. "rules" \in votes /\ "model" \in votes /\ "rules" # "model"
      BY <2>2
    <3> QED BY <3>1
  <2>3. CASE said[c] = name /\ rule[c].name = name /\ Confirmed(c)
    <3>1. "rules" \in votes /\ "llm" \in votes /\ "rules" # "llm"
      BY <2>3
    <3> QED BY <3>1
  <2>4. CASE said[c] = name /\ similar[c] = name
    <3>1. "semantic" \in votes /\ "llm" \in votes /\ "semantic" # "llm"
      BY <2>4
    <3> QED BY <3>1
  <2> QED BY <1>1, <2>1, <2>2, <2>3, <2>4 DEF TwoVotes
<1>3. votes \in SUBSET {"rules", "semantic", "model", "llm"}
  OBVIOUS
<1> HIDE DEF votes
<1>4. Cardinality(votes) >= 2
  BY <1>2, <1>3, TwoOf
<1> QED BY <1>1, <1>4 DEF votes

\* What is learned and the limits are invariant, with what FlowInv says of the stages.
THEOREM BoundsInvariant == Spec => [](FlowInv /\ BoundsInv)
<1>1. Init => FlowInv /\ BoundsInv
  BY InitFlow, InitBounds
<1>2. FlowInv /\ BoundsInv /\ [Next]_vars => BoundsInv'
  BY MatchBounds, SemanticBounds, ModelBounds, ScheduleBounds, AnswerBounds, BatchBounds, StageBounds DEF Next
<1>3. FlowInv /\ [Next]_vars => FlowInv'
  BY RulesStep, SemanticStep, ModelStep, ScheduleStep, AnswerStep, OtherStep, DoneStep DEF Next
<1> QED BY <1>1, <1>2, <1>3, PTL DEF Spec

\* The other methods are kept in bounds, for any cases, limits and answers: names of the catalog,
\* two votes for what is learned, at most MaxLlm cases for the LLM, each in one batch of one
\* governorate, and at most Concurrency batches at once (correction.py 131-175, 297-306, 537-543).
THEOREM MethodsAreBounded == Spec => []MethodsBounded
<1>1. FlowInv /\ BoundsInv => MethodsBounded
  BY VotesCount DEF FlowInv, BoundsInv, BatchInv, MethodsBounded
<1> QED BY <1>1, BoundsInvariant, PTL

-----------------------------------------------------------------------------
(* The index of meanings. *)

\* There are all the vectors of a key or none, and they were embedded as often as they are there.
CacheInv ==
  \A k \in Keys :
    \/ vectors[k] = 0 /\ embedded[k] = 0
    \/ vectors[k] = NameBatches /\ embedded[k] = 1

\* Who embeds a key has found no vectors, and keeps them when no batch is missing.
WorkInv ==
  \A r \in Requests :
    /\ pc[r] \in {"embed", "keep"} => vectors[key[r]] = 0
    /\ pc[r] = "embed" => answered[r] < NameBatches
    /\ pc[r] = "keep" => answered[r] = NameBatches

IndexInv == IndexTypeOK /\ CacheInv /\ WorkInv /\ RankedOverAll

-----------------------------------------------------------------------------
LEMMA InitIndex == IndexInit => IndexInv
  BY SemanticAssumption
  DEF IndexInit, IndexInv, IndexTypeOK, CacheInv, WorkInv, RankedOverAll, Stages, Inside

\* Two requests are never inside the lock of one key.
LEMMA AloneInside ==
  ASSUME IndexTypeOK, NEW r \in Requests, NEW q \in Requests,
         pc[r] \in Inside, pc[q] \in Inside, key[r] = key[q]
  PROVE  r = q
  BY DEF IndexTypeOK

\* Type correctness, with the lock that belongs to the request inside.
LEMMA IndexTypeStep == IndexInv /\ [IndexNext]_indexVars => IndexTypeOK'
<1> SUFFICES ASSUME IndexInv, [IndexNext]_indexVars
             PROVE  IndexTypeOK'
  OBVIOUS
<1> USE SemanticAssumption DEF IndexInv, IndexTypeOK, Stages, Inside, Go
<1>1. ASSUME NEW r \in Requests, Ask(r)
      PROVE  IndexTypeOK'
  BY <1>1 DEF Ask
<1>2. ASSUME NEW r \in Requests, Check(r)
      PROVE  IndexTypeOK'
  BY <1>2 DEF Check
<1>3. ASSUME NEW r \in Requests, Lock(r)
      PROVE  IndexTypeOK'
  BY <1>3 DEF Lock
<1>4. ASSUME NEW r \in Requests, CheckAgain(r)
      PROVE  IndexTypeOK'
  <2>1. CASE Cached(key[r])
    BY <1>4, <2>1 DEF CheckAgain
  <2>2. CASE ~Cached(key[r])
    BY <1>4, <2>2 DEF CheckAgain
  <2> QED BY <2>1, <2>2
<1>5. ASSUME NEW r \in Requests, Batch(r)
      PROVE  IndexTypeOK'
  <2>1. answered' = [answered EXCEPT ![r] = answered[r] + 1] /\ answered[r] + 1 \in 0..NameBatches
    BY <1>5 DEF Batch, WorkInv
  <2> QED BY <1>5, <2>1 DEF Batch
<1>6. ASSUME NEW r \in Requests, Keep(r)
      PROVE  IndexTypeOK'
  BY <1>6 DEF Keep
<1>7. ASSUME NEW r \in Requests, Fails(r)
      PROVE  IndexTypeOK'
  BY <1>7 DEF Fails
<1>8. ASSUME NEW r \in Requests, Rank(r)
      PROVE  IndexTypeOK'
  BY <1>8 DEF Rank
<1>9. ASSUME NEW r \in Requests, Cancel(r)
      PROVE  IndexTypeOK'
  BY <1>9 DEF Cancel
<1>10. CASE UNCHANGED indexVars
  BY <1>10 DEF indexVars
<1> QED BY <1>1, <1>2, <1>3, <1>4, <1>5, <1>6, <1>7, <1>8, <1>9, <1>10 DEF IndexNext, Work

\* Only Keep writes the vectors of a key, and it does where there are none.
LEMMA CacheStep == IndexInv /\ [IndexNext]_indexVars => CacheInv'
<1> SUFFICES ASSUME IndexInv, [IndexNext]_indexVars
             PROVE  CacheInv'
  OBVIOUS
<1> USE SemanticAssumption DEF IndexInv, IndexTypeOK, CacheInv
<1>1. ASSUME NEW r \in Requests, Keep(r)
      PROVE  CacheInv'
  <2>1. vectors[key[r]] = 0 /\ answered[r] = NameBatches /\ key[r] \in Keys
    BY <1>1 DEF Keep, WorkInv
  <2>2. embedded[key[r]] = 0
    BY <2>1
  <2>3. \A k \in Keys \ {key[r]} : vectors'[k] = vectors[k] /\ embedded'[k] = embedded[k]
    BY <1>1 DEF Keep
  <2>4. vectors'[key[r]] = NameBatches /\ embedded'[key[r]] = 1
    BY <1>1, <2>1, <2>2 DEF Keep
  <2> QED BY <2>3, <2>4
<1>2. CASE UNCHANGED <<vectors, embedded>>
  BY <1>2
<1> QED BY <1>1, <1>2
     DEF IndexNext, Work, Ask, Check, Lock, CheckAgain, Batch, Fails, Rank, Cancel, indexVars

\* A request that embeds is alone inside the lock of its key, so nobody keeps vectors for it.
LEMMA WorkStep == IndexInv /\ [IndexNext]_indexVars => WorkInv' /\ RankedOverAll'
<1> SUFFICES ASSUME IndexInv, [IndexNext]_indexVars
             PROVE  WorkInv' /\ RankedOverAll'
  OBVIOUS
<1> USE SemanticAssumption DEF IndexInv, IndexTypeOK, WorkInv, RankedOverAll, Go
<1>1. ASSUME NEW r \in Requests, Ask(r) \/ Rank(r) \/ Fails(r) \/ Cancel(r) \/ Lock(r)
      PROVE  WorkInv' /\ RankedOverAll'
  BY <1>1 DEF Ask, Rank, Fails, Cancel, Lock
<1>2. ASSUME NEW r \in Requests, Check(r)
      PROVE  WorkInv' /\ RankedOverAll'
  <2>1. Cached(key[r]) => vectors[key[r]] = NameBatches
    BY DEF Cached, CacheInv
  <2> QED BY <1>2, <2>1 DEF Check
<1>3. ASSUME NEW r \in Requests, CheckAgain(r)
      PROVE  WorkInv' /\ RankedOverAll'
  <2>1. CASE Cached(key[r])
    <3>1. vectors[key[r]] = NameBatches
      BY <2>1 DEF Cached, CacheInv
    <3> QED BY <1>3, <2>1, <3>1 DEF CheckAgain
  <2>2. CASE ~Cached(key[r])
    <3>1. vectors[key[r]] = 0
      BY <2>2 DEF Cached
    <3> QED BY <1>3, <2>2, <3>1 DEF CheckAgain
  <2> QED BY <2>1, <2>2
<1>4. ASSUME NEW r \in Requests, Batch(r)
      PROVE  WorkInv' /\ RankedOverAll'
  BY <1>4 DEF Batch
<1>5. ASSUME NEW r \in Requests, Keep(r)
      PROVE  WorkInv' /\ RankedOverAll'
  <2>1. vectors[key[r]] = 0 /\ answered[r] = NameBatches /\ pc[r] = "keep"
    BY <1>5 DEF Keep
  <2>2. ASSUME NEW q \in Requests, q # r, pc[q] \in {"embed", "keep"}
        PROVE  key[q] # key[r]
    BY <2>1, <2>2, AloneInside DEF Inside
  <2>3. ASSUME NEW q \in Requests, pc[q] \in {"query", "ranked"}
        PROVE  key[q] # key[r]
    BY <2>1, <2>3
  <2>4. /\ pc'[r] = "query" /\ vectors'[key[r]] = NameBatches
        /\ \A q \in Requests \ {r} : pc'[q] = pc[q]
        /\ \A k \in Keys \ {key[r]} : vectors'[k] = vectors[k]
        /\ UNCHANGED <<key, answered>>
    BY <1>5, <2>1 DEF Keep
  <2> QED BY <2>2, <2>3, <2>4
<1>6. CASE UNCHANGED indexVars
  BY <1>6 DEF indexVars
<1> QED BY <1>1, <1>2, <1>3, <1>4, <1>5, <1>6 DEF IndexNext, Work

\* The whole of it is invariant.
THEOREM IndexInvariant == IndexSpec => []IndexInv
<1>1. IndexInit => IndexInv
  BY InitIndex
<1>2. IndexInv /\ [IndexNext]_indexVars => IndexInv'
  BY IndexTypeStep, CacheStep, WorkStep DEF IndexInv
<1> QED BY <1>1, <1>2, PTL DEF IndexSpec

\* Every state has the type, and a lock belongs to the request inside it.
THEOREM IndexTypes == IndexSpec => []IndexTypeOK
<1>1. IndexInv => IndexTypeOK
  BY DEF IndexInv
<1> QED BY <1>1, IndexInvariant, PTL

\* However many requests ask, fail or are given up, a key is embedded to the end at most once
\* (semantic.py:70-81).
THEOREM EmbedsOnce == IndexSpec => []EmbeddedOnce
<1>1. IndexInv => EmbeddedOnce
  BY DEF IndexInv, CacheInv, EmbeddedOnce
<1> QED BY <1>1, IndexInvariant, PTL

\* A ranking is never made over a part of the names (semantic.py:52-81).
THEOREM RanksOverAll == IndexSpec => []RankedOverAll
<1>1. IndexInv => RankedOverAll
  BY DEF IndexInv
<1> QED BY <1>1, IndexInvariant, PTL

\* All at once, for any number of requests and keys.
THEOREM IndexIsSafe == IndexSpec => []IndexSafe
<1>1. IndexSafe <=> IndexTypeOK /\ EmbeddedOnce /\ RankedOverAll
  BY DEF IndexSafe
<1> QED BY <1>1, IndexTypes, EmbedsOnce, RanksOverAll, PTL

-----------------------------------------------------------------------------
(* Least and largest elements. *)

LEMMA LeastOf ==
  ASSUME NEW S \in SUBSET Nat, S # {}
  PROVE  \E i \in S : \A j \in S : i <= j
<1> DEFINE Under == OpToRel(<, Nat)
<1>1. PICK i \in S : \A j \in S : ~(<<j, i>> \in Under)
  <2> HIDE DEF Under
  <2>1. IsWellFoundedOn(Under, Nat) BY NatLessThanWellFounded DEF Under
  <2> QED BY <2>1, WFMin
<1>2. ASSUME NEW j \in S PROVE i <= j
  <2>1. ~(j < i) => i <= j OBVIOUS
  <2>2. <<j, i>> \in Under <=> j < i
    <3>1. <<j, i>> \in Nat \X Nat /\ <<j, i>>[1] = j /\ <<j, i>>[2] = i OBVIOUS
    <3> QED BY ONLY <3>1 DEF OpToRel
  <2> QED BY <1>1, <2>1, <2>2
<1> QED BY <1>2

LEMMA LeastIs ==
  ASSUME NEW S \in SUBSET Nat, S # {}
  PROVE  Least(S) \in S /\ \A y \in S : Least(S) <= y
BY LeastOf DEF Least

LEMMA LargestIs ==
  ASSUME NEW S \in SUBSET Nat, S # {}, NEW top \in Nat, \A x \in S : x <= top
  PROVE  Largest(S) \in S /\ \A y \in S : y <= Largest(S)
<1> DEFINE T == {top - x : x \in S}
<1>1. T \in SUBSET Nat /\ T # {}
  <2>1. \A x \in S : top - x \in Nat OBVIOUS
  <2> QED BY <2>1
<1>2. PICK t \in T : \A u \in T : t <= u BY <1>1, LeastOf
<1>3. PICK x \in S : t = top - x OBVIOUS
<1>4. \A y \in S : y <= x
  <2> TAKE y \in S
  <2>1. top - y \in T /\ x \in Nat /\ y \in Nat /\ x <= top /\ y <= top OBVIOUS
  <2> QED BY <1>2, <1>3, <2>1
<1> QED BY <1>4 DEF Largest

LEMMA FiniteIsBounded ==
  ASSUME NEW S, IsFiniteSet(S), NEW f \in [S -> Nat]
  PROVE  \E top \in Nat : \A x \in S : f[x] <= top
<1>0. PICK n \in Nat : ExistsSurjection(1 .. n, S) BY FS_NatSurjection
<1>1. PICK g : g \in Surjection(1 .. n, S) BY <1>0 DEF ExistsSurjection
<1> DEFINE Bounded(m) == \E top \in Nat : \A i \in 1 .. m : f[g[i]] <= top
           bad == {m \in 0 .. n : ~Bounded(m)}
<1>2. bad = {}
  <2> SUFFICES ASSUME bad # {} PROVE FALSE OBVIOUS
  <2>1. PICK m \in bad : \A j \in bad : m <= j
    <3>1. bad \in SUBSET Nat OBVIOUS
    <3> HIDE DEF bad
    <3> QED BY <3>1, LeastOf
  <2>2. m \in 0 .. n /\ ~Bounded(m) OBVIOUS
  <2>3. CASE m = 0
    <3>1. \A i \in 1 .. m : f[g[i]] <= 0 BY <2>3
    <3> QED BY <2>2, <3>1
  <2>4. CASE m # 0
    <3>1. m - 1 \in 0 .. n /\ ~(m <= m - 1) BY <2>2, <2>4
    <3>2. Bounded(m - 1) BY <2>1, <3>1
    <3>3. PICK top \in Nat : \A i \in 1 .. m - 1 : f[g[i]] <= top BY <3>2
    <3>4. \A i \in 1 .. n : f[g[i]] \in Nat BY <1>1 DEF Surjection
    <3>5. PICK higher \in Nat : top <= higher /\ f[g[m]] <= higher
      <4>1. m \in 1 .. n BY <2>2, <2>4
      <4>2. f[g[m]] \in Nat BY <3>4, <4>1
      <4> DEFINE y == f[g[m]]
      <4> HIDE DEF y
      <4>3. y \in Nat /\ top \in Nat BY <4>2 DEF y
      <4>4. top <= top + y /\ y <= top + y /\ top + y \in Nat BY ONLY <4>3
      <4>5. \E higher \in Nat : top <= higher /\ y <= higher BY ONLY <4>4
      <4> QED BY <4>5 DEF y
    <3>6. ASSUME NEW i \in 1 .. m PROVE f[g[i]] <= higher
      <4>1. i \in 1 .. n BY <2>2
      <4>2. f[g[i]] \in Nat BY <3>4, <4>1
      <4>3. CASE i = m BY <3>5, <4>3
      <4>4. CASE i # m
        <5>1. i \in 1 .. m - 1 BY <2>2, <4>4
        <5>2. f[g[i]] <= top BY <3>3, <5>1
        <5> QED BY <3>5, <4>2, <5>2
      <4> QED BY <4>3, <4>4
    <3> QED BY <2>2, <3>6
  <2> QED BY <2>3, <2>4
<1>3. PICK top \in Nat : \A i \in 1 .. n : f[g[i]] <= top
  <2>1. n \in 0 .. n OBVIOUS
  <2> QED BY <1>2, <2>1
<1>4. ASSUME NEW x \in S PROVE f[x] <= top
  <2>1. PICK i \in 1 .. n : g[i] = x BY <1>1 DEF Surjection
  <2> QED BY <1>3, <2>1
<1> QED BY <1>4

-----------------------------------------------------------------------------
(* Words. *)

WordSeqs == Seq(AllWords)

\* The words from a to b of a text.
LEMMA PartIs ==
  ASSUME NEW s \in WordSeqs, NEW a \in Nat \ {0}, NEW b \in 0 .. Len(s)
  PROVE  /\ SubSeq(s, a, b) \in WordSeqs
         /\ Len(SubSeq(s, a, b)) = IF a <= b THEN b - a + 1 ELSE 0
         /\ \A k \in 1 .. b - a + 1 : SubSeq(s, a, b)[k] = s[a + k - 1]
<1>1. \A i \in a .. b : s[i] \in AllWords
  <2>1. Len(s) \in Nat /\ \A i \in 1 .. Len(s) : s[i] \in AllWords BY LenProperties, ElementOfSeq DEF WordSeqs
  <2> QED BY <2>1
<1>2. a \in Int /\ b \in Int BY LenProperties DEF WordSeqs
<1> QED BY <1>1, <1>2, SubSeqProperties DEF WordSeqs

LEMMA SetIs ==
  ASSUME NEW s \in WordSeqs
  PROVE  ToSet(s) = {s[i] : i \in 1 .. Len(s)} /\ Len(s) \in Nat /\ ToSet(s) \subseteq AllWords
<1>1. Len(s) \in Nat /\ DOMAIN s = 1 .. Len(s) /\ \A i \in 1 .. Len(s) : s[i] \in AllWords
  BY LenProperties, ElementOfSeq DEF WordSeqs
<1> QED BY <1>1 DEF ToSet

\* They are the words there, and no others.
LEMMA PartSet ==
  ASSUME NEW s \in WordSeqs, NEW a \in Nat \ {0}, NEW b \in 0 .. Len(s)
  PROVE  ToSet(SubSeq(s, a, b)) = {s[i] : i \in a .. b}
<1>0. Len(s) \in Nat BY LenProperties DEF WordSeqs
<1>1. ToSet(SubSeq(s, a, b)) = {SubSeq(s, a, b)[k] : k \in 1 .. Len(SubSeq(s, a, b))}
  BY PartIs, SetIs
<1>2. \A k \in 1 .. Len(SubSeq(s, a, b)) : k \in 1 .. b - a + 1 /\ a + k - 1 \in a .. b
  BY <1>0, PartIs
<1>3. \A i \in a .. b : i - a + 1 \in 1 .. Len(SubSeq(s, a, b)) /\ a + (i - a + 1) - 1 = i /\ i - a + 1 \in 1 .. b - a + 1
  BY <1>0, PartIs
<1>4. ASSUME NEW x \in ToSet(SubSeq(s, a, b)) PROVE x \in {s[i] : i \in a .. b}
  <2>1. PICK k \in 1 .. Len(SubSeq(s, a, b)) : x = SubSeq(s, a, b)[k] BY <1>1
  <2>2. x = s[a + k - 1] /\ a + k - 1 \in a .. b BY <1>2, <2>1, PartIs
  <2> QED BY <2>2
<1>5. ASSUME NEW i \in a .. b PROVE s[i] \in ToSet(SubSeq(s, a, b))
  <2>1. SubSeq(s, a, b)[i - a + 1] = s[a + (i - a + 1) - 1] BY <1>3, PartIs
  <2> QED BY <1>1, <1>3, <2>1
<1> QED BY <1>4, <1>5

LEMMA ConcatSet ==
  ASSUME NEW s \in WordSeqs, NEW t \in WordSeqs
  PROVE  s \o t \in WordSeqs /\ ToSet(s \o t) = ToSet(s) \cup ToSet(t)
<1>1. /\ s \o t \in WordSeqs /\ Len(s \o t) = Len(s) + Len(t)
      /\ \A i \in 1 .. Len(s) + Len(t) : (s \o t)[i] = IF i <= Len(s) THEN s[i] ELSE t[i - Len(s)]
  BY ConcatProperties DEF WordSeqs
<1>2. /\ ToSet(s \o t) = {(s \o t)[i] : i \in 1 .. Len(s \o t)}
      /\ ToSet(s) = {s[i] : i \in 1 .. Len(s)} /\ ToSet(t) = {t[i] : i \in 1 .. Len(t)}
      /\ Len(s) \in Nat /\ Len(t) \in Nat
  BY <1>1, SetIs
<1>3. ASSUME NEW x \in ToSet(s \o t) PROVE x \in ToSet(s) \cup ToSet(t)
  <2>1. PICK i \in 1 .. Len(s) + Len(t) : x = (s \o t)[i] BY <1>1, <1>2
  <2>2. CASE i <= Len(s) BY <1>1, <1>2, <2>1, <2>2
  <2>3. CASE ~(i <= Len(s))
    <3>1. i - Len(s) \in 1 .. Len(t) BY <1>2, <2>3
    <3>2. x = t[i - Len(s)] BY <1>1, <2>1, <2>3
    <3> QED BY <1>2, <3>1, <3>2
  <2> QED BY <2>2, <2>3
<1>4. ASSUME NEW x \in ToSet(s) \cup ToSet(t) PROVE x \in ToSet(s \o t)
  <2>1. CASE x \in ToSet(s)
    <3>1. PICK i \in 1 .. Len(s) : x = s[i] BY <1>2, <2>1
    <3>2. i \in 1 .. Len(s) + Len(t) /\ i <= Len(s) BY <1>2
    <3>3. (s \o t)[i] = x BY <1>1, <3>1, <3>2
    <3> QED BY <1>1, <1>2, <3>2, <3>3
  <2>2. CASE x \in ToSet(t)
    <3>1. PICK i \in 1 .. Len(t) : x = t[i] BY <1>2, <2>2
    <3>2. i + Len(s) \in 1 .. Len(s) + Len(t) /\ ~(i + Len(s) <= Len(s)) /\ (i + Len(s)) - Len(s) = i BY <1>2
    <3>3. (s \o t)[i + Len(s)] = x BY <1>1, <3>1, <3>2
    <3> QED BY <1>1, <1>2, <3>2, <3>3
  <2> QED BY <2>1, <2>2
<1> QED BY <1>1, <1>3, <1>4

-----------------------------------------------------------------------------
(* Governorates at the edges of a part of the text. *)

Edge == StateNames \cup {GovLabel}

LEMMA GovernorateIs ==
  ASSUME text \in WordSeqs, NEW p \in Nat \ {0}, NEW h \in 0 .. Len(text)
  PROVE  /\ GovernorateLength(p, h) \in 0 .. 2
         /\ GovernorateLength(p, h) > 0 =>
              p + GovernorateLength(p, h) <= h + 1 /\ \A i \in p .. p + GovernorateLength(p, h) - 1 : text[i] \in Edge
<1> DEFINE q == IF p <= h /\ text[p] = GovLabel THEN p + 1 ELSE p
<1>1. h \in Nat BY SetIs
<1>2. GovernorateLength(p, h) = IF q <= h /\ text[q] \in StateNames THEN q + 1 - p ELSE 0 BY DEF GovernorateLength
<1>3. CASE p <= h /\ text[p] = GovLabel
  <2>1. q = p + 1 BY <1>3
  <2> QED BY <1>1, <1>2, <1>3, <2>1 DEF Edge
<1>4. CASE ~(p <= h /\ text[p] = GovLabel)
  <2>1. q = p BY <1>4
  <2> QED BY <1>1, <1>2, <2>1 DEF Edge
<1> QED BY <1>3, <1>4

TextParts == (1 .. (Len(text) + 1)) \X (0 .. Len(text))
Size(w) == w[2] + 1 - w[1]

\* What a round takes away are words of a governorate, from an edge.
Keeps(w, v) ==
  /\ v \in TextParts /\ w[1] <= v[1] /\ v[2] <= w[2]
  /\ \A i \in w[1] .. w[2] : i \in v[1] .. v[2] \/ text[i] \in Edge

LEMMA RoundIs ==
  ASSUME text \in WordSeqs, NEW a \in 1 .. (Len(text) + 1), NEW b \in 0 .. Len(text)
  PROVE  /\ Keeps(<<a, b>>, Trimmed(<<a, b>>))
         /\ Trimmed(<<a, b>>) # <<a, b>> => a <= b /\ Size(Trimmed(<<a, b>>)) < Size(<<a, b>>)
<1> DEFINE leading == GovernorateLength(a, b)
           trailing == {s \in 1 .. (b + 1 - a) : GovernorateLength(b + 1 - s, b) = s}
           left == b - Least(trailing)
<1>0. Len(text) \in Nat BY SetIs
<1>1. Trimmed(<<a, b>>) =
        IF a > b THEN <<a, b>>
        ELSE IF leading > 0 THEN <<a + leading, b>>
        ELSE IF trailing = {} \/ (left >= a /\ text[left] \in AddressWords) THEN <<a, b>>
        ELSE <<a, left>>
  BY DEF Trimmed
<1>2. CASE Trimmed(<<a, b>>) = <<a, b>> BY <1>0, <1>2 DEF Keeps, TextParts, Size
<1>3. CASE a <= b /\ leading > 0 /\ Trimmed(<<a, b>>) = <<a + leading, b>>
  <2>1. leading \in 1 .. 2 /\ a + leading <= b + 1 /\ \A i \in a .. a + leading - 1 : text[i] \in Edge
    BY <1>0, <1>3, GovernorateIs
  <2> HIDE DEF leading
  <2>2. a + leading \in 1 .. (Len(text) + 1) /\ b + 1 - (a + leading) < b + 1 - a BY <1>0, <2>1
  <2>3. \A i \in a .. b : i \in a + leading .. b \/ i \in a .. a + leading - 1 BY <1>0, <2>1
  <2> QED BY <1>0, <1>3, <2>1, <2>2, <2>3 DEF Keeps, TextParts, Size
<1>4. CASE a <= b /\ trailing # {} /\ Trimmed(<<a, b>>) = <<a, left>>
  <2> DEFINE s == Least(trailing)
  <2>1. s \in trailing
    <3>1. trailing \in SUBSET Nat OBVIOUS
    <3> HIDE DEF trailing
    <3> QED BY <1>4, <3>1, LeastIs
  <2>2. s \in 1 .. (b + 1 - a) /\ GovernorateLength(b + 1 - s, b) = s BY <2>1
  <2> HIDE DEF s
  <2>3. \A i \in b + 1 - s .. b : text[i] \in Edge
    <3>1. b + 1 - s \in Nat \ {0} /\ (b + 1 - s) + s - 1 = b BY <1>0, <2>2
    <3> QED BY <2>2, <3>1, GovernorateIs
  <2>4. left = b - s BY DEF s
  <2> HIDE DEF left
  <2>5. left \in 0 .. Len(text) /\ left <= b /\ left + 1 - a < b + 1 - a BY <1>0, <2>2, <2>4
  <2>6. \A i \in a .. b : i \in a .. left \/ i \in b + 1 - s .. b BY <1>0, <2>2, <2>4
  <2>7. Keeps(<<a, b>>, <<a, left>>)
    <3>1. <<a, left>> \in TextParts BY <1>0, <2>5 DEF TextParts
    <3> HIDE DEF trailing
    <3> QED BY <2>3, <2>5, <2>6, <3>1 DEF Keeps
  <2>8. Size(<<a, left>>) < Size(<<a, b>>) BY <1>0, <2>5 DEF Size
  <2>9. Trimmed(<<a, b>>) = <<a, left>> /\ a <= b BY <1>4 DEF left, trailing
  <2> HIDE DEF trailing
  <2> QED BY <2>7, <2>8, <2>9
<1> QED BY <1>0, <1>1, <1>2, <1>3, <1>4

\* One round on all parts, after the rounds of c.
Round(c, w) == IF Trimmed(w) = w THEN w ELSE c[Trimmed(w)]
Rounds(c) == [w \in TextParts |-> Round(c, w)]

\* The rounds end: there is a function that is what each of them leaves.
LEMMA RoundsEnd ==
  ASSUME text \in WordSeqs
  PROVE  \E c : c = Rounds(c)
<1> DEFINE OK(c, m) == \A w \in TextParts : Size(w) <= m => c[w] = Round(c, w)
           F(m) == \E c : c = [w \in TextParts |-> c[w]] /\ OK(c, m)
           bad == {m \in 0 .. Len(text) : ~F(m)}
<1>0. Len(text) \in Nat BY SetIs
<1>a. ASSUME NEW w \in TextParts
      PROVE  Trimmed(w) \in TextParts /\ (Trimmed(w) # w => 0 < Size(w) /\ Size(Trimmed(w)) < Size(w))
  <2>1. PICK a \in 1 .. (Len(text) + 1), b \in 0 .. Len(text) : w = <<a, b>> BY DEF TextParts
  <2>2. a <= b => 0 < Size(<<a, b>>) BY <1>0 DEF Size
  <2> QED BY <2>1, <2>2, RoundIs DEF Keeps
<1>b. \A w \in TextParts : Size(w) \in Int /\ Size(w) <= Len(text) BY <1>0 DEF TextParts, Size
<1>1. bad = {}
  <2> SUFFICES ASSUME bad # {} PROVE FALSE OBVIOUS
  <2>1. PICK m \in bad : \A j \in bad : m <= j
    <3>1. bad \in SUBSET Nat OBVIOUS
    <3> HIDE DEF bad
    <3> QED BY <3>1, LeastOf
  <2>2. m \in 0 .. Len(text) /\ ~F(m) OBVIOUS
  <2>3. PICK c : c = [w \in TextParts |-> c[w]] /\ (m # 0 => OK(c, m - 1))
    <3>1. CASE m = 0
      <4> DEFINE d == [w \in TextParts |-> w]
      <4>1. d = [w \in TextParts |-> d[w]] OBVIOUS
      <4> QED BY <3>1, <4>1
    <3>2. CASE m # 0
      <4>1. m - 1 \in 0 .. Len(text) /\ ~(m <= m - 1) BY <1>0, <2>2, <3>2
      <4>2. F(m - 1) BY <2>1, <4>1
      <4> QED BY <4>2
    <3> QED BY <3>1, <3>2
  <2> DEFINE d == Rounds(c)
  <2>4. d = [w \in TextParts |-> d[w]] BY DEF Rounds
  <2>d. \A w \in TextParts : d[w] = Round(c, w) BY DEF Rounds
  <2> HIDE DEF d
  <2>5. ASSUME NEW w \in TextParts, Size(w) <= m PROVE d[w] = Round(d, w)
    <3>1. CASE Trimmed(w) = w BY <2>d, <3>1 DEF Round
    <3>2. CASE Trimmed(w) # w
      <4>1. m # 0 /\ Size(Trimmed(w)) <= m - 1 BY <1>0, <1>a, <1>b, <2>2, <2>5, <3>2
      <4>2. c[Trimmed(w)] = Round(c, Trimmed(w)) BY <1>a, <2>3, <4>1
      <4> QED BY <1>a, <2>d, <3>2, <4>2 DEF Round
    <3> QED BY <3>1, <3>2
  <2>6. F(m) BY <2>4, <2>5
  <2> QED BY <2>2, <2>6
<1>2. PICK c : c = [w \in TextParts |-> c[w]] /\ OK(c, Len(text))
  <2>1. Len(text) \in 0 .. Len(text) BY <1>0
  <2>2. F(Len(text)) BY <1>1, <2>1
  <2> QED BY <2>2
<1>3. \A w \in TextParts : c[w] = Round(c, w) BY <1>2, <1>b
<1> QED BY <1>2, <1>3 DEF Rounds

\* What is left of a part: what was taken away are words of a governorate.
LEMMA CleanIs ==
  ASSUME text \in WordSeqs, NEW l \in 1 .. (Len(text) + 1), NEW h \in 0 .. Len(text)
  PROVE  Keeps(<<l, h>>, Clean(l, h))
<1> DEFINE c == CHOOSE f : f = [piece \in (1 .. (Len(text) + 1)) \X (0 .. Len(text)) |->
                                  IF Trimmed(piece) = piece THEN piece ELSE f[Trimmed(piece)]]
           bad == {n \in Nat : \E w \in TextParts : Size(w) <= n /\ ~Keeps(w, c[w])}
<1>0. Len(text) \in Nat BY SetIs
<1>1. Clean(l, h) = c[<<l, h>>] BY DEF Clean
<1>2. c = Rounds(c)
  <2>1. \A f : Rounds(f) = [piece \in (1 .. (Len(text) + 1)) \X (0 .. Len(text)) |->
                                  IF Trimmed(piece) = piece THEN piece ELSE f[Trimmed(piece)]]
    BY DEF Rounds, Round, TextParts
  <2>2. c = CHOOSE f : f = Rounds(f) BY <2>1
  <2> QED BY <2>2, RoundsEnd
<1> HIDE DEF c
<1>3. \A w \in TextParts : c[w] = IF Trimmed(w) = w THEN w ELSE c[Trimmed(w)] BY <1>2 DEF Rounds, Round
<1>p. ASSUME NEW w \in TextParts PROVE \E x \in 1 .. (Len(text) + 1), y \in 0 .. Len(text) : w = <<x, y>>
  BY DEF TextParts
<1>s. \A w \in TextParts : Size(w) \in Int BY <1>0 DEF TextParts, Size
<1>4. bad = {}
  <2> SUFFICES ASSUME bad # {} PROVE FALSE OBVIOUS
  <2>1. PICK n \in bad : \A j \in bad : n <= j
    <3>1. bad \in SUBSET Nat OBVIOUS
    <3> HIDE DEF bad
    <3> QED BY <3>1, LeastOf
  <2>2. PICK w \in TextParts : Size(w) <= n /\ ~Keeps(w, c[w]) OBVIOUS
  <2>3. PICK a \in 1 .. (Len(text) + 1), b \in 0 .. Len(text) : w = <<a, b>> BY DEF TextParts
  <2>4. Keeps(w, Trimmed(w)) /\ (Trimmed(w) # w => a <= b /\ Size(Trimmed(w)) < Size(w)) BY <2>3, RoundIs
  <2>5. CASE Trimmed(w) = w BY <1>3, <2>2, <2>4, <2>5
  <2>6. CASE Trimmed(w) # w
    <3> DEFINE v == Trimmed(w)
    <3>1. v \in TextParts BY <2>4 DEF Keeps
    <3>2. n - 1 \in Nat /\ Size(v) <= n - 1
      <4>2. 0 < Size(w) BY <1>0, <2>3, <2>4, <2>6 DEF Size
      <4> HIDE DEF v
      <4>1. Size(v) \in Int /\ Size(w) \in Int BY <1>s, <3>1
      <4>3. Size(v) < Size(w) BY <2>4, <2>6 DEF v
      <4> QED BY <2>2, <4>1, <4>2, <4>3
    <3>3. Keeps(v, c[v])
      <4>1. n - 1 \notin bad
        <5>1. ~(n <= n - 1) OBVIOUS
        <5> HIDE DEF bad
        <5> QED BY <2>1, <5>1
      <4> QED BY <3>1, <3>2, <4>1
    <3>4. c[w] = c[v] BY <1>3, <2>6
    <3> HIDE DEF v
    <3>5. Keeps(w, v) BY <2>4 DEF v
    <3>6. PICK x \in 1 .. (Len(text) + 1), y \in 0 .. Len(text) : v = <<x, y>> BY <1>p, <3>1, Zenon
    <3>7. PICK x2 \in 1 .. (Len(text) + 1), y2 \in 0 .. Len(text) : c[v] = <<x2, y2>>
      <4>1. c[v] \in TextParts BY <3>3 DEF Keeps
      <4> QED BY <1>p, <4>1
    <3> QED BY <1>0, <2>2, <2>3, <3>3, <3>4, <3>5, <3>6, <3>7 DEF Keeps
  <2> QED BY <2>5, <2>6
<1>5. ASSUME NEW w \in TextParts PROVE Keeps(w, c[w])
  <2>1. Len(text) \in Nat /\ Size(w) <= Len(text) BY <1>0 DEF TextParts, Size
  <2> QED BY <1>4, <2>1
<1> QED BY <1>1, <1>5 DEF TextParts

-----------------------------------------------------------------------------
(* Where a district may begin. *)

LEMMA BeforeIs ==
  ASSUME text \in WordSeqs, lo \in Nat \ {0}, hi \in 0 .. Len(text), NEW p \in lo .. hi
  PROVE  /\ Before(p) \in 0 .. 2
         /\ \A i \in p .. p + Before(p) - 1 : text[i] \in Context
         /\ text[p] \in Centers /\ GovLabel \notin Centers => Before(p) = 1
<1>0. Len(text) \in Nat /\ p \in Nat \ {0} BY SetIs
<1>1. /\ GovernorateLength(p, hi) \in 0 .. 2
      /\ GovernorateLength(p, hi) > 0 => \A i \in p .. p + GovernorateLength(p, hi) - 1 : text[i] \in Edge
  BY <1>0, GovernorateIs
<1>2. CASE GovernorateLength(p, hi) > 0
  <2>1. Before(p) = GovernorateLength(p, hi) BY <1>2 DEF Before
  <2>2. \A i \in p .. p + Before(p) - 1 : text[i] \in Context BY <1>1, <1>2, <2>1 DEF Edge, Context
  <2>3. ASSUME text[p] \in Centers, GovLabel \notin Centers PROVE Before(p) = 1
    <3>1. text[p] # GovLabel BY <2>3
    <3>2. GovernorateLength(p, hi) = IF p <= hi /\ text[p] \in StateNames THEN p + 1 - p ELSE 0
      BY <3>1 DEF GovernorateLength
    <3> QED BY <1>0, <1>2, <2>1, <3>2
  <2> QED BY <1>1, <2>1, <2>2, <2>3
<1>3. CASE ~(GovernorateLength(p, hi) > 0) /\ text[p] \in Centers \cup Sides \cup Honorifics
  <2>1. Before(p) = 1 BY <1>3 DEF Before
  <2>2. \A i \in p .. p + Before(p) - 1 : i = p BY <1>0, <2>1
  <2> QED BY <1>3, <2>1, <2>2 DEF Context
<1>4. CASE ~(GovernorateLength(p, hi) > 0) /\ ~(text[p] \in Centers \cup Sides \cup Honorifics)
  <2>1. Before(p) = 0 BY <1>4 DEF Before
  <2>2. \A i \in p .. p + Before(p) - 1 : FALSE BY <1>0, <2>1
  <2> QED BY <1>4, <2>1, <2>2
<1> QED BY <1>2, <1>3, <1>4

Begin(s, p) == IF Before(p) = 0 \/ p + Before(p) > hi THEN {p} ELSE {p} \cup s[p + Before(p)]
Begins(s) == [p \in lo .. hi |-> Begin(s, p)]

LEMMA BeginsEnd ==
  ASSUME text \in WordSeqs, lo \in Nat \ {0}, hi \in 0 .. Len(text)
  PROVE  \E s : s = Begins(s)
<1> DEFINE OK(s, m) == \A p \in lo .. hi : hi - p <= m => s[p] = Begin(s, p)
           F(m) == \E s : s = [p \in lo .. hi |-> s[p]] /\ OK(s, m)
           bad == {m \in Nat : ~F(m)}
<1>0. Len(text) \in Nat /\ hi \in Nat /\ \A p \in lo .. hi : p \in Nat \ {0} /\ Before(p) \in 0 .. 2 BY SetIs, BeforeIs
<1>1. bad = {}
  <2> SUFFICES ASSUME bad # {} PROVE FALSE OBVIOUS
  <2>1. PICK m \in bad : \A j \in bad : m <= j
    <3>1. bad \in SUBSET Nat OBVIOUS
    <3> HIDE DEF bad
    <3> QED BY <3>1, LeastOf
  <2>2. m \in Nat /\ ~F(m) OBVIOUS
  <2>3. PICK c : c = [p \in lo .. hi |-> c[p]] /\ (m # 0 => OK(c, m - 1))
    <3>1. CASE m = 0
      <4> DEFINE d == [p \in lo .. hi |-> {p}]
      <4>1. d = [p \in lo .. hi |-> d[p]] OBVIOUS
      <4> QED BY <3>1, <4>1
    <3>2. CASE m # 0
      <4>1. m - 1 \in Nat /\ ~(m <= m - 1) BY <2>2, <3>2
      <4>2. F(m - 1) BY <2>1, <4>1
      <4> QED BY <4>2
    <3> QED BY <3>1, <3>2
  <2> DEFINE d == Begins(c)
  <2>4. d = [p \in lo .. hi |-> d[p]] BY DEF Begins
  <2>d. \A p \in lo .. hi : d[p] = Begin(c, p) BY DEF Begins
  <2> HIDE DEF d
  <2>5. ASSUME NEW p \in lo .. hi, hi - p <= m PROVE d[p] = Begin(d, p)
    <3>1. CASE Before(p) = 0 \/ p + Before(p) > hi BY <2>d, <3>1 DEF Begin
    <3>2. CASE ~(Before(p) = 0 \/ p + Before(p) > hi)
      <4>1. m # 0 /\ hi - (p + Before(p)) <= m - 1 /\ p + Before(p) \in lo .. hi BY <1>0, <2>2, <2>5, <3>2
      <4>2. c[p + Before(p)] = Begin(c, p + Before(p)) BY <2>3, <4>1
      <4> QED BY <2>d, <3>2, <4>1, <4>2 DEF Begin
    <3> QED BY <3>1, <3>2
  <2>6. F(m) BY <2>4, <2>5
  <2> QED BY <2>2, <2>6
<1>2. PICK c : c = [p \in lo .. hi |-> c[p]] /\ OK(c, hi)
  <2>1. F(hi) BY <1>0, <1>1
  <2> QED BY <2>1
<1>3. \A p \in lo .. hi : c[p] = Begin(c, p) BY <1>0, <1>2
<1> QED BY <1>2, <1>3 DEF Begins

\* A start is a place of the part; what is before it says where the governorate is; where a
\* district may begin at a word of a center, it may begin after it.
LEMMA StartsAre ==
  ASSUME text \in WordSeqs, lo \in Nat \ {0}, hi \in 0 .. Len(text), lo <= hi
  PROVE  /\ lo \in Starts
         /\ \A q \in Starts : q \in lo .. hi /\ \A i \in lo .. q - 1 : text[i] \in Context
         /\ \A q \in Starts : text[q] \in Centers /\ GovLabel \notin Centers /\ q < hi => q + 1 \in Starts
<1> DEFINE s == CHOOSE f : f = [p \in lo .. hi |-> IF Before(p) = 0 \/ p + Before(p) > hi
                                                   THEN {p} ELSE {p} \cup f[p + Before(p)]]
           Right(p) == /\ p \in s[p]
                       /\ \A q \in s[p] : q \in p .. hi /\ \A i \in p .. q - 1 : text[i] \in Context
                       /\ \A q \in s[p] : text[q] \in Centers /\ GovLabel \notin Centers /\ q < hi => q + 1 \in s[p]
           bad == {n \in Nat : \E p \in lo .. hi : hi - p <= n /\ ~Right(p)}
<1>0. hi \in Nat /\ Len(text) \in Nat BY SetIs
<1>1. Starts = s[lo] BY DEF Starts
<1>2. s = Begins(s)
  <2>1. \A f : Begins(f) = [p \in lo .. hi |-> IF Before(p) = 0 \/ p + Before(p) > hi
                                                   THEN {p} ELSE {p} \cup f[p + Before(p)]]
    BY DEF Begins, Begin
  <2>2. s = CHOOSE f : f = Begins(f) BY <2>1
  <2> QED BY <2>2, BeginsEnd
<1> HIDE DEF s
<1>3. \A p \in lo .. hi : s[p] = IF Before(p) = 0 \/ p + Before(p) > hi THEN {p} ELSE {p} \cup s[p + Before(p)]
  BY <1>2 DEF Begins, Begin
<1>4. bad = {}
  <2> SUFFICES ASSUME bad # {} PROVE FALSE OBVIOUS
  <2>1. PICK n \in bad : \A j \in bad : n <= j
    <3>1. bad \in SUBSET Nat OBVIOUS
    <3> HIDE DEF bad
    <3> QED BY <3>1, LeastOf
  <2>2. PICK p \in lo .. hi : hi - p <= n /\ ~Right(p) OBVIOUS
  <2>3. /\ Before(p) \in 0 .. 2 /\ \A i \in p .. p + Before(p) - 1 : text[i] \in Context
        /\ text[p] \in Centers /\ GovLabel \notin Centers => Before(p) = 1
    BY BeforeIs
  <2>4. p \in Nat \ {0} BY <1>0
  <2>5. CASE Before(p) = 0 \/ p + Before(p) > hi
    <3>1. s[p] = {p} BY <1>3, <2>5
    <3>2. p \in p .. hi /\ \A i \in p .. p - 1 : FALSE BY <1>0, <2>4
    <3>3. ~(text[p] \in Centers /\ GovLabel \notin Centers /\ p < hi) BY <1>0, <2>3, <2>4, <2>5
    <3> QED BY <2>2, <3>1, <3>2, <3>3
  <2>6. CASE ~(Before(p) = 0 \/ p + Before(p) > hi)
    <3> DEFINE r == p + Before(p)
    <3>1. r \in lo .. hi /\ n - 1 \in Nat /\ hi - r <= n - 1 /\ ~(n <= n - 1)  BY <1>0, <2>2, <2>3, <2>4, <2>6
    <3>2. s[p] = {p} \cup s[r] BY <1>3, <2>6
    <3>r. r = p + Before(p) OBVIOUS
    <3> HIDE DEF r
    <3>3. Right(r)
      <4>1. n - 1 \notin bad
        <5> HIDE DEF bad
        <5> QED BY <2>1, <3>1
      <4> QED BY <3>1, <4>1
    <3> HIDE DEF Right
    <3>4. /\ r \in s[r]
          /\ \A q \in s[r] : q \in r .. hi /\ \A i \in r .. q - 1 : text[i] \in Context
          /\ \A q \in s[r] : text[q] \in Centers /\ GovLabel \notin Centers /\ q < hi => q + 1 \in s[r]
      BY <3>3 DEF Right
    <3>5. ASSUME NEW q \in s[p] PROVE q \in p .. hi /\ \A i \in p .. q - 1 : text[i] \in Context
      <4>1. CASE q = p
        <5>1. \A i \in p .. p - 1 : FALSE BY <2>4
        <5> QED BY <1>0, <2>4, <4>1, <5>1
      <4>2. CASE q \in s[r]
        <5>1. q \in r .. hi BY <3>4, <4>2
        <5> DEFINE b == Before(p)
        <5>b. b \in Nat /\ p \in Nat /\ q \in Nat /\ hi \in Nat /\ r = p + b /\ r <= q /\ q <= hi
          BY <1>0, <2>3, <2>4, <3>r, <3>1, <5>1
        <5> HIDE DEF b
        <5>c. \A i \in p .. q - 1 : i \in p .. p + b - 1 \/ i \in r .. q - 1 BY ONLY <5>b
        <5>2. \A i \in p .. q - 1 : i \in p .. p + Before(p) - 1 \/ i \in r .. q - 1 BY <5>c DEF b
        <5>3. q \in p .. hi BY ONLY <5>b
        <5> QED BY <2>3, <3>4, <4>2, <5>2, <5>3
      <4> QED BY <3>2, <4>1, <4>2
    <3>6. ASSUME NEW q \in s[p], text[q] \in Centers, GovLabel \notin Centers, q < hi PROVE q + 1 \in s[p]
      <4>1. CASE q = p BY <2>3, <3>2, <3>4, <3>6, <3>r, <4>1
      <4>2. CASE q \in s[r] BY <3>2, <3>4, <3>6, <4>2
      <4> QED BY <3>2, <4>1, <4>2
    <3>7. Right(p) BY <3>2, <3>5, <3>6 DEF Right
    <3> QED BY <2>2, <3>7
  <2> QED BY <2>5, <2>6
<1>5. Right(lo)
  <2>1. lo \in lo .. hi /\ hi - lo \in Nat /\ hi - lo <= hi - lo BY <1>0
  <2> HIDE DEF Right
  <2>2. (hi - lo) \notin bad
    <3> HIDE DEF bad
    <3> QED BY <1>4
  <2> QED BY <2>1, <2>2
<1> QED BY <1>1, <1>5
-----------------------------------------------------------------------------
(* The names that are written. *)

SameWords(s, t) == ToSet(s) \ Labels = ToSet(t) \ Labels

LEMMA UnlabelledIs ==
  ASSUME NEW w \in WordSeqs
  PROVE  Unlabelled(w) \in WordSeqs /\ ToSet(Unlabelled(w)) = ToSet(w) \ Labels
<1> DEFINE Held(f, i) == IF i = 0 THEN <<>> ELSE IF w[i] \in Labels THEN f[i - 1] ELSE Append(f[i - 1], w[i])
           u == CHOOSE f : f = [i \in 0 .. Len(w) |-> Held(f, i)]
           F(m) == \E f : f = [i \in 0 .. m |-> Held(f, i)]
           bad == {m \in 0 .. Len(w) : ~F(m)}
           wrong == {i \in 0 .. Len(w) : ~(u[i] \in WordSeqs /\ ToSet(u[i]) = {w[j] : j \in 1 .. i} \ Labels)}
<1>0. Len(w) \in Nat /\ ToSet(w) = {w[j] : j \in 1 .. Len(w)} /\ \A j \in 1 .. Len(w) : w[j] \in AllWords
  BY SetIs
<1>1. Unlabelled(w) = u[Len(w)] BY DEF Unlabelled
<1>2. bad = {}
  <2> SUFFICES ASSUME bad # {} PROVE FALSE OBVIOUS
  <2>1. PICK m \in bad : \A j \in bad : m <= j
    <3>1. bad \in SUBSET Nat OBVIOUS
    <3> HIDE DEF bad
    <3> QED BY <3>1, LeastOf
  <2>2. m \in 0 .. Len(w) /\ ~F(m) OBVIOUS
  <2>3. CASE m = 0
    <3> DEFINE f == [i \in 0 .. m |-> <<>>]
    <3>1. \A i \in 0 .. m : Held(f, i) = f[i] BY <2>3
    <3>2. f = [i \in 0 .. m |-> Held(f, i)]
      <4>1. [i \in 0 .. m |-> f[i]] = [i \in 0 .. m |-> Held(f, i)] BY <3>1
      <4> QED BY <4>1
    <3> QED BY <2>2, <3>2
  <2>4. CASE m # 0
    <3>1. m - 1 \in 0 .. Len(w) /\ ~(m <= m - 1) BY <1>0, <2>2, <2>4
    <3>2. F(m - 1) BY <2>1, <3>1
    <3>3. PICK f : f = [i \in 0 .. m - 1 |-> Held(f, i)] BY <3>2
    <3>4. \A i \in 0 .. m - 1 : f[i] = Held(f, i) BY <3>3
    <3> DEFINE g == [i \in 0 .. m |-> Held(f, i)]
    <3>5. ASSUME NEW i \in 0 .. m PROVE g[i] = Held(g, i)
      <4>1. CASE i = 0 BY <4>1
      <4>2. CASE i # 0
        <5>1. i - 1 \in 0 .. m - 1 /\ i - 1 \in 0 .. m BY <1>0, <2>2, <4>2
        <5>2. g[i - 1] = f[i - 1] BY <3>4, <5>1
        <5>3. g[i] = Held(f, i) OBVIOUS
        <5> HIDE DEF g
        <5> QED BY <4>2, <5>2, <5>3
      <4> QED BY <4>1, <4>2
    <3>6. g = [i \in 0 .. m |-> Held(g, i)]
      <4>1. g = [i \in 0 .. m |-> g[i]] OBVIOUS
      <4> HIDE DEF g
      <4>2. [i \in 0 .. m |-> g[i]] = [i \in 0 .. m |-> Held(g, i)] BY <3>5
      <4> QED BY <4>1, <4>2
    <3> HIDE DEF g
    <3> QED BY <2>2, <3>6
  <2> QED BY <2>3, <2>4
<1>3. u = [i \in 0 .. Len(w) |-> Held(u, i)]
  <2>1. Len(w) \in 0 .. Len(w) BY <1>0
  <2>2. F(Len(w)) BY <1>2, <2>1
  <2> QED BY <2>2, Zenon
<1> HIDE DEF u
<1>4. \A i \in 0 .. Len(w) : u[i] = Held(u, i) BY <1>3
<1>5. wrong = {}
  <2> SUFFICES ASSUME wrong # {} PROVE FALSE OBVIOUS
  <2>1. PICK m \in wrong : \A j \in wrong : m <= j
    <3>1. wrong \in SUBSET Nat OBVIOUS
    <3> HIDE DEF wrong
    <3> QED BY <3>1, LeastOf
  <2>2. m \in 0 .. Len(w) /\ ~(u[m] \in WordSeqs /\ ToSet(u[m]) = {w[j] : j \in 1 .. m} \ Labels) OBVIOUS
  <2>3. CASE m = 0
    <3>1. u[m] = <<>> BY <1>4, <2>2, <2>3
    <3>2. <<>> \in WordSeqs BY DEF WordSeqs
    <3>3. ToSet(<<>>) = {} BY DEF ToSet
    <3>4. {w[j] : j \in 1 .. m} = {} BY <2>3
    <3> QED BY <2>2, <3>1, <3>2, <3>3, <3>4
  <2>4. CASE m # 0
    <3>1. m - 1 \in 0 .. Len(w) /\ ~(m <= m - 1) /\ m \in 1 .. Len(w) BY <1>0, <2>2, <2>4
    <3>2. m - 1 \notin wrong
      <4> HIDE DEF wrong
      <4> QED BY <2>1, <3>1
    <3>3. u[m - 1] \in WordSeqs /\ ToSet(u[m - 1]) = {w[j] : j \in 1 .. m - 1} \ Labels BY <3>1, <3>2
    <3>4. u[m] = IF w[m] \in Labels THEN u[m - 1] ELSE Append(u[m - 1], w[m]) BY <1>4, <2>2, <2>4
    <3>5. \A j \in 1 .. m : j \in 1 .. m - 1 \/ j = m BY <1>0, <2>2
    <3>6. \A j \in 1 .. m - 1 : j \in 1 .. m BY <1>0, <2>2
    <3>7. m \in 1 .. m BY <3>1
    <3>8. {w[j] : j \in 1 .. m} = {w[j] : j \in 1 .. m - 1} \cup {w[m]} BY <3>5, <3>6, <3>7
    <3>9. CASE w[m] \in Labels BY <2>2, <3>3, <3>4, <3>8, <3>9
    <3>10. CASE w[m] \notin Labels
      <4>1. w[m] \in AllWords BY <1>0, <3>1
      <4>2. Append(u[m - 1], w[m]) = u[m - 1] \o <<w[m]>> /\ <<w[m]>> \in WordSeqs /\ ToSet(<<w[m]>>) = {w[m]}
        <5>1. <<w[m]>> \in WordSeqs BY <4>1 DEF WordSeqs
        <5>2. ToSet(<<w[m]>>) = {w[m]} BY DEF ToSet
        <5>3. Append(u[m - 1], w[m]) = u[m - 1] \o <<w[m]>> BY <3>3, <4>1, AppendIsConcat DEF WordSeqs
        <5> QED BY <5>1, <5>2, <5>3
      <4>3. u[m] \in WordSeqs /\ ToSet(u[m]) = ToSet(u[m - 1]) \cup {w[m]} BY <3>3, <3>4, <3>10, <4>2, ConcatSet
      <4> QED BY <2>2, <3>3, <3>8, <3>10, <4>3
    <3> QED BY <3>9, <3>10
  <2> QED BY <2>3, <2>4
<1>6. Len(w) \in 0 .. Len(w) BY <1>0
<1> QED BY <1>0, <1>1, <1>5, <1>6
\* What every name and every text is: a sequence of words; a name has a word.
NamesGiven == MatchingAssumption /\ catalog \subseteq PlaceNames /\ text \in WordSeqs /\ address \in WordSeqs

LEMMA NamesAre ==
  ASSUME NamesGiven
  PROVE  /\ \A n \in catalog : n \in WordSeqs /\ n # <<>> /\ Len(n) \in Nat \ {0} /\ n \in PlaceNames
         /\ IsFiniteSet(catalog) /\ NoneFound \notin catalog
<1>1. PlaceNames \subseteq WordSeqs /\ NoneFound \notin PlaceNames /\ IsFiniteSet(PlaceNames)
  BY DEF NamesGiven, MatchingAssumption, WordSeqs
<1>2. IsFiniteSet(catalog) BY <1>1, FS_Subset DEF NamesGiven
<1>3. ASSUME NEW n \in catalog PROVE n \in WordSeqs /\ n # <<>> /\ Len(n) \in Nat \ {0} /\ n \in PlaceNames
  <2>1. n \in WordSeqs /\ n # <<>> /\ n \in PlaceNames BY <1>1 DEF NamesGiven, NoneFound
  <2> QED BY <2>1, EmptySeq DEF WordSeqs
<1> QED BY <1>1, <1>2, <1>3 DEF NamesGiven

LEMMA TailIs ==
  ASSUME NEW s \in WordSeqs, s # <<>>
  PROVE  /\ Tail(s) \in WordSeqs /\ Len(Tail(s)) = Len(s) - 1 /\ Len(s) \in Nat \ {0}
         /\ s[1] \in AllWords /\ ToSet(s) = {s[1]} \cup ToSet(Tail(s))
<1>1. /\ Tail(s) \in WordSeqs /\ Len(Tail(s)) = Len(s) - 1 /\ Len(s) \in Nat \ {0}
      /\ \A i \in 1 .. Len(Tail(s)) : Tail(s)[i] = s[i + 1]
  BY HeadTailProperties, EmptySeq DEF WordSeqs
<1>2. /\ ToSet(s) = {s[i] : i \in 1 .. Len(s)} /\ ToSet(s) \subseteq AllWords
      /\ ToSet(Tail(s)) = {Tail(s)[i] : i \in 1 .. Len(Tail(s))}
  BY <1>1, SetIs
<1>3. ASSUME NEW x \in ToSet(s) PROVE x \in {s[1]} \cup ToSet(Tail(s))
  <2>1. PICK i \in 1 .. Len(s) : x = s[i] BY <1>2
  <2>2. CASE i = 1 BY <2>1, <2>2
  <2>3. CASE i # 1
    <3>1. i - 1 \in 1 .. Len(Tail(s)) /\ (i - 1) + 1 = i BY <1>1, <2>3
    <3>2. Tail(s)[i - 1] = s[i] BY <1>1, <3>1
    <3> QED BY <1>2, <2>1, <3>1, <3>2
  <2> QED BY <2>2, <2>3
<1>4. ASSUME NEW x \in ToSet(Tail(s)) PROVE x \in ToSet(s)
  <2>1. PICK i \in 1 .. Len(Tail(s)) : x = Tail(s)[i] BY <1>2
  <2>2. i + 1 \in 1 .. Len(s) /\ x = s[i + 1] BY <1>1, <2>1
  <2> QED BY <1>2, <2>2
<1>5. 1 \in 1 .. Len(s) BY <1>1
<1>6. s[1] \in ToSet(s) BY <1>2, <1>5
<1> QED BY <1>1, <1>2, <1>3, <1>4, <1>6

\* A name without its label has the same words otherwise.
LEMMA WithoutLabelIs ==
  ASSUME NEW s \in WordSeqs, WithoutLabel(s) # <<>>
  PROVE  /\ WithoutLabel(s) \in WordSeqs /\ Len(WithoutLabel(s)) = Len(s) - 1 /\ Len(s) \in Nat \ {0, 1}
         /\ s[1] \in Labels /\ SameWords(WithoutLabel(s), s)
<1>1. WithoutLabel(s) = Tail(s) /\ Len(s) > 1 /\ s[1] \in Labels BY DEF WithoutLabel
<1>2. s # <<>>
  <2>1. Len(<<>>) = 0 BY EmptySeq
  <2> QED BY <1>1, <2>1
<1> QED BY <1>1, <1>2, TailIs DEF SameWords

LEMMA SamePlaceIs ==
  ASSUME NamesGiven, NEW m \in catalog, NEW n \in catalog, Place(m) = Place(n)
  PROVE  SameWords(m, n)
<1>1. ASSUME NEW s \in catalog PROVE SameWords(s, Place(s))
  <2>1. CASE Len(s) > 1 /\ s[1] = Hay
    <3>1. Place(s) = Tail(s) /\ Hay \in Labels BY <2>1 DEF Place, NamesGiven, MatchingAssumption
    <3>2. s \in WordSeqs /\ s # <<>> BY NamesAre
    <3> QED BY <2>1, <3>1, <3>2, TailIs DEF SameWords
  <2>2. CASE ~(Len(s) > 1 /\ s[1] = Hay) BY <2>2 DEF Place, SameWords
  <2> QED BY <2>1, <2>2
<1>2. SameWords(m, Place(m)) /\ SameWords(n, Place(n)) BY <1>1
<1> QED BY <1>2 DEF SameWords

\* The name that is chosen is one of the names, and only if they are one place.
LEMMA ChosenIs ==
  ASSUME NamesGiven, NEW S \in SUBSET catalog, NEW x \in Chosen(S), x # NoneFound
  PROVE  x \in S /\ \A m \in S : SameWords(x, m)
<1>1. CASE Cardinality(S) = 1
  <2>1. x \in S BY <1>1 DEF Chosen
  <2>2. IsFiniteSet(S) BY NamesAre, FS_Subset
  <2>3. PICK y : S = {y} BY <1>1, <2>2, FS_Singleton
  <2> QED BY <2>1, <2>3 DEF SameWords
<1>2. CASE Cardinality(S) # 1 /\ S # {} /\ SamePlace(S)
  <2>1. Chosen(S) = S \cup {NoneFound} BY <1>2 DEF Chosen
  <2>2. x \in S BY <2>1
  <2> QED BY <1>2, <2>2, SamePlaceIs DEF SamePlace
<1>3. CASE Cardinality(S) # 1 /\ ~(S # {} /\ SamePlace(S)) BY <1>3 DEF Chosen
<1> QED BY <1>1, <1>2, <1>3

\* A name that is written is in the catalog, and has the words of the text but for labels.
LEMMA FullNameIs ==
  ASSUME NamesGiven, NEW w \in WordSeqs, w # <<>>, NEW n \in FullName(w)
  PROVE  n \in catalog /\ SameWords(n, w)
<1> DEFINE inside == Unlabelled(SubSeq(w, 2, Len(w) - 1))
<1>1. n \in catalog
  BY DEF FullName
<1>2. n \in WordSeqs /\ n \in PlaceNames /\ n # <<>> BY <1>1, NamesAre
<1>3. n = w \/ WithoutLabel(n) = w \/ Swapped[n] = w \/ (Len(w) > 1 /\ n = <<w[1]>> \o inside \o <<w[Len(w)]>>)
  BY DEF FullName
<1>4. CASE n = w BY <1>1, <1>4 DEF SameWords
<1>5. CASE WithoutLabel(n) = w BY <1>1, <1>2, <1>5, WithoutLabelIs DEF SameWords
<1>6. CASE Swapped[n] = w
  <2>1. ToSet(Swapped[n]) \subseteq ToSet(n) /\ ToSet(n) \subseteq ToSet(Swapped[n]) \cup Labels
    BY <1>2, <1>6 DEF NamesGiven, MatchingAssumption
  <2> QED BY <1>1, <1>6, <2>1 DEF SameWords
<1>7. CASE Len(w) > 1 /\ n = <<w[1]>> \o inside \o <<w[Len(w)]>>
  <2>1. Len(w) \in Nat /\ ToSet(w) = {w[i] : i \in 1 .. Len(w)} /\ \A i \in 1 .. Len(w) : w[i] \in AllWords
    BY SetIs
  <2>2. 2 \in Nat \ {0} /\ Len(w) - 1 \in 0 .. Len(w) BY <1>7, <2>1
  <2>3. SubSeq(w, 2, Len(w) - 1) \in WordSeqs /\ ToSet(SubSeq(w, 2, Len(w) - 1)) = {w[i] : i \in 2 .. Len(w) - 1}
    BY <2>2, PartIs, PartSet
  <2>4. inside \in WordSeqs /\ ToSet(inside) = {w[i] : i \in 2 .. Len(w) - 1} \ Labels
    BY <2>3, UnlabelledIs
  <2>5. 1 \in 1 .. Len(w) /\ Len(w) \in 1 .. Len(w) BY <1>7, <2>1
  <2>6. \A x \in AllWords : <<x>> \in WordSeqs /\ ToSet(<<x>>) = {x} BY DEF WordSeqs, ToSet
  <2> HIDE DEF inside
  <2>7. <<w[1]>> \in WordSeqs /\ <<w[Len(w)]>> \in WordSeqs /\ ToSet(<<w[1]>>) = {w[1]} /\ ToSet(<<w[Len(w)]>>) = {w[Len(w)]}
    BY <2>1, <2>5, <2>6
  <2>8. <<w[1]>> \o inside \in WordSeqs /\ ToSet(<<w[1]>> \o inside) = {w[1]} \cup ToSet(inside)
    BY <2>4, <2>7, ConcatSet
  <2>9. ToSet(n) = {w[1]} \cup ToSet(inside) \cup {w[Len(w)]} BY <1>7, <2>7, <2>8, ConcatSet
  <2>10. \A i \in 1 .. Len(w) : i = 1 \/ i \in 2 .. Len(w) - 1 \/ i = Len(w) BY <2>1
  <2>11. \A i \in 2 .. Len(w) - 1 : i \in 1 .. Len(w) BY <2>1
  <2>12. ToSet(w) = {w[1]} \cup {w[i] : i \in 2 .. Len(w) - 1} \cup {w[Len(w)]} BY <2>1, <2>5, <2>10, <2>11
  <2> QED BY <1>1, <2>4, <2>9, <2>12 DEF SameWords
<1> QED BY <1>3, <1>4, <1>5, <1>6, <1>7

-----------------------------------------------------------------------------
(* The windows of the text that are a name. *)

LEMMA MaxWordsIs ==
  ASSUME NamesGiven, catalog # {}
  PROVE  MaxWords \in Nat /\ \A n \in catalog : Len(n) <= MaxWords
<1> DEFINE f == [n \in catalog |-> Len(n)]
           S == {Len(n) : n \in catalog}
<1>1. f \in [catalog -> Nat] /\ IsFiniteSet(catalog) BY NamesAre
<1>2. PICK top \in Nat : \A n \in catalog : f[n] <= top
  <2> HIDE DEF f
  <2> QED BY <1>1, FiniteIsBounded
<1>3. S \in SUBSET Nat /\ S # {} /\ \A x \in S : x <= top BY <1>2, NamesAre
<1> HIDE DEF S
<1>4. Largest(S) \in S /\ \A y \in S : y <= Largest(S) BY <1>3, LargestIs
<1>5. MaxWords = Largest(S) BY DEF MaxWords, S
<1> QED BY <1>3, <1>4, <1>5 DEF S

\* A part of the text.
LEMMA WordsAre ==
  ASSUME text \in WordSeqs, NEW a \in Nat \ {0}, NEW b \in a .. Len(text)
  PROVE  /\ Words(a, b) \in WordSeqs /\ Words(a, b) # <<>> /\ Len(Words(a, b)) = b - a + 1
         /\ \A k \in 1 .. b - a + 1 : Words(a, b)[k] = text[a + k - 1]
         /\ Words(a, b)[1] = text[a] /\ ToSet(Words(a, b)) = {text[i] : i \in a .. b}
<1>0. Len(text) \in Nat /\ b \in 0 .. Len(text) /\ a <= b /\ b \in Nat BY SetIs
<1>1. /\ Words(a, b) \in WordSeqs /\ Len(Words(a, b)) = b - a + 1
      /\ \A k \in 1 .. b - a + 1 : Words(a, b)[k] = text[a + k - 1]
  BY <1>0, PartIs DEF Words
<1>2. ToSet(Words(a, b)) = {text[i] : i \in a .. b} BY <1>0, PartSet DEF Words
<1>3. 1 \in 1 .. b - a + 1 /\ a + 1 - 1 = a BY <1>0
<1>4. Words(a, b)[1] = text[a] BY <1>1, <1>3
<1>5. Words(a, b) # <<>>
  <2>1. Len(<<>>) = 0 BY EmptySeq
  <2> QED BY <1>0, <1>1, <2>1
<1> QED BY <1>1, <1>2, <1>4, <1>5

\* The longest name at a start.
LEMMA LongestIs ==
  ASSUME NamesGiven, hi \in 0 .. Len(text), NEW s \in 1 .. hi, NEW dropped \in BOOLEAN
  PROVE  \/ Longest(s, dropped) = NoWindow
         \/ \E e \in s .. hi, names \in SUBSET catalog, words \in WordSeqs :
              /\ Longest(s, dropped) = Window(e, s, names, words)
              /\ names # {} /\ words # <<>> /\ \A n \in names : SameWords(n, Words(s, e))
              /\ dropped => text[s] \in Labels
              /\ ~dropped => words = Words(s, e) /\ names = FullName(words)
<1> DEFINE word(e) == IF dropped THEN WithoutLabel(Words(s, e)) ELSE Words(s, e)
           ends == {e \in s .. (s + MaxWords) : e <= hi /\ word(e) # <<>> /\ ~(dropped /\ IsState(word(e)))
                                                /\ FullName(word(e)) # {}}
           e == Largest(ends)
<1>0. text \in WordSeqs /\ Len(text) \in Nat /\ hi \in Nat /\ s \in Nat \ {0}
  <2>1. text \in WordSeqs BY DEF NamesGiven
  <2> QED BY <2>1, SetIs
<1>1. Longest(s, dropped) = IF ends = {} THEN NoWindow ELSE Window(e, s, FullName(word(e)), word(e))
  BY DEF Longest
<1>2. CASE ends = {} BY <1>1, <1>2
<1>3. CASE ends # {}
  <2>1. catalog # {}
    <3>1. PICK x \in ends : TRUE BY <1>3
    <3>2. FullName(word(x)) # {} OBVIOUS
    <3>3. \A w : FullName(w) \subseteq catalog BY DEF FullName
    <3> QED BY <3>2, <3>3
  <2>2. MaxWords \in Nat BY <2>1, MaxWordsIs
  <2>3. ends \in SUBSET Nat /\ \A x \in ends : x <= hi BY <1>0, <2>2
  <2>4. e \in ends
    <3> HIDE DEF ends
    <3> QED BY <1>0, <1>3, <2>3, LargestIs
  <2>e. ASSUME NEW x \in ends PROVE x \in s .. hi /\ word(x) # <<>> /\ FullName(word(x)) # {}
    <3>1. x \in s .. (s + MaxWords) /\ x <= hi /\ word(x) # <<>> /\ FullName(word(x)) # {} OBVIOUS
    <3> QED BY <1>0, <2>2, <3>1
  <2> HIDE DEF ends, e
  <2>5. e \in s .. hi /\ word(e) # <<>> /\ FullName(word(e)) # {} BY <2>e, <2>4
  <2>6. Words(s, e) \in WordSeqs /\ Words(s, e)[1] = text[s]
    <3>1. e \in s .. Len(text) BY <1>0, <2>5
    <3> QED BY <1>0, <3>1, WordsAre
  <2>7. word(e) \in WordSeqs /\ SameWords(word(e), Words(s, e)) /\ (dropped => text[s] \in Labels)
    <3>1. CASE dropped
      <4>1. word(e) = WithoutLabel(Words(s, e)) BY <3>1
      <4> QED BY <2>5, <2>6, <3>1, <4>1, WithoutLabelIs
    <3>2. CASE ~dropped BY <2>6, <3>2 DEF SameWords
    <3> QED BY <3>1, <3>2
  <2>8. ASSUME NEW n \in FullName(word(e)) PROVE n \in catalog /\ SameWords(n, Words(s, e))
    <3>1. n \in catalog /\ SameWords(n, word(e))
      <4> HIDE DEF word
      <4> QED BY <2>5, <2>7, FullNameIs
    <3> QED BY <2>7, <3>1 DEF SameWords
  <2>9. ~dropped => word(e) = Words(s, e) OBVIOUS
  <2> DEFINE names == FullName(word(e))
             words == word(e)
  <2>10. names \in SUBSET catalog /\ words \in WordSeqs /\ names # {} /\ words # <<>> BY <2>5, <2>7, <2>8
  <2>11. Longest(s, dropped) = Window(e, s, names, words) BY <1>1, <1>3
  <2> HIDE DEF word
  <2>12. ~dropped => words = Words(s, e) /\ names = FullName(words) BY <2>9
  <2>13. \A n \in names : SameWords(n, Words(s, e)) BY <2>8
  <2> HIDE DEF names, words
  <2> QED BY <2>5, <2>7, <2>10, <2>11, <2>12, <2>13
<1> QED BY <1>2, <1>3

\* A name that is written as it is, is found, and no other.
LEMMA WrittenIsFull ==
  ASSUME NEW n \in catalog
  PROVE  FullName(n) = {n}
<1>1. {m \in catalog : m = n} = {n} OBVIOUS
<1>2. \A w : {m \in catalog : m = w} # {} => FullName(w) = {m \in catalog : m = w} BY DEF FullName
<1> QED BY <1>1, <1>2

\* It reaches as far as any name of the catalog that is written there.
LEMMA LongestReaches ==
  ASSUME NamesGiven, hi \in 0 .. Len(text), NEW s \in 1 .. hi, NEW e \in s .. hi, Words(s, e) \in catalog
  PROVE  Longest(s, FALSE) # NoWindow /\ e <= Longest(s, FALSE).end
<1> DEFINE ends == {x \in s .. (s + MaxWords) : x <= hi /\ Words(s, x) # <<>> /\ FullName(Words(s, x)) # {}}
<1>0. text \in WordSeqs /\ Len(text) \in Nat /\ hi \in Nat /\ s \in Nat \ {0}
  <2>1. text \in WordSeqs BY DEF NamesGiven
  <2> QED BY <2>1, SetIs
<1>1. Longest(s, FALSE) = IF ends = {} THEN NoWindow
                          ELSE Window(Largest(ends), s, FullName(Words(s, Largest(ends))), Words(s, Largest(ends)))
  BY DEF Longest
<1>2. MaxWords \in Nat /\ Len(Words(s, e)) <= MaxWords BY MaxWordsIs
<1>3. Words(s, e) # <<>> /\ Len(Words(s, e)) = e - s + 1
  <2>1. e \in s .. Len(text) BY <1>0
  <2> QED BY <1>0, <2>1, WordsAre
<1>4. FullName(Words(s, e)) # {} BY WrittenIsFull
<1>5. e \in ends BY <1>0, <1>2, <1>3, <1>4
<1>6. ends \in SUBSET Nat /\ \A x \in ends : x <= hi BY <1>0, <1>2
<1> HIDE DEF ends
<1>7. e <= Largest(ends) BY <1>0, <1>5, <1>6, LargestIs
<1>8. Longest(s, FALSE).end = Largest(ends) /\ Longest(s, FALSE).start = s
  <2>1. Longest(s, FALSE) = Window(Largest(ends), s, FullName(Words(s, Largest(ends))), Words(s, Largest(ends)))
    BY <1>1, <1>5
  <2> DEFINE w == Window(Largest(ends), s, FullName(Words(s, Largest(ends))), Words(s, Largest(ends)))
  <2>2. w.end = Largest(ends) /\ w.start = s BY DEF Window
  <2> HIDE DEF w
  <2>3. Longest(s, FALSE) = w BY <2>1 DEF w
  <2> QED BY <2>2, <2>3
<1>9. NoWindow.start = 0 BY DEF NoWindow, Window
<1> QED BY <1>0, <1>7, <1>8, <1>9

LEMMA WindowHas ==
  ASSUME NEW e, NEW s, NEW names, NEW words
  PROVE  /\ Window(e, s, names, words).end = e /\ Window(e, s, names, words).start = s
         /\ Window(e, s, names, words).names = names /\ Window(e, s, names, words).words = words
         /\ s # 0 => Window(e, s, names, words) # NoWindow
<1>1. /\ Window(e, s, names, words).end = e /\ Window(e, s, names, words).start = s
      /\ Window(e, s, names, words).names = names /\ Window(e, s, names, words).words = words
  BY DEF Window
<1>2. NoWindow.start = 0 BY DEF NoWindow, Window
<1> QED BY <1>1, <1>2

\* A window at a start: one of its names, at least, is what is written there.
Fits(w, s) ==
  \E e \in s .. hi, names \in SUBSET catalog, words \in WordSeqs :
    w = Window(e, s, names, words) /\ words # <<>> /\ \E m \in names : SameWords(m, Words(s, e))

LEMMA WindowAtIs ==
  ASSUME NamesGiven, hi \in 0 .. Len(text), NEW s \in 1 .. hi
  PROVE  /\ WindowAt(s) = NoWindow \/ Fits(WindowAt(s), s)
         /\ Longest(s, FALSE) # NoWindow =>
              /\ WindowAt(s) # NoWindow /\ Longest(s, FALSE).end <= WindowAt(s).end
              /\ Longest(s, FALSE).end = hi => WindowAt(s) = Longest(s, FALSE)
         /\ text[s] \notin Labels => WindowAt(s) = Longest(s, FALSE)
<1> DEFINE with == Longest(s, FALSE)
           without == Longest(s, TRUE)
           Good(w, dropped) ==
             \E e \in s .. hi, names \in SUBSET catalog, words \in WordSeqs :
               /\ w = Window(e, s, names, words)
               /\ names # {} /\ words # <<>> /\ \A n \in names : SameWords(n, Words(s, e))
               /\ dropped => text[s] \in Labels
               /\ ~dropped => words = Words(s, e) /\ names = FullName(words)
<1>0. Len(text) \in Nat /\ hi \in Nat /\ s \in Nat \ {0}
  <2>1. text \in WordSeqs BY DEF NamesGiven
  <2> QED BY <2>1, SetIs
<1>1. /\ with = NoWindow \/ Good(with, FALSE)
      /\ without = NoWindow \/ Good(without, TRUE)
  BY LongestIs
<1>2. WindowAt(s) = IF with # NoWindow /\ without.end > with.end /\ without.names # with.names
                    THEN [without EXCEPT !.names = @ \cup with.names]
                    ELSE IF with # NoWindow THEN with ELSE without
  BY DEF WindowAt
<1>3. ASSUME NEW w, NEW dropped \in BOOLEAN, Good(w, dropped)
      PROVE  Fits(w, s) /\ w.end \in s .. hi /\ w # NoWindow /\ (dropped => text[s] \in Labels)
  <2>1. PICK e \in s .. hi, names \in SUBSET catalog, words \in WordSeqs :
               /\ w = Window(e, s, names, words)
               /\ names # {} /\ words # <<>> /\ \A n \in names : SameWords(n, Words(s, e))
               /\ dropped => text[s] \in Labels
    BY <1>3
  <2>2. PICK m \in names : SameWords(m, Words(s, e)) BY <2>1
  <2> QED BY <1>0, <2>1, <2>2, WindowHas DEF Fits
<1>4. NoWindow.end = 0 BY DEF NoWindow, Window
<1> HIDE DEF with, without
<1>5. CASE with # NoWindow /\ without.end > with.end /\ without.names # with.names
  <2>1. Good(with, FALSE) /\ with.end \in s .. hi BY <1>1, <1>3, <1>5
  <2>2. Good(without, TRUE)
    <3>1. without # NoWindow BY <1>0, <1>4, <1>5, <2>1
    <3> QED BY <1>1, <3>1
  <2>3. PICK e \in s .. hi, names \in SUBSET catalog, words \in WordSeqs :
               /\ without = Window(e, s, names, words)
               /\ names # {} /\ words # <<>> /\ \A n \in names : SameWords(n, Words(s, e))
               /\ text[s] \in Labels
    BY <2>2
  <2>4. WindowAt(s) = Window(e, s, names \cup with.names, words)
    <3>1. WindowAt(s) = [without EXCEPT !.names = @ \cup with.names] BY <1>2, <1>5
    <3>2. without = Window(e, s, names, words) BY <2>3
    <3> DEFINE more == with.names
    <3> HIDE DEF more
    <3>3. WindowAt(s) = [Window(e, s, names, words) EXCEPT !.names = @ \cup more] BY <3>1, <3>2 DEF more
    <3>4. WindowAt(s) = Window(e, s, names \cup more, words) BY <3>3 DEF Window
    <3> QED BY <3>4 DEF more
  <2>5. with.names \in SUBSET catalog
    <3>1. PICK e2 \in s .. hi, names2 \in SUBSET catalog, words2 \in WordSeqs : with = Window(e2, s, names2, words2) BY <2>1
    <3> QED BY <3>1, WindowHas
  <2>6. Fits(WindowAt(s), s)
    <3>1. PICK m \in names : SameWords(m, Words(s, e)) BY <2>3
    <3>2. names \cup with.names \in SUBSET catalog /\ m \in names \cup with.names BY <2>5
    <3> QED BY <2>3, <2>4, <3>1, <3>2 DEF Fits
  <2>7. without.end = e /\ WindowAt(s).end = e /\ WindowAt(s) # NoWindow BY <1>0, <2>3, <2>4, WindowHas
  <2>8. with.end <= e /\ with.end # hi BY <1>0, <1>5, <2>1, <2>3, <2>7
  <2> QED BY <2>3, <2>6, <2>7, <2>8 DEF with
<1>6. CASE with # NoWindow /\ ~(without.end > with.end /\ without.names # with.names)
  <2>1. WindowAt(s) = with BY <1>2, <1>6
  <2>2. Good(with, FALSE) BY <1>1, <1>6
  <2>3. Fits(with, s) /\ with.end \in s .. hi BY <1>3, <2>2
  <2>4. with.end <= with.end BY <1>0, <2>3
  <2> QED BY <1>6, <2>1, <2>3, <2>4 DEF with
<1>7. CASE with = NoWindow
  <2>1. WindowAt(s) = without BY <1>2, <1>7
  <2>2. CASE without = NoWindow BY <1>7, <2>1, <2>2 DEF with
  <2>3. CASE without # NoWindow
    <3>1. Good(without, TRUE) BY <1>1, <2>3
    <3> QED BY <1>3, <1>7, <2>1, <3>1 DEF with
  <2> QED BY <2>2, <2>3
<1> QED BY <1>5, <1>6, <1>7

\* At a name that is all the rest of the text there is this window.
LEMMA WindowOfRest ==
  ASSUME NamesGiven, hi \in 0 .. Len(text), NEW s \in 1 .. hi, Words(s, hi) \in catalog
  PROVE  WindowAt(s) = Window(hi, s, {Words(s, hi)}, Words(s, hi))
<1>0. Len(text) \in Nat /\ hi \in Nat /\ s \in Nat \ {0} /\ hi \in s .. hi
  <2>1. text \in WordSeqs BY DEF NamesGiven
  <2>2. Len(text) \in Nat BY <2>1, SetIs
  <2> QED BY <2>2
<1>1. Longest(s, FALSE) # NoWindow /\ hi <= Longest(s, FALSE).end BY <1>0, LongestReaches
<1>2. PICK e \in s .. hi, names \in SUBSET catalog, words \in WordSeqs :
        Longest(s, FALSE) = Window(e, s, names, words) /\ words = Words(s, e) /\ names = FullName(words)
  BY <1>1, LongestIs
<1>3. e = hi /\ Longest(s, FALSE).end = hi
  <2> DEFINE w == Longest(s, FALSE)
  <2>1. w = Window(e, s, names, words) /\ hi <= w.end BY <1>1, <1>2
  <2> HIDE DEF w
  <2>2. w.end = e BY <2>1, WindowHas
  <2>3. e = hi /\ w.end = hi BY <1>0, <2>1, <2>2
  <2> QED BY <2>3 DEF w
<1>4. FullName(Words(s, hi)) = {Words(s, hi)} BY WrittenIsFull
<1> QED BY <1>1, <1>2, <1>3, <1>4, WindowAtIs

\* Where nothing is written with the rest of the text, the window ends before.
LEMMA WindowEnds ==
  ASSUME NamesGiven, hi \in 0 .. Len(text), NEW s \in 1 .. hi, text[s] \notin Labels, FullName(Words(s, hi)) = {},
         WindowAt(s) # NoWindow
  PROVE  WindowAt(s).end < hi
<1>0. Len(text) \in Nat /\ hi \in Nat /\ s \in Nat \ {0}
  <2>1. text \in WordSeqs BY DEF NamesGiven
  <2> QED BY <2>1, SetIs
<1>1. WindowAt(s) = Longest(s, FALSE) BY WindowAtIs
<1>2. PICK e \in s .. hi, names \in SUBSET catalog, words \in WordSeqs :
        Longest(s, FALSE) = Window(e, s, names, words) /\ words = Words(s, e) /\ names = FullName(words) /\ names # {}
  BY <1>1, LongestIs
<1>3. e # hi BY <1>2
<1> DEFINE w == WindowAt(s)
<1>4. w = Window(e, s, names, words) BY <1>1, <1>2
<1> HIDE DEF w
<1>5. w.end = e BY <1>4, WindowHas
<1>6. w.end < hi BY <1>0, <1>3, <1>5
<1> QED BY <1>6 DEF w

Reaches(w, v) == v.end < w.end \/ (v.end = w.end /\ w.start <= v.start)

LEMMA FurthestIs ==
  ASSUME NEW W, W # {}, NEW top \in Nat, \A w \in W : w.end \in 0 .. top /\ w.start \in Nat
  PROVE  Furthest(W) \in W /\ \A v \in W : Reaches(Furthest(W), v)
<1> DEFINE E == {w.end : w \in W}
           last == Largest(E)
           S == {w.start : w \in {v \in W : v.end = last}}
<1>1. E \in SUBSET Nat /\ E # {} /\ \A x \in E : x <= top OBVIOUS
<1>2. last \in E /\ \A y \in E : y <= last
  <2> HIDE DEF E
  <2> QED BY <1>1, LargestIs
<1>3. S \in SUBSET Nat /\ S # {} BY <1>2
<1> HIDE DEF last
<1>4. PICK f \in S : \A y \in S : f <= y
  <2> HIDE DEF S
  <2> QED BY <1>3, LeastOf
<1>5. PICK w \in W : w.end = last /\ w.start = f OBVIOUS
<1>6. ASSUME NEW v \in W PROVE Reaches(w, v)
  <2>1. v.end <= last /\ v.end \in Nat /\ last \in Nat BY <1>1, <1>2
  <2>2. CASE v.end = last
    <3>1. v.start \in S BY <2>2
    <3> QED BY <1>4, <1>5, <2>2, <3>1 DEF Reaches
  <2>3. CASE v.end # last BY <1>5, <2>1, <2>3 DEF Reaches
  <2> QED BY <2>2, <2>3
<1>7. \A V : Furthest(V) = CHOOSE u \in V : \A v \in V : Reaches(u, v) BY DEF Furthest, Reaches
<1> HIDE DEF E, S
<1> QED BY <1>6, <1>7

-----------------------------------------------------------------------------
(* Details, longer names, and names with typing mistakes. *)

LEMMA AddressKept ==
  ASSUME NamesGiven, NEW name \in WordSeqs
  PROVE  AddressWithout(name) \in WordSeqs /\ ToSet(address) \subseteq ToSet(AddressWithout(name)) \cup ToSet(name)
<1>0. address \in WordSeqs /\ Len(address) \in Nat /\ ToSet(address) = {address[i] : i \in 1 .. Len(address)}
      /\ Len(name) \in Nat /\ ToSet(name) = {name[i] : i \in 1 .. Len(name)}
  <2>1. address \in WordSeqs BY DEF NamesGiven
  <2> QED BY <2>1, SetIs
<1>1. CASE IsPrefix(name, address)
  <2> DEFINE kept == SubSeq(address, Len(name) + 1, Len(address))
  <2>1. Len(name) <= Len(address) /\ SubSeq(name, 1, Len(name)) = SubSeq(address, 1, Len(name)) BY <1>1 DEF IsPrefix
  <2>2. SubSeq(name, 1, Len(name)) = name BY SubSeqFull DEF WordSeqs
  <2>3. Len(name) + 1 \in Nat \ {0} /\ Len(address) \in 0 .. Len(address) /\ Len(name) \in 0 .. Len(address)
    BY <1>0, <2>1
  <2>4. kept \in WordSeqs /\ ToSet(kept) = {address[i] : i \in Len(name) + 1 .. Len(address)}
    BY <1>0, <2>3, PartIs, PartSet
  <2>5. ToSet(name) = {address[i] : i \in 1 .. Len(name)} BY <1>0, <2>1, <2>2, <2>3, PartSet
  <2>6. \A i \in 1 .. Len(address) : i \in 1 .. Len(name) \/ i \in Len(name) + 1 .. Len(address) BY <1>0
  <2>7. AddressWithout(name) = kept BY <1>1 DEF AddressWithout
  <2> HIDE DEF kept
  <2> QED BY <1>0, <2>4, <2>5, <2>6, <2>7
<1>2. CASE ~IsPrefix(name, address) BY <1>0, <1>2 DEF AddressWithout
<1> QED BY <1>1, <1>2

LEMMA PartOfIs ==
  ASSUME NEW w \in WordSeqs, NEW v \in WordSeqs, PartOf(w, v)
  PROVE  ToSet(w) \subseteq ToSet(v)
<1>0. Len(w) \in Nat /\ Len(v) \in Nat /\ ToSet(v) = {v[j] : j \in 1 .. Len(v)} BY SetIs
<1>1. PICK i \in 1 .. (Len(v) + 1 - Len(w)) : SubSeq(v, i, i + Len(w) - 1) = w BY DEF PartOf
<1>2. i \in Nat \ {0} /\ i + Len(w) - 1 \in 0 .. Len(v) BY <1>0
<1>3. ToSet(w) = {v[j] : j \in i .. i + Len(w) - 1} BY <1>1, <1>2, PartSet
<1>4. \A j \in i .. i + Len(w) - 1 : j \in 1 .. Len(v) BY <1>0, <1>2
<1> QED BY <1>0, <1>3, <1>4

\* The details hold the text after the name and what the address says beside the name.
LEMMA DetailsHold ==
  ASSUME NamesGiven, NEW name \in catalog, NEW moved \in WordSeqs
  PROVE  /\ Details(name, moved) \in WordSeqs
         /\ ToSet(moved) \subseteq ToSet(Details(name, moved))
         /\ ToSet(address) \subseteq ToSet(Details(name, moved)) \cup ToSet(name)
<1> DEFINE kept == AddressWithout(name)
<1>0. name \in WordSeqs BY NamesAre
<1>1. kept \in WordSeqs /\ ToSet(address) \subseteq ToSet(kept) \cup ToSet(name) BY <1>0, AddressKept
<1>2. Details(name, moved) = IF moved # <<>> /\ kept # <<>> /\ PartOf(kept, moved) THEN moved
                             ELSE IF moved # <<>> /\ kept # <<>> /\ PartOf(moved, kept) THEN kept ELSE moved \o kept
  BY DEF Details
<1> HIDE DEF kept
<1>3. moved \o kept \in WordSeqs /\ ToSet(moved \o kept) = ToSet(moved) \cup ToSet(kept) BY <1>1, ConcatSet
<1> QED BY <1>1, <1>2, <1>3, PartOfIs

LEMMA LongerIs ==
  ASSUME NamesGiven, NEW w \in WordSeqs, NEW x \in Longer(w)
  PROVE  x[1] \in catalog /\ x[2] \in WordSeqs /\ Len(w) < Len(x[2])
<1>1. x \in NamesAndForms /\ IsStrictPrefix(w, x[2]) BY DEF Longer
<1>2. PICK n \in catalog : x \in {n} \X Forms(n) BY <1>1 DEF NamesAndForms
<1>3. x[1] = n /\ x[2] \in Forms(n) BY <1>2
<1>4. x[2] \in WordSeqs
  <2>1. n \in WordSeqs BY NamesAre
  <2>2. x[2] = n \/ (x[2] = WithoutLabel(n) /\ x[2] # <<>>) BY <1>3 DEF Forms
  <2> QED BY <2>1, <2>2, WithoutLabelIs
<1>5. Len(w) <= Len(x[2]) /\ SubSeq(w, 1, Len(w)) = SubSeq(x[2], 1, Len(w)) /\ w # x[2]
  BY <1>1 DEF IsStrictPrefix, IsPrefix
<1>6. Len(w) # Len(x[2])
  <2>1. SubSeq(w, 1, Len(w)) = w /\ SubSeq(x[2], 1, Len(x[2])) = x[2] BY <1>4, SubSeqFull DEF WordSeqs
  <2> QED BY <1>5, <2>1
<1>7. Len(w) \in Nat /\ Len(x[2]) \in Nat BY <1>4, SetIs
<1> QED BY <1>3, <1>4, <1>5, <1>6, <1>7

\* A longer name ends later.
LEMMA ExtensionIs ==
  ASSUME NamesGiven, NEW matched \in WordSeqs, NEW end \in Nat, NEW x \in Extensions(matched, end)
  PROVE  \E name \in catalog, last \in Nat : x = <<name, last>> /\ x[1] = name /\ x[2] = last /\ end < last /\ last <= hi
<1>1. PICK y \in Longer(matched) : /\ end + Len(y[2]) - Len(matched) <= hi
                                   /\ x = <<y[1], end + Len(y[2]) - Len(matched)>>
  BY DEF Extensions
<1>2. y[1] \in catalog /\ y[2] \in WordSeqs /\ Len(matched) < Len(y[2]) BY LongerIs
<1>3. Len(matched) \in Nat /\ Len(y[2]) \in Nat BY <1>2, SetIs
<1> DEFINE last == end + Len(y[2]) - Len(matched)
<1>4. last \in Nat /\ end < last BY <1>2, <1>3
<1>5. x = <<y[1], last>> /\ last <= hi BY <1>1
<1> HIDE DEF last
<1>6. x[1] = y[1] /\ x[2] = last BY <1>5
<1> QED BY <1>2, <1>4, <1>5, <1>6

LEMMA TypoIs ==
  ASSUME NamesGiven, hi \in 0 .. Len(text), NEW s \in 1 .. hi, NEW strict \in BOOLEAN
  PROVE  \/ TypoAt(s, strict) = NoWindow
         \/ \E e \in s .. hi, names \in SUBSET catalog : TypoAt(s, strict) = Window(e, s, names, <<>>)
<1> DEFINE forms(n, e) == {f \in Forms(n) : Len(f) = e + 1 - s}
           all(e) == UNION {{n} \X {Cost(Words(s, e), f) : f \in forms(n, e)} : n \in catalog}
           costs(e) == {x \in all(e) : x[2] < (IF strict THEN 10 ELSE 1000)}
           fewest(e) == {x[1] : x \in {y \in costs(e) : \A z \in costs(e) : y[2] <= z[2]}}
           ends == {e \in s .. (s + MaxWords - 1) : e <= hi /\ ~IsState(Words(s, e))
                                               /\ ToSet(Words(s, e)) \cap Sides = {} /\ costs(e) # {}}
<1>0. Len(text) \in Nat /\ hi \in Nat /\ s \in Nat \ {0}
  <2>1. text \in WordSeqs BY DEF NamesGiven
  <2> QED BY <2>1, SetIs
<1>1. TypoAt(s, strict) = IF ends = {} THEN NoWindow ELSE Window(Largest(ends), s, fewest(Largest(ends)), <<>>)
  BY DEF TypoAt
<1>2. CASE ends = {} BY <1>1, <1>2
<1>3. CASE ends # {}
  <2>a. ASSUME NEW e, NEW x \in costs(e) PROVE x[1] \in catalog
    <3>1. x \in all(e) OBVIOUS
    <3>2. PICK n \in catalog : x \in {n} \X {Cost(Words(s, e), f) : f \in forms(n, e)} BY <3>1
    <3>3. x[1] = n BY <3>2
    <3> QED BY <3>3
  <2>1. catalog # {}
    <3>1. PICK e \in ends : TRUE BY <1>3
    <3>2. costs(e) # {} OBVIOUS
    <3>3. PICK x \in costs(e) : TRUE BY <3>2
    <3> HIDE DEF costs
    <3> QED BY <2>a, <3>3
  <2>2. MaxWords \in Nat BY <2>1, MaxWordsIs
  <2>3. \A e : fewest(e) \in SUBSET catalog
    <3> HIDE DEF costs
    <3> QED BY <2>a
  <2> HIDE DEF fewest, costs
  <2>4. ends \in SUBSET Nat /\ \A x \in ends : x <= hi /\ x \in s .. hi BY <1>0, <2>2
  <2> HIDE DEF ends
  <2>5. Largest(ends) \in ends BY <1>0, <1>3, <2>4, LargestIs
  <2> QED BY <1>1, <1>3, <2>3, <2>4, <2>5
<1> QED BY <1>2, <1>3

-----------------------------------------------------------------------------
(* What an answer says of the text. *)

Reasons ==
  {"none yet", "empty", "placeholder", "exact", "spelling", "ignored", "window", "longer", "prefix", "typo",
   "similar", "misspelled", "ambiguous", "no match", "review", "inside", "inside, a guess"}
Verdicts ==
  [name : catalog \cup {NoneFound}, details : WordSeqs, confidence : {20, 80, 90, 93, 94, 95, 100},
   status : Statuses, reason : Reasons, span : SUBSET (1 .. Len(text))]
Entries == [base : Verdicts, lo : Nat, hi : Nat]

Failures == {"none yet", "empty", "placeholder", "ambiguous", "no match"}
Sound(v) ==
  v \in Verdicts /\ (v.status # "UNRESOLVED" <=> v.name # NoneFound) /\ (v.status = "UNRESOLVED" => v.reason \in Failures)

\* A word that was read, by this answer or by the centers before it.
Covered(i, S) == text[i] \in Context \/ i \in S \/ (text[i] \in Labels /\ i + 1 \in S)

\* S: what the centers before the answer were read from.
ReadAll(v, S) ==
  /\ \A i \in 1 .. Len(text) : Covered(i, v.span \cup S) \/ text[i] \in ToSet(v.details)
  /\ ToSet(address) \subseteq ToSet(v.details) \cup ToSet(v.name)
  /\ \A n \in catalog : IsPrefix(n, text) => \E i \in v.span : i >= Len(n)

Certain(v) ==
  v.reason \in {"spelling", "ignored"} =>
    ToSet(v.name) \subseteq ToSet(text) \cup Labels /\ ToSet(text) \subseteq ToSet(v.name) \cup Labels \cup Context

LEMMA AnswerHas ==
  ASSUME NEW n, NEW d, NEW c, NEW st, NEW r, NEW sp
  PROVE  /\ Answer(n, d, c, st, r, sp).name = n /\ Answer(n, d, c, st, r, sp).details = d
         /\ Answer(n, d, c, st, r, sp).status = st /\ Answer(n, d, c, st, r, sp).reason = r
         /\ Answer(n, d, c, st, r, sp).span = sp
BY DEF Answer

LEMMA AnswerSound ==
  ASSUME NamesGiven, NEW n \in catalog, NEW d \in WordSeqs, NEW c \in {90, 93, 94, 95, 100},
         NEW st \in Statuses \ {"UNRESOLVED"}, NEW r \in Reasons, NEW sp \in SUBSET (1 .. Len(text))
  PROVE  Sound(Answer(n, d, c, st, r, sp))
<1>1. Answer(n, d, c, st, r, sp) \in Verdicts BY DEF Answer, Verdicts
<1>2. n # NoneFound BY NamesAre
<1> QED BY <1>1, <1>2, AnswerHas DEF Sound

LEMMA UnresolvedSound ==
  ASSUME NEW r \in Failures
  PROVE  /\ Sound(Unresolved(r)) /\ Unresolved(r).status = "UNRESOLVED" /\ Unresolved(r).name = NoneFound
         /\ Unresolved(r).reason = r
<1>1. <<>> \in WordSeqs BY DEF WordSeqs
<1>2. Unresolved(r) \in Verdicts BY <1>1 DEF Unresolved, Answer, Verdicts, Statuses, Failures, Reasons
<1>3. Unresolved(r).status = "UNRESOLVED" /\ Unresolved(r).name = NoneFound /\ Unresolved(r).reason = r BY AnswerHas DEF Unresolved
<1> QED BY <1>2, <1>3 DEF Sound

LEMMA CoveredGrows ==
  ASSUME NEW i, NEW S, NEW T, S \subseteq T, Covered(i, S)
  PROVE  Covered(i, T)
BY DEF Covered

\* The part of the text that a tier works on, and what is outside it.
Part(S) ==
  /\ NamesGiven /\ lo \in 1 .. (Len(text) + 1) /\ hi \in 0 .. Len(text) /\ lo <= hi
  /\ \A i \in 1 .. Len(text) : i \in lo .. hi \/ Covered(i, S)

\* Words of the part that an answer read from start to end leaves behind.
Behind(start, label) == \A i \in lo .. start - 1 : text[i] \in Context \/ (label /\ text[i] \in Labels /\ i + 1 = start)

Far(end) == \A n \in catalog : IsPrefix(n, text) => Len(n) <= end

RestRead(v, name, S) ==
  Sound(v) /\ v.status # "UNRESOLVED" /\ v.name = name /\ (Far(hi) => ReadAll(v, S))

\* An answer that was read from the rest of the part.
LEMMA RestReads ==
  ASSUME NEW S, Part(S), NEW start \in lo .. hi, NEW name \in catalog, NEW c \in {90, 95}, NEW st \in Statuses \ {"UNRESOLVED"},
         NEW r \in Reasons, Behind(start, FALSE)
  PROVE  RestRead(Answer(name, Details(name, <<>>), c, st, r, start .. hi), name, S)
<1> DEFINE d == Details(name, <<>>)
           v == Answer(name, d, c, st, r, start .. hi)
<1>0. NamesGiven /\ Len(text) \in Nat /\ hi \in Nat /\ lo \in Nat \ {0} /\ hi <= Len(text)
  <2>1. text \in WordSeqs BY DEF Part, NamesGiven
  <2>2. Len(text) \in Nat BY <2>1, SetIs
  <2> QED BY <2>2 DEF Part
<1>1. <<>> \in WordSeqs BY DEF WordSeqs
<1>2. d \in WordSeqs /\ ToSet(address) \subseteq ToSet(d) \cup ToSet(name) BY <1>0, <1>1, DetailsHold
<1> HIDE DEF d
<1>3. v.name = name /\ v.details = d /\ v.status = st /\ v.span = start .. hi BY AnswerHas
<1>4. Sound(v)
  <2>1. start .. hi \in SUBSET (1 .. Len(text)) BY <1>0
  <2> QED BY <1>0, <1>2, <2>1, AnswerSound
<1> HIDE DEF v
<1>5. ASSUME NEW i \in 1 .. Len(text) PROVE Covered(i, v.span \cup S)
  <2>1. CASE i \in lo .. hi
    <3>1. i \in lo .. start - 1 \/ i \in start .. hi BY <1>0, <2>1
    <3> QED BY <1>3, <3>1 DEF Behind, Covered
  <2>2. CASE i \notin lo .. hi BY <2>2, CoveredGrows DEF Part
  <2> QED BY <2>1, <2>2
<1>6. ASSUME Far(hi) PROVE ReadAll(v, S)
  <2>1. hi \in start .. hi BY <1>0
  <2>2. \A n \in catalog : IsPrefix(n, text) => hi >= Len(n)
    <3>1. \A n \in catalog : Len(n) \in Nat BY <1>0, NamesAre
    <3> QED BY <1>0, <1>6, <3>1 DEF Far
  <2>3. \A i \in 1 .. Len(text) : Covered(i, v.span \cup S) \/ text[i] \in ToSet(v.details) BY <1>5
  <2>4. ToSet(address) \subseteq ToSet(v.details) \cup ToSet(v.name) BY <1>2, <1>3
  <2>5. hi \in v.span BY <1>3, <2>1
  <2>6. \A n \in catalog : IsPrefix(n, text) => \E i \in v.span : i >= Len(n) BY <2>2, <2>5
  <2> QED BY <2>3, <2>4, <2>6, Zenon DEF ReadAll
<1>7. v.status # "UNRESOLVED" BY <1>3
<1> QED BY <1>3, <1>4, <1>6, <1>7 DEF v, d, RestRead

\* An answer that was read from a name before the end of the part.
LEMMA SplitReads ==
  ASSUME NEW S, Part(S), NEW start \in lo .. hi, NEW end \in start .. hi, NEW name \in catalog,
         NEW c \in {90, 94}, NEW r \in {"window", "longer", "typo", "misspelled"}, NEW fuzzy \in BOOLEAN,
         Behind(start, fuzzy), ~fuzzy => SameWords(name, Words(start, end))
  PROVE  LET v == Split(start, end, name, c, r, fuzzy)
         IN  /\ Sound(v) /\ v.status # "UNRESOLVED" /\ v.name = name /\ v.span = start .. end
             /\ Far(end) => ReadAll(v, S)
             /\ lo = 1 /\ hi = Len(text) => Certain(v)
<1> DEFINE rest == Clean(end + 1, hi)
           moved == Words(rest[1], rest[2])
           v == Split(start, end, name, c, r, fuzzy)
<1>0. /\ NamesGiven /\ text \in WordSeqs /\ Len(text) \in Nat /\ hi \in Nat /\ lo \in Nat \ {0} /\ hi <= Len(text)
      /\ start \in Nat \ {0} /\ end \in Nat \ {0} /\ hi \in 0 .. Len(text)
  <2>1. text \in WordSeqs /\ NamesGiven BY DEF Part, NamesGiven
  <2>2. Len(text) \in Nat BY <2>1, SetIs
  <2> QED BY <2>1, <2>2 DEF Part
<1>1. Keeps(<<end + 1, hi>>, rest)
  <2>1. end + 1 \in 1 .. (Len(text) + 1) BY <1>0
  <2> QED BY <1>0, <2>1, CleanIs
<1>2. PICK x \in 1 .. (Len(text) + 1), y \in 0 .. Len(text) : rest = <<x, y>>
  <2>1. rest \in TextParts BY <1>1 DEF Keeps
  <2> HIDE DEF rest
  <2> QED BY <2>1 DEF TextParts
<1>3. moved = Words(x, y) /\ \A i \in end + 1 .. hi : i \in x .. y \/ text[i] \in Edge BY <1>1, <1>2 DEF Keeps
<1>4. moved \in WordSeqs /\ ToSet(moved) = {text[i] : i \in x .. y} /\ (moved = <<>> => ~(x <= y))
  <2>1. x \in Nat \ {0} BY <1>0
  <2>2. Words(x, y) \in WordSeqs /\ ToSet(Words(x, y)) = {text[i] : i \in x .. y} BY <1>0, <2>1, PartIs, PartSet DEF Words
  <2>3. x <= y => Words(x, y) # <<>>
    <3>1. x <= y => y \in x .. Len(text) BY <1>0
    <3> QED BY <1>0, <2>1, <3>1, WordsAre
  <2> QED BY <1>3, <2>2, <2>3
<1>e. <<>> \in WordSeqs BY DEF WordSeqs
<1>5. PICK d \in WordSeqs, c2 \in {90, 93, 94}, st \in Statuses \ {"UNRESOLVED"}, r2 \in Reasons :
        /\ v = Answer(name, d, c2, st, r2, start .. end)
        /\ ToSet(moved) \subseteq ToSet(d) /\ ToSet(address) \subseteq ToSet(d) \cup ToSet(name)
        /\ r2 \in {"spelling", "ignored"} => moved = <<>> /\ ~fuzzy
  <2> HIDE DEF rest
  <2>1. CASE moved # <<>>
    <3>1. v = Answer(name, Details(name, moved), c, "SPLIT_ADDRESS", r, start .. end) BY <2>1 DEF Split, rest
    <3>2. r \in Reasons /\ r \notin {"spelling", "ignored"} /\ "SPLIT_ADDRESS" \in Statuses \ {"UNRESOLVED"} /\ c \in {90, 93, 94} 
      BY DEF Reasons, Statuses
    <3> HIDE DEF v, moved
    <3> QED BY <1>0, <1>4, <3>1, <3>2, DetailsHold
  <2>2. CASE moved = <<>> /\ fuzzy
    <3>1. v = Answer(name, Details(name, <<>>), c, "FUZZY_MATCH", r, start .. end) BY <2>2 DEF Split, rest
    <3>2. r \in Reasons /\ r \notin {"spelling", "ignored"} /\ "FUZZY_MATCH" \in Statuses \ {"UNRESOLVED"} /\ c \in {90, 93, 94} 
      BY DEF Reasons, Statuses
    <3> HIDE DEF v, moved
    <3> QED BY <1>0, <1>e, <2>2, <3>1, <3>2, DetailsHold
  <2>3. CASE moved = <<>> /\ ~fuzzy
    <3>1. v = Answer(name, Details(name, <<>>), 93, "NORMALIZED_MATCH", "ignored", start .. end) BY <2>3 DEF Split, rest
    <3>2. "ignored" \in Reasons /\ "NORMALIZED_MATCH" \in Statuses \ {"UNRESOLVED"} /\ 93 \in {90, 93, 94}
      BY DEF Reasons, Statuses
    <3> HIDE DEF v, moved
    <3> QED BY <1>0, <1>e, <2>3, <3>1, <3>2, DetailsHold
  <2> QED BY <2>1, <2>2, <2>3
<1> HIDE DEF v, moved, rest
<1>6. v.name = name /\ v.details = d /\ v.status = st /\ v.reason = r2 /\ v.span = start .. end BY <1>5, AnswerHas
<1>7. Sound(v)
  <2>1. start .. end \in SUBSET (1 .. Len(text)) BY <1>0
  <2>2. c2 \in {90, 93, 94, 95, 100} OBVIOUS
  <2> QED BY <1>0, <1>5, <2>1, <2>2, AnswerSound
<1>8. Edge \subseteq Context BY DEF Edge, Context
<1>9. ASSUME NEW i \in 1 .. Len(text) PROVE Covered(i, v.span \cup S) \/ text[i] \in ToSet(v.details)
  <2>1. CASE i \in lo .. hi
    <3>1. i \in lo .. start - 1 \/ i \in start .. end \/ i \in end + 1 .. hi BY <1>0, <2>1
    <3>2. CASE i \in lo .. start - 1
      <4>1. start \in start .. end BY <1>0
      <4> QED BY <1>6, <3>2, <4>1 DEF Behind, Covered
    <3>3. CASE i \in start .. end BY <1>6, <3>3 DEF Covered
    <3>4. CASE i \in end + 1 .. hi
      <4>1. i \in x .. y \/ text[i] \in Context BY <1>3, <1>8, <3>4
      <4> QED BY <1>4, <1>5, <1>6, <4>1 DEF Covered
    <3> QED BY <3>1, <3>2, <3>3, <3>4
  <2>2. CASE i \notin lo .. hi BY <2>2, CoveredGrows DEF Part
  <2> QED BY <2>1, <2>2
<1>10. ASSUME Far(end) PROVE ReadAll(v, S)
  <2>1. end \in start .. end BY <1>0
  <2>2. \A n \in catalog : IsPrefix(n, text) => end >= Len(n)
    <3>1. \A n \in catalog : Len(n) \in Nat BY <1>0, NamesAre
    <3> QED BY <1>0, <1>10, <3>1 DEF Far
  <2> QED BY <1>5, <1>6, <1>9, <2>1, <2>2 DEF ReadAll
<1>11. ASSUME lo = 1, hi = Len(text), r2 \in {"spelling", "ignored"}
       PROVE  ToSet(name) \subseteq ToSet(text) \cup Labels /\ ToSet(text) \subseteq ToSet(name) \cup Labels \cup Context
  <2>1. moved = <<>> /\ ~fuzzy BY <1>5, <1>11
  <2>2. ToSet(name) \ Labels = {text[i] : i \in start .. end} \ Labels
    <3>1. end \in start .. Len(text) BY <1>0
    <3>2. ToSet(Words(start, end)) = {text[i] : i \in start .. end} BY <1>0, <3>1, WordsAre
    <3> QED BY <2>1, <3>2 DEF SameWords
  <2>3. ToSet(text) = {text[i] : i \in 1 .. Len(text)} BY <1>0, SetIs
  <2>4. ToSet(name) \subseteq ToSet(text) \cup Labels
    <3>1. \A i \in start .. end : i \in 1 .. Len(text) BY <1>0
    <3> QED BY <2>2, <2>3, <3>1
  <2>5. ASSUME NEW i \in 1 .. Len(text) PROVE text[i] \in ToSet(name) \cup Labels \cup Context
    <3>1. i \in lo .. start - 1 \/ i \in start .. end \/ i \in end + 1 .. hi BY <1>0, <1>11
    <3>2. CASE i \in lo .. start - 1 BY <2>1, <3>2 DEF Behind
    <3>3. CASE i \in start .. end BY <2>2, <3>3
    <3>4. CASE i \in end + 1 .. hi
      <4>1. i \notin x .. y BY <1>0, <1>4, <2>1
      <4> QED BY <1>3, <1>8, <3>4, <4>1
    <3> QED BY <3>1, <3>2, <3>3, <3>4
  <2> QED BY <2>3, <2>4, <2>5
<1>12. lo = 1 /\ hi = Len(text) => Certain(v) BY <1>6, <1>11 DEF Certain
<1>13. v.status # "UNRESOLVED" BY <1>6
<1> QED BY <1>6, <1>7, <1>10, <1>12, <1>13 DEF v

-----------------------------------------------------------------------------
(* The invariant. *)

Spans(o, k) == {i \in 1 .. Len(text) : \E j \in 1 .. k : i \in o[j].base.span}

\* The text begins with centers, each of which with the rest is no name; n is after them.
FollowsCenters(n, i) ==
  /\ n \in catalog /\ i \in 1 .. (Len(text) - 1) /\ Words(i + 1, Len(text)) = n /\ ~IsCenter(n)
  /\ \A j \in 1 .. i : text[j] \in Centers /\ FullName(Words(j, Len(text))) = {}

Shape ==
  /\ NamesGiven /\ stage \in Tiers /\ lo \in 1 .. (Len(text) + 1) /\ hi \in 0 .. Len(text)
  /\ Sound(verdict) /\ outer \in Seq(Entries)
AtStart == stage = "start" => outer = <<>> /\ lo = 1 /\ hi = Len(text) /\ verdict = Unresolved("none yet")
\* What is outside the part that the tiers work on was read, or says only where the governorate is.
InTiers ==
  stage \notin {"start", "answered"} =>
    /\ lo <= hi /\ (outer = <<>> => lo = 1 /\ hi = Len(text))
    /\ \A i \in 1 .. Len(text) : i \in lo .. hi \/ Covered(i, Spans(outer, Len(outer)))
\* An answer accounts for all of the text, but for the words S that answers before it have read.
BaseRead(b, S, first) == Sound(b) /\ b.status # "UNRESOLVED" /\ ReadAll(b, S) /\ (first => Certain(b))
BasesRead == \A k \in 1 .. Len(outer) : BaseRead(outer[k].base, Spans(outer, k - 1), k = 1)
AnswerRead == stage = "answered" /\ Resolved => BaseRead(verdict, Spans(outer, Len(outer)), outer = <<>>)
\* A name that begins the text is found by the windows, so later tiers are not asked for all of the text.
NotPassed ==
  \A n \in catalog : IsPrefix(n, text) =>
    /\ outer = <<>> => stage \in {"start", "spelling", "window", "answered"}
    /\ outer # <<>> /\ stage # "answered" => Len(n) < lo
\* A name after nothing but centers is found by the windows, and answered.
GivesWay ==
  \A n \in catalog : \A i \in 1 .. (Len(text) - 1) : FollowsCenters(n, i) =>
    outer = <<>> /\ (stage \in {"start", "spelling", "window"} \/ (stage = "answered" /\ verdict.name = n))

MatchInv == Shape /\ AtStart /\ InTiers /\ BasesRead /\ AnswerRead /\ NotPassed /\ GivesWay

LEMMA SpansAppend ==
  ASSUME NEW o \in Seq(Entries), NEW e \in Entries
  PROVE  /\ \A k \in 0 .. Len(o) : Spans(Append(o, e), k) = Spans(o, k)
         /\ Spans(Append(o, e), Len(o) + 1) = Spans(o, Len(o)) \cup e.base.span
<1>0. /\ Len(o) \in Nat /\ Len(Append(o, e)) = Len(o) + 1
      /\ \A i \in 1 .. Len(o) : Append(o, e)[i] = o[i]
      /\ Append(o, e)[Len(o) + 1] = e
  BY AppendProperties, LenProperties
<1>1. ASSUME NEW k \in 0 .. Len(o) PROVE Spans(Append(o, e), k) = Spans(o, k)
  <2>1. \A j \in 1 .. k : Append(o, e)[j] = o[j] BY <1>0
  <2> QED BY <2>1 DEF Spans
<1>2. e.base.span \subseteq 1 .. Len(text) BY DEF Entries, Verdicts
<1>3. \A j \in 1 .. Len(o) + 1 : j \in 1 .. Len(o) \/ j = Len(o) + 1 BY <1>0
<1>4. Len(o) + 1 \in 1 .. Len(o) + 1 /\ \A j \in 1 .. Len(o) : j \in 1 .. Len(o) + 1 BY <1>0
<1>5. Spans(Append(o, e), Len(o) + 1) = Spans(o, Len(o)) \cup e.base.span
  <2>1. ASSUME NEW i \in Spans(Append(o, e), Len(o) + 1) PROVE i \in Spans(o, Len(o)) \cup e.base.span
    <3>1. PICK j \in 1 .. Len(o) + 1 : i \in Append(o, e)[j].base.span BY DEF Spans
    <3>2. i \in 1 .. Len(text) BY DEF Spans
    <3> QED BY <1>0, <1>3, <3>1, <3>2 DEF Spans
  <2>2. ASSUME NEW i \in Spans(o, Len(o)) \cup e.base.span PROVE i \in Spans(Append(o, e), Len(o) + 1)
    <3>1. CASE i \in e.base.span BY <1>0, <1>2, <1>4, <3>1 DEF Spans
    <3>2. CASE i \in Spans(o, Len(o))
      <4>1. PICK j \in 1 .. Len(o) : i \in o[j].base.span BY <3>2 DEF Spans
      <4>2. i \in 1 .. Len(text) BY <3>2 DEF Spans
      <4> QED BY <1>0, <1>4, <4>1, <4>2 DEF Spans
    <3> QED BY <3>1, <3>2
  <2> QED BY <2>1, <2>2
<1> QED BY <1>1, <1>5

LEMMA TierPart ==
  ASSUME MatchInv, stage \notin {"start", "answered"}
  PROVE  Part(Spans(outer, Len(outer)))
BY DEF MatchInv, Shape, InTiers, Part

LEMMA FollowsSame ==
  ASSUME catalog' = catalog, text' = text, NEW n, NEW i, FollowsCenters(n, i)'
  PROVE  FollowsCenters(n, i)
BY DEF FollowsCenters, Words, FullName

LEMMA BasesSame ==
  ASSUME catalog' = catalog, text' = text, address' = address,
         \A k \in 1 .. Len(outer') : BaseRead(outer'[k].base, Spans(outer', k - 1), k = 1)
  PROVE  BasesRead'
BY DEF BasesRead, BaseRead, Sound, Verdicts, Spans, ReadAll, Covered, Certain

\* An answer ends the tiers.
LEMMA GivesKeeps ==
  ASSUME MatchInv, stage # "answered", NEW v, Gives(v), Sound(v),
         v.status # "UNRESOLVED" => BaseRead(v, Spans(outer, Len(outer)), outer = <<>>),
         \A n \in catalog : \A i \in 1 .. (Len(text) - 1) : FollowsCenters(n, i) => v.name = n
  PROVE  MatchInv'
<1>0. /\ verdict' = v /\ stage' = "answered" /\ catalog' = catalog /\ text' = text /\ address' = address
      /\ lo' = lo /\ hi' = hi /\ outer' = outer
  BY DEF Gives, case
<1>1. Shape'
  <2>1. NamesGiven' /\ stage' \in Tiers /\ (lo \in 1 .. (Len(text) + 1))' /\ (hi \in 0 .. Len(text))'
    BY <1>0 DEF MatchInv, Shape, NamesGiven, Tiers
  <2>2. Sound(verdict)' BY <1>0 DEF Sound, Verdicts
  <2>3. (outer \in Seq(Entries))' BY <1>0 DEF MatchInv, Shape, Entries, Verdicts
  <2> QED BY <2>1, <2>2, <2>3 DEF Shape
<1>2. AtStart' /\ InTiers' BY <1>0 DEF AtStart, InTiers
<1>3. BasesRead'
  <2>1. \A k \in 1 .. Len(outer') : BaseRead(outer'[k].base, Spans(outer', k - 1), k = 1)
    <3>1. \A k \in 1 .. Len(outer) : BaseRead(outer[k].base, Spans(outer, k - 1), k = 1) BY DEF MatchInv, BasesRead
    <3> QED BY <1>0, <3>1
  <2> QED BY <1>0, <2>1, BasesSame
<1>4. AnswerRead'
  <2>1. CASE v.status = "UNRESOLVED" BY <1>0, <2>1 DEF AnswerRead, Resolved
  <2>2. CASE v.status # "UNRESOLVED"
    BY <1>0, <2>2 DEF AnswerRead, BaseRead, Sound, Verdicts, Spans, ReadAll, Covered, Certain
  <2> QED BY <2>1, <2>2
<1>5. NotPassed' BY <1>0 DEF NotPassed
<1>6. GivesWay'
  <2>1. ASSUME NEW n \in catalog', NEW i \in 1 .. (Len(text') - 1), FollowsCenters(n, i)'
        PROVE  outer' = <<>> /\ verdict'.name = n
    <3>1. FollowsCenters(n, i) BY <1>0, <2>1, FollowsSame
    <3> QED BY <1>0, <3>1 DEF MatchInv, GivesWay
  <2> QED BY <1>0, <2>1 DEF GivesWay
<1> QED BY <1>1, <1>2, <1>3, <1>4, <1>5, <1>6 DEF MatchInv

\* A tier finds nothing: no name begins the text, and no name follows centers.
LEMMA GoesOnKeeps ==
  ASSUME MatchInv, stage \notin {"start", "answered"}, NEW next \in {"window", "prefix", "typo", "whole", "fuzzy"},
         GoesOn(next),
         next # "window" /\ outer = <<>> => \A n \in catalog : ~IsPrefix(n, text),
         next # "window" => \A n \in catalog : \A i \in 1 .. (Len(text) - 1) : ~FollowsCenters(n, i)
  PROVE  MatchInv'
<1>0. /\ verdict' = verdict /\ stage' = next /\ catalog' = catalog /\ text' = text /\ address' = address
      /\ lo' = lo /\ hi' = hi /\ outer' = outer
  BY DEF GoesOn, case
<1>1. Shape'
  <2>1. NamesGiven' /\ stage' \in Tiers /\ (lo \in 1 .. (Len(text) + 1))' /\ (hi \in 0 .. Len(text))'
    BY <1>0 DEF MatchInv, Shape, NamesGiven, Tiers
  <2>2. Sound(verdict)' BY <1>0 DEF MatchInv, Shape, Sound, Verdicts
  <2>3. (outer \in Seq(Entries))' BY <1>0 DEF MatchInv, Shape, Entries, Verdicts
  <2> QED BY <2>1, <2>2, <2>3 DEF Shape
<1>2. AtStart' /\ InTiers' BY <1>0 DEF MatchInv, AtStart, InTiers, Covered, Spans
<1>3. BasesRead'
  <2>1. \A k \in 1 .. Len(outer') : BaseRead(outer'[k].base, Spans(outer', k - 1), k = 1)
    <3>1. \A k \in 1 .. Len(outer) : BaseRead(outer[k].base, Spans(outer, k - 1), k = 1) BY DEF MatchInv, BasesRead
    <3> QED BY <1>0, <3>1
  <2> QED BY <1>0, <2>1, BasesSame
<1>4. AnswerRead' BY <1>0 DEF AnswerRead
<1>5. NotPassed' BY <1>0 DEF MatchInv, NotPassed
<1>6. GivesWay'
  <2>1. ASSUME NEW n \in catalog', NEW i \in 1 .. (Len(text') - 1), FollowsCenters(n, i)'
        PROVE  outer' = <<>> /\ next = "window"
    <3>1. FollowsCenters(n, i) BY <1>0, <2>1, FollowsSame
    <3> QED BY <1>0, <3>1 DEF MatchInv, GivesWay
  <2> QED BY <1>0, <2>1 DEF GivesWay
<1> QED BY <1>1, <1>2, <1>3, <1>4, <1>5, <1>6 DEF MatchInv

\* A tier finds a name: it is the answer, or a center after which the rest of the text is matched.
LEMMA ReadAsKeeps ==
  ASSUME MatchInv, stage \notin {"start", "answered"}, NEW start \in lo .. hi, NEW end \in start .. hi, NEW name \in catalog,
         NEW c \in {90, 94}, NEW r \in {"window", "longer", "typo", "misspelled"}, NEW fuzzy \in BOOLEAN,
         Behind(start, fuzzy), ~fuzzy => SameWords(name, Words(start, end)), Far(end),
         \A n \in catalog : \A i \in 1 .. (Len(text) - 1) : FollowsCenters(n, i) => name = n,
         ReadAs(start, end, name, c, r, fuzzy)
  PROVE  MatchInv'
<1> DEFINE skipped == {p \in (end + 1) .. (hi + 1) : p > hi \/ text[p] \notin Honorifics}
           begin == Least(skipped)
           rest == Clean(begin, hi)
           base == Split(start, end, name, c, r, fuzzy)
           S == Spans(outer, Len(outer))
<1>0. /\ NamesGiven /\ text \in WordSeqs /\ Len(text) \in Nat /\ hi \in Nat /\ lo \in Nat \ {0} /\ hi <= Len(text)
      /\ start \in Nat \ {0} /\ end \in Nat \ {0} /\ hi \in 0 .. Len(text) /\ outer \in Seq(Entries)
  <2>1. text \in WordSeqs /\ NamesGiven BY DEF MatchInv, Shape, NamesGiven
  <2>2. Len(text) \in Nat BY <2>1, SetIs
  <2> QED BY <2>1, <2>2 DEF MatchInv, Shape
<1>p. Part(S) BY TierPart
<1>1. Sound(base) /\ base.status # "UNRESOLVED" /\ base.name = name /\ base.span = start .. end /\ ReadAll(base, S)
      /\ (lo = 1 /\ hi = Len(text) => Certain(base))
  <2> HIDE DEF S
  <2> QED BY <1>p, SplitReads
<1>2. outer = <<>> => lo = 1 /\ hi = Len(text) BY DEF MatchInv, InTiers
<1>3. BaseRead(base, S, outer = <<>>)
  <2> HIDE DEF base, S
  <2> QED BY <1>1, <1>2 DEF BaseRead
<1>4. IF IsCenter(name) /\ rest[1] <= rest[2]
      THEN /\ outer' = Append(outer, [base |-> base, lo |-> rest[1], hi |-> rest[2]])
           /\ lo' = rest[1] /\ hi' = rest[2] /\ stage' = "spelling" /\ UNCHANGED <<case, verdict>>
      ELSE Gives(base)
  BY DEF ReadAs
<1>5. CASE ~(IsCenter(name) /\ rest[1] <= rest[2])
  <2>1. Gives(base) BY <1>4, <1>5
  <2> HIDE DEF base, S
  <2> QED BY <1>1, <1>3, <2>1, GivesKeeps DEF S
<1>6. CASE IsCenter(name) /\ rest[1] <= rest[2]
  <2>1. begin \in skipped
    <3>1. hi + 1 \in skipped BY <1>0
    <3>2. skipped \in SUBSET Nat BY <1>0
    <3> HIDE DEF skipped
    <3> QED BY <3>1, <3>2, LeastIs
  <2>2. \A p \in skipped : begin <= p
    <3>1. hi + 1 \in skipped BY <1>0
    <3>2. skipped \in SUBSET Nat BY <1>0
    <3> HIDE DEF skipped
    <3> QED BY <3>1, <3>2, LeastIs
  <2>3. begin \in end + 1 .. hi + 1 /\ \A p \in end + 1 .. begin - 1 : text[p] \in Honorifics
    <3> HIDE DEF begin
    <3>1. begin \in end + 1 .. hi + 1 BY <2>1
    <3>2. ASSUME NEW p \in end + 1 .. begin - 1 PROVE text[p] \in Honorifics
      <4>1. p \in end + 1 .. hi + 1 /\ ~(begin <= p) /\ ~(p > hi) BY <1>0, <3>1
      <4>2. p \notin skipped BY <2>2, <4>1
      <4> QED BY <4>1, <4>2
    <3> QED BY <3>1, <3>2
  <2> HIDE DEF begin
  <2>4. Keeps(<<begin, hi>>, rest)
    <3>1. begin \in 1 .. (Len(text) + 1) BY <1>0, <2>3
    <3> QED BY <1>0, <3>1, CleanIs
  <2> HIDE DEF rest
  <2>5. PICK x \in 1 .. (Len(text) + 1), y \in 0 .. Len(text) : rest = <<x, y>>
    <3>1. rest \in TextParts BY <2>4 DEF Keeps
    <3> QED BY <3>1 DEF TextParts
  <2>6. begin <= x /\ y <= hi /\ \A i \in begin .. hi : i \in x .. y \/ text[i] \in Edge BY <2>4, <2>5 DEF Keeps
  <2> DEFINE e == [base |-> base, lo |-> x, hi |-> y]
  <2>7. /\ outer' = Append(outer, e) /\ lo' = x /\ hi' = y /\ x <= y /\ stage' = "spelling" /\ verdict' = verdict
        /\ catalog' = catalog /\ text' = text /\ address' = address
    BY <1>4, <1>6, <2>5 DEF case
  <2> HIDE DEF base
  <2>8. e \in Entries /\ e.base = base BY <1>0, <1>1 DEF Entries, Sound
  <2> HIDE DEF e
  <2>9. /\ outer' \in Seq(Entries) /\ Len(outer) \in Nat /\ Len(outer') = Len(outer) + 1 /\ outer' # <<>>
        /\ \A k \in 1 .. Len(outer) : outer'[k] = outer[k]
        /\ outer'[Len(outer) + 1] = e
    BY <1>0, <2>7, <2>8, AppendProperties, LenProperties
  <2>10. /\ \A k \in 0 .. Len(outer) : Spans(outer', k) = Spans(outer, k)
         /\ Spans(outer', Len(outer) + 1) = Spans(outer, Len(outer)) \cup (start .. end)
    <3>1. /\ \A k \in 0 .. Len(outer) : Spans(Append(outer, e), k) = Spans(outer, k)
          /\ Spans(Append(outer, e), Len(outer) + 1) = Spans(outer, Len(outer)) \cup e.base.span
      BY <1>0, <2>8, SpansAppend
    <3>2. e.base.span = start .. end BY <1>1, <2>8
    <3>3. outer' = Append(outer, e) BY <2>7
    <3> QED BY <3>1, <3>2, <3>3
  <2>11. Shape'
    <3>1. NamesGiven' /\ stage' \in Tiers /\ (lo \in 1 .. (Len(text) + 1))' /\ (hi \in 0 .. Len(text))'
      BY <2>7 DEF MatchInv, Shape, NamesGiven, Tiers
    <3>2. Sound(verdict)' BY <2>7 DEF MatchInv, Shape, Sound, Verdicts
    <3>3. (outer \in Seq(Entries))' BY <2>7, <2>9 DEF Entries, Verdicts
    <3> QED BY <3>1, <3>2, <3>3 DEF Shape
  <2>12. InTiers'
    <3>1. ASSUME NEW i \in 1 .. Len(text) PROVE i \in x .. y \/ Covered(i, S \cup (start .. end))
      <4>1. CASE i \in lo .. hi
        <5>1. i \in lo .. start - 1 \/ i \in start .. end \/ i \in end + 1 .. begin - 1 \/ i \in begin .. hi
          BY <1>0, <2>3, <4>1
        <5>2. CASE i \in lo .. start - 1
          <6>1. start \in start .. end BY <1>0
          <6> QED BY <5>2, <6>1 DEF Behind, Covered
        <5>3. CASE i \in start .. end BY <5>3 DEF Covered
        <5>4. CASE i \in end + 1 .. begin - 1 BY <2>3, <5>4 DEF Covered, Context
        <5>5. CASE i \in begin .. hi BY <2>6, <5>5 DEF Edge, Covered, Context
        <5> QED BY <5>1, <5>2, <5>3, <5>4, <5>5
      <4>2. CASE i \notin lo .. hi
        <5>1. Covered(i, S) BY <1>p, <4>2 DEF Part
        <5> QED BY <5>1, CoveredGrows
      <4> QED BY <4>1, <4>2
    <3>2. Spans(outer, Len(outer))' = S \cup (start .. end)
      <4>1. Spans(outer, Len(outer))' = Spans(outer', Len(outer) + 1) BY <2>7, <2>9 DEF Spans
      <4> QED BY <2>10, <4>1
    <3> HIDE DEF S
    <3> QED BY <2>7, <2>9, <3>1, <3>2 DEF InTiers, Covered
  <2>13. BasesRead'
    <3>1. ASSUME NEW k \in 1 .. Len(outer) + 1
          PROVE  BaseRead(outer'[k].base, Spans(outer', k - 1), k = 1)
      <4>1. CASE k \in 1 .. Len(outer)
        <5>1. BaseRead(outer[k].base, Spans(outer, k - 1), k = 1) BY <4>1 DEF MatchInv, BasesRead
        <5>2. k - 1 \in 0 .. Len(outer) BY <2>9, <4>1
        <5> QED BY <2>9, <2>10, <4>1, <5>1, <5>2
      <4>2. CASE k = Len(outer) + 1
        <5>1. k - 1 = Len(outer) /\ Len(outer) \in 0 .. Len(outer) BY <2>9, <4>2
        <5>2. (k = 1) = (outer = <<>>)
          <6>1. outer = <<>> <=> Len(outer) = 0 BY <1>0, EmptySeq
          <6> QED BY <2>9, <4>2, <6>1
        <5>3. outer'[k].base = base BY <2>8, <2>9, <4>2
        <5>4. Spans(outer', k - 1) = S BY <2>10, <5>1
        <5> HIDE DEF S
        <5> QED BY <1>3, <5>2, <5>3, <5>4
      <4> QED BY <2>9, <4>1, <4>2
    <3>2. Len(outer') = Len(outer) + 1 BY <2>9
    <3>3. \A k \in 1 .. Len(outer') : BaseRead(outer'[k].base, Spans(outer', k - 1), k = 1) BY <3>1, <3>2
    <3> QED BY <2>7, <3>3, BasesSame
  <2>14. AtStart' /\ AnswerRead' BY <2>7 DEF AtStart, AnswerRead
  <2>15. NotPassed'
    <3>1. ASSUME NEW n \in catalog, IsPrefix(n, text) PROVE Len(n) < x
      <4>1. Len(n) <= end /\ Len(n) \in Nat BY <1>0, <3>1, NamesAre DEF Far
      <4> QED BY <1>0, <2>3, <2>6, <4>1
    <3> QED BY <2>7, <2>9, <3>1 DEF NotPassed
  <2>16. GivesWay'
    <3>1. ASSUME NEW n \in catalog', NEW i \in 1 .. (Len(text') - 1), FollowsCenters(n, i)' PROVE FALSE
      <4>1. FollowsCenters(n, i) BY <2>7, <3>1, FollowsSame
      <4>2. ~IsCenter(n) BY <4>1 DEF FollowsCenters
      <4> QED BY <1>6, <2>7, <3>1, <4>1, <4>2
    <3> QED BY <3>1 DEF GivesWay
  <2> QED BY <2>11, <2>12, <2>13, <2>14, <2>15, <2>16 DEF MatchInv
<1> QED BY <1>5, <1>6

-----------------------------------------------------------------------------
(* The tiers keep it. *)

LEMMA MatchHas ==
  ASSUME MatchInv
  PROVE  /\ NamesGiven /\ text \in WordSeqs /\ address \in WordSeqs /\ Len(text) \in Nat /\ hi \in Nat /\ lo \in Nat \ {0}
         /\ hi <= Len(text) /\ hi \in 0 .. Len(text) /\ outer \in Seq(Entries) /\ Sound(verdict)
         /\ stage \notin {"start", "answered"} => lo <= hi
         /\ stage \notin {"start", "spelling", "window", "answered"} \/ outer # <<>> =>
              \A n \in catalog : \A i \in 1 .. (Len(text) - 1) : ~FollowsCenters(n, i)
<1>1. NamesGiven /\ text \in WordSeqs /\ address \in WordSeqs BY DEF MatchInv, Shape, NamesGiven
<1>2. Len(text) \in Nat BY <1>1, SetIs
<1>3. hi \in Nat /\ lo \in Nat \ {0} /\ hi <= Len(text) /\ hi \in 0 .. Len(text) BY <1>2 DEF MatchInv, Shape
<1> QED BY <1>1, <1>2, <1>3 DEF MatchInv, Shape, InTiers, GivesWay

\* After a center, and after the window tier, no name that begins the text is left behind.
LEMMA NotFar ==
  ASSUME MatchInv, stage \notin {"start", "answered"}, outer # <<>> \/ stage \notin {"spelling", "window"}, NEW end \in lo .. hi
  PROVE  Far(end)
<1>1. ASSUME NEW n \in catalog, IsPrefix(n, text) PROVE Len(n) <= end
  <2>1. outer # <<>> /\ Len(n) < lo BY <1>1 DEF MatchInv, NotPassed
  <2>2. Len(n) \in Nat /\ lo \in Nat \ {0} /\ hi \in Nat BY MatchHas, NamesAre
  <2> QED BY <2>1, <2>2
<1> QED BY <1>1 DEF Far

LEMMA StartBehind ==
  ASSUME MatchInv, stage \notin {"start", "answered"}, NEW s \in Starts, NEW label \in BOOLEAN
  PROVE  s \in lo .. hi /\ Behind(s, label)
BY MatchHas, StartsAre DEF Behind

LEMMA UnresolvedKeeps ==
  ASSUME MatchInv, stage # "answered", NEW r \in Failures, Gives(Unresolved(r)),
         \A n \in catalog : \A i \in 1 .. (Len(text) - 1) : ~FollowsCenters(n, i)
  PROVE  MatchInv'
BY UnresolvedSound, GivesKeeps

LEMMA EmptyKeeps == ASSUME MatchInv, Empty PROVE MatchInv'
<1>1. stage = "start" /\ text = <<>> /\ Gives(Unresolved("empty")) BY DEF Empty
<1>2. \A i \in 1 .. (Len(text) - 1) : FALSE
  <2>1. Len(<<>>) = 0 BY EmptySeq
  <2> QED BY <1>1, <2>1
<1>3. "empty" \in Failures BY DEF Failures
<1> QED BY <1>1, <1>2, <1>3, UnresolvedKeeps

LEMMA PlaceholderKeeps == ASSUME MatchInv, Placeholder PROVE MatchInv'
<1>1. stage = "start" /\ text = <<Other>> BY DEF Placeholder
<1>2. CASE address = <<>>
  <2>1. Gives(Unresolved("placeholder")) BY <1>2 DEF Placeholder
  <2>2. \A i \in 1 .. (Len(text) - 1) : FALSE BY <1>1
  <2>3. "placeholder" \in Failures BY DEF Failures
  <2> QED BY <1>1, <2>1, <2>2, <2>3, UnresolvedKeeps
<1>3. CASE address # <<>>
  <2>1. /\ text' = address /\ address' = <<>> /\ lo' = 1 /\ hi' = Len(address)
        /\ catalog' = catalog /\ stage' = "start" /\ outer' = outer /\ verdict' = verdict
    BY <1>1, <1>3 DEF Placeholder
  <2>2. outer = <<>> BY <1>1 DEF MatchInv, AtStart
  <2>3. address \in WordSeqs /\ Len(address) \in Nat
    <3>1. address \in WordSeqs BY MatchHas
    <3> QED BY <3>1, SetIs
  <2>4. <<>> \in WordSeqs BY DEF WordSeqs
  <2>5. NamesGiven' BY <2>1, <2>3, <2>4, MatchHas DEF NamesGiven
  <2>6. Sound(verdict)'
    <3>1. verdict' = Unresolved("none yet") BY <1>1, <2>1 DEF MatchInv, AtStart
    <3>a. Unresolved("none yet").status = "UNRESOLVED" /\ Unresolved("none yet").name = NoneFound
      BY UnresolvedSound DEF Failures
    <3>2. verdict'.status = "UNRESOLVED" /\ verdict'.name = NoneFound BY <3>1, <3>a
    <3>b. verdict'.reason \in Failures
      <4>1. "none yet" \in Failures BY DEF Failures
      <4>2. Unresolved("none yet").reason \in Failures BY <4>1, UnresolvedSound
      <4> QED BY <3>1, <4>2
    <3>3. verdict' \in Verdicts' BY <2>4, <3>1 DEF Unresolved, Answer, Verdicts, Statuses, Reasons
    <3> QED BY <3>2, <3>3, <3>b DEF Sound
  <2>7. Shape'
    <3>1. (outer \in Seq(Entries))'
      <4>1. outer' = <<>> BY <2>1, <2>2
      <4> QED BY <4>1
    <3>2. stage' \in Tiers /\ (lo \in 1 .. (Len(text) + 1))' /\ (hi \in 0 .. Len(text))' BY <2>1, <2>3 DEF Tiers
    <3> QED BY <2>5, <2>6, <3>1, <3>2 DEF Shape
  <2>8. AtStart' BY <1>1, <2>1, <2>2 DEF MatchInv, AtStart, Unresolved, Answer
  <2>9. InTiers' /\ AnswerRead' BY <2>1 DEF InTiers, AnswerRead
  <2>10. BasesRead'
    <3>1. \A k \in 1 .. Len(outer') : FALSE
      <4>1. outer' = <<>> /\ Len(<<>>) = 0 BY <2>1, <2>2, EmptySeq
      <4> QED BY <4>1
    <3> QED BY <3>1 DEF BasesRead
  <2>11. NotPassed' /\ GivesWay' BY <2>1, <2>2 DEF NotPassed, GivesWay
  <2> QED BY <2>7, <2>8, <2>9, <2>10, <2>11 DEF MatchInv
<1> QED BY <1>2, <1>3

LEMMA ExactKeeps == ASSUME MatchInv, Exact PROVE MatchInv'
<1> DEFINE rest == AddressWithout(text)
           st == IF rest # address THEN "SPLIT_ADDRESS" ELSE "EXACT_MATCH"
           v == Answer(text, rest, 100, st, "exact", 1 .. Len(text))
           S == Spans(outer, Len(outer))
<1>1. stage = "start" /\ text \in catalog /\ Gives(v) BY DEF Exact
<1>2. rest \in WordSeqs /\ ToSet(address) \subseteq ToSet(rest) \cup ToSet(text) BY MatchHas, AddressKept
<1>3. v.name = text /\ v.details = rest /\ v.status = st /\ v.reason = "exact" /\ v.span = 1 .. Len(text) BY AnswerHas
<1>4. st \in Statuses \ {"UNRESOLVED"} /\ "exact" \in Reasons BY DEF Statuses, Reasons
<1> HIDE DEF rest, st
<1>5. Sound(v) BY <1>1, <1>2, <1>4, MatchHas, AnswerSound
<1> HIDE DEF v
<1>6. ReadAll(v, S)
  <2>1. \A n \in catalog : IsPrefix(n, text) => \E i \in 1 .. Len(text) : i >= Len(n)
    <3>1. Len(text) \in 1 .. Len(text) BY <1>1, MatchHas, NamesAre
    <3>2. \A n \in catalog : Len(n) \in Nat BY MatchHas, NamesAre
    <3> QED BY <3>1, <3>2, MatchHas DEF IsPrefix
  <2> HIDE DEF S
  <2> QED BY <1>2, <1>3, <2>1 DEF ReadAll, Covered
<1>7. BaseRead(v, S, outer = <<>>) 
  <2> HIDE DEF S
  <2> QED BY <1>3, <1>4, <1>5, <1>6 DEF BaseRead, Certain
<1>8. \A n \in catalog : \A i \in 1 .. (Len(text) - 1) : ~FollowsCenters(n, i)
  <2>1. ASSUME NEW n \in catalog, NEW i \in 1 .. (Len(text) - 1), FollowsCenters(n, i) PROVE FALSE
    <3>1. 1 \in 1 .. i BY MatchHas
    <3>2. FullName(Words(1, Len(text))) = {} BY <2>1, <3>1 DEF FollowsCenters
    <3>3. Words(1, Len(text)) = text BY MatchHas, SubSeqFull DEF Words, WordSeqs
    <3>4. FullName(text) # {} BY <1>1, WrittenIsFull
    <3> QED BY <3>2, <3>3, <3>4
  <2> QED BY <2>1
<1> QED BY <1>1, <1>5, <1>7, <1>8, GivesKeeps

LEMMA MatchTextKeeps == ASSUME MatchInv, MatchText PROVE MatchInv'
<1>1. /\ stage = "start" /\ text # <<>> /\ stage' = "spelling" /\ verdict' = verdict /\ catalog' = catalog /\ text' = text
      /\ address' = address /\ lo' = lo /\ hi' = hi /\ outer' = outer
  BY DEF MatchText, GoesOn, case
<1>2. outer = <<>> /\ lo = 1 /\ hi = Len(text) BY <1>1 DEF MatchInv, AtStart
<1>3. 1 <= Len(text)
  <2>1. text \in WordSeqs BY MatchHas
  <2> QED BY <1>1, <2>1, EmptySeq DEF WordSeqs
<1>4. Shape'
  <2>1. NamesGiven' /\ stage' \in Tiers /\ (lo \in 1 .. (Len(text) + 1))' /\ (hi \in 0 .. Len(text))'
    BY <1>1 DEF MatchInv, Shape, NamesGiven, Tiers
  <2>2. Sound(verdict)' BY <1>1 DEF MatchInv, Shape, Sound, Verdicts
  <2>3. (outer \in Seq(Entries))' BY <1>1 DEF MatchInv, Shape, Entries, Verdicts
  <2> QED BY <2>1, <2>2, <2>3 DEF Shape
<1>5. InTiers' BY <1>1, <1>2, <1>3 DEF InTiers
<1>6. AtStart' /\ AnswerRead' BY <1>1 DEF AtStart, AnswerRead
<1>7. BasesRead'
  <2>1. \A k \in 1 .. Len(outer') : FALSE
    <3>1. outer' = <<>> /\ Len(<<>>) = 0 BY <1>1, <1>2, EmptySeq
    <3> QED BY <3>1
  <2> QED BY <2>1 DEF BasesRead
<1>8. NotPassed' /\ GivesWay' BY <1>1, <1>2 DEF NotPassed, GivesWay
<1> QED BY <1>4, <1>5, <1>6, <1>7, <1>8 DEF MatchInv

LEMMA SpellingKeeps == ASSUME MatchInv, Spelling PROVE MatchInv'
<1> DEFINE raw == Words(lo, hi)
           S == Spans(outer, Len(outer))
<1>0. stage = "spelling" BY DEF Spelling
<1>1. CASE raw \notin catalog
  <2>1. GoesOn("window") BY <1>1 DEF Spelling
  <2> QED BY <1>0, <2>1, GoesOnKeeps
<1>2. CASE raw \in catalog
  <2> DEFINE v == Answer(raw, Details(raw, <<>>), 95, "NORMALIZED_MATCH", "spelling", lo .. hi)
  <2>1. Gives(v) BY <1>2 DEF Spelling
  <2>2. Part(S) BY <1>0, TierPart
  <2>3. lo \in lo .. hi /\ hi \in lo .. hi BY <1>0, MatchHas
  <2>4. Behind(lo, FALSE)
    <3>1. \A i \in lo .. lo - 1 : FALSE BY MatchHas
    <3> QED BY <3>1 DEF Behind
  <2>5. "spelling" \in Reasons /\ "NORMALIZED_MATCH" \in Statuses \ {"UNRESOLVED"} BY DEF Reasons, Statuses
  <2>6. outer = <<>> => lo = 1 /\ hi = Len(text) /\ raw = text
    <3>1. outer = <<>> => lo = 1 /\ hi = Len(text) BY <1>0 DEF MatchInv, InTiers
    <3>2. Words(1, Len(text)) = text BY MatchHas, SubSeqFull DEF Words, WordSeqs
    <3> QED BY <3>1, <3>2
  <2>7. Far(hi)
    <3>1. CASE outer # <<>> BY <1>0, <2>3, <3>1, NotFar
    <3>2. CASE outer = <<>> BY <2>6, <3>2 DEF Far, IsPrefix
    <3> QED BY <3>1, <3>2
  <2> HIDE DEF raw, S
  <2>a. 95 \in {90, 95} OBVIOUS
  <2>r. RestRead(v, raw, S) BY <1>2, <2>2, <2>3, <2>4, <2>5, <2>a, RestReads
  <2> HIDE DEF v
  <2>8. Sound(v) /\ v.status # "UNRESOLVED" /\ v.name = raw /\ ReadAll(v, S) BY <2>7, <2>r DEF RestRead
  <2>9. outer = <<>> => Certain(v) BY <2>6, <2>8 DEF Certain
  <2>10. BaseRead(v, S, outer = <<>>) BY <2>8, <2>9 DEF BaseRead
  <2>11. ASSUME NEW n \in catalog, NEW i \in 1 .. (Len(text) - 1), FollowsCenters(n, i) PROVE FALSE
    <3>1. outer = <<>> BY <2>11 DEF MatchInv, GivesWay
    <3>2. 1 \in 1 .. i BY MatchHas
    <3>3. FullName(Words(1, Len(text))) = {} BY <2>11, <3>2 DEF FollowsCenters
    <3>4. Words(1, Len(text)) = raw BY <2>6, <3>1 DEF raw
    <3>5. FullName(raw) # {} BY <1>2, WrittenIsFull
    <3> QED BY <3>3, <3>4, <3>5
  <2> QED BY <1>0, <2>1, <2>8, <2>10, <2>11, GivesKeeps DEF S
<1> QED BY <1>1, <1>2

\* A name, of several that may be written, or a longer one of which it is the beginning.
LEMMA ExtendedKeeps ==
  ASSUME MatchInv, stage \notin {"start", "answered"}, NEW start \in lo .. hi, NEW end \in start .. hi,
         NEW names \in SUBSET catalog, NEW matched \in WordSeqs, NEW c \in {90, 94}, NEW r \in {"window", "misspelled"},
         NEW fuzzy \in BOOLEAN, Behind(start, FALSE), ~fuzzy => \E m \in names : SameWords(m, Words(start, end)), Far(end),
         \A n \in catalog : \A i \in 1 .. (Len(text) - 1) : FollowsCenters(n, i) =>
           names = {n} /\ Extensions(matched, end) = {},
         Extended(start, end, names, matched, c, r, fuzzy)
  PROVE  MatchInv'
<1> DEFINE more == Extensions(matched, end)
<1>0. NamesGiven /\ start \in Nat \ {0} /\ end \in Nat /\ hi \in Nat /\ lo \in Nat \ {0} BY MatchHas
<1>1. \/ \E name \in Chosen(names) :
           IF name = NoneFound THEN Gives(Unresolved("ambiguous")) ELSE ReadAs(start, end, name, c, r, fuzzy)
      \/ ~SamePlace({x[1] : x \in more}) /\ Gives(Unresolved("ambiguous"))
      \/ \E x \in more : Chosen(names) # {NoneFound} /\ ReadAs(start, x[2], x[1], 90, "longer", TRUE)
  BY DEF Extended
<1>a. "ambiguous" \in Failures BY DEF Failures
<1>b. Behind(start, fuzzy) /\ Behind(start, TRUE) BY DEF Behind
<1>2. ASSUME NEW name \in Chosen(names), name = NoneFound, Gives(Unresolved("ambiguous")) PROVE MatchInv'
  <2>1. ASSUME NEW n \in catalog, NEW i \in 1 .. (Len(text) - 1), FollowsCenters(n, i) PROVE FALSE
    <3>1. names = {n} BY <2>1
    <3>2. Cardinality({n}) = 1 BY FS_Singleton
    <3>3. name = n BY <1>2, <3>1, <3>2 DEF Chosen
    <3>4. n # NoneFound BY <1>0, NamesAre
    <3> QED BY <1>2, <3>3, <3>4
  <2> QED BY <1>a, <1>2, <2>1, UnresolvedKeeps
<1>3. ASSUME NEW name \in Chosen(names), name # NoneFound, ReadAs(start, end, name, c, r, fuzzy) PROVE MatchInv'
  <2>1. name \in names /\ \A m \in names : SameWords(name, m) BY <1>0, <1>3, ChosenIs
  <2>2. ~fuzzy => SameWords(name, Words(start, end))
    <3>1. ASSUME NEW m \in names, SameWords(m, Words(start, end)) PROVE SameWords(name, Words(start, end))
      <4>1. SameWords(name, m) BY <2>1
      <4> QED BY <3>1, <4>1 DEF SameWords
    <3> QED BY <3>1
  <2>3. \A n \in catalog : \A i \in 1 .. (Len(text) - 1) : FollowsCenters(n, i) => name = n BY <2>1
  <2>4. name \in catalog /\ r \in {"window", "longer", "typo", "misspelled"} BY <2>1
  <2> QED BY <1>3, <1>b, <2>2, <2>3, <2>4, ReadAsKeeps
<1>4. ASSUME ~SamePlace({x[1] : x \in more}), Gives(Unresolved("ambiguous")) PROVE MatchInv'
  <2>1. ASSUME NEW n \in catalog, NEW i \in 1 .. (Len(text) - 1), FollowsCenters(n, i) PROVE FALSE
    <3>1. more = {} BY <2>1
    <3> QED BY <1>4, <3>1 DEF SamePlace
  <2> QED BY <1>a, <1>4, <2>1, UnresolvedKeeps
<1>5. ASSUME NEW x \in more, ReadAs(start, x[2], x[1], 90, "longer", TRUE) PROVE MatchInv'
  <2>1. PICK name \in catalog, last \in Nat : x = <<name, last>> /\ x[1] = name /\ x[2] = last /\ end < last /\ last <= hi
    BY <1>0, ExtensionIs
  <2>2. last \in start .. hi BY <1>0, <2>1
  <2>3. Far(last)
    <3>1. \A n \in catalog : Len(n) \in Nat BY <1>0, NamesAre
    <3> QED BY <1>0, <2>1, <3>1 DEF Far
  <2>4. \A n \in catalog : \A i \in 1 .. (Len(text) - 1) : FollowsCenters(n, i) => name = n OBVIOUS
  <2>5. ReadAs(start, last, name, 90, "longer", TRUE) BY <1>5, <2>1
  <2>6. 90 \in {90, 94} /\ "longer" \in {"window", "longer", "typo", "misspelled"} /\ TRUE \in BOOLEAN OBVIOUS
  <2> HIDE DEF more
  <2> QED BY <1>b, <2>2, <2>3, <2>4, <2>5, <2>6, ReadAsKeeps
<1> QED BY <1>1, <1>2, <1>3, <1>4, <1>5

\* What is written in a part of the text.
LEMMA WrittenIs ==
  ASSUME MatchInv, stage \notin {"start", "answered"}
  PROVE  /\ \A w \in Written : \E s \in Starts : s \in lo .. hi /\ w = WindowAt(s) /\ Fits(w, s)
         /\ \A w \in Written : w.end \in 0 .. hi /\ w.start \in Nat
         /\ \A s \in Starts : WindowAt(s) # NoWindow => WindowAt(s) \in Written
<1>1. ASSUME NEW w \in Written
      PROVE  /\ \E s \in Starts : s \in lo .. hi /\ w = WindowAt(s) /\ Fits(w, s)
             /\ w.end \in 0 .. hi /\ w.start \in Nat
  <2>1. PICK s \in Starts : w = WindowAt(s) /\ w # NoWindow BY DEF Written
  <2>2. s \in lo .. hi /\ s \in 1 .. hi /\ s \in Nat
    <3>1. s \in lo .. hi BY StartBehind
    <3> QED BY <3>1, MatchHas
  <2>3. Fits(w, s) BY <2>1, <2>2, MatchHas, WindowAtIs
  <2>4. PICK e \in s .. hi, names \in SUBSET catalog, words \in WordSeqs : w = Window(e, s, names, words)
    BY <2>3 DEF Fits
  <2>5. w.end = e /\ w.start = s BY <2>4, WindowHas
  <2>6. e \in 0 .. hi BY <2>2, MatchHas
  <2> QED BY <2>1, <2>2, <2>3, <2>5, <2>6
<1>2. ASSUME NEW s \in Starts, WindowAt(s) # NoWindow PROVE WindowAt(s) \in Written BY <1>2 DEF Written
<1> QED BY <1>1, <1>2

\* A name that begins the text is written there.
LEMMA BeginningIsWritten ==
  ASSUME MatchInv, stage \notin {"start", "answered"}, outer = <<>>, NEW n \in catalog, IsPrefix(n, text)
  PROVE  WindowAt(1) \in Written /\ Len(n) <= WindowAt(1).end
<1>0. lo = 1 /\ hi = Len(text) /\ 1 <= hi BY MatchHas DEF MatchInv, InTiers
<1>1. Len(n) \in Nat \ {0} /\ n \in WordSeqs /\ Len(n) <= Len(text) BY MatchHas, NamesAre DEF IsPrefix
<1>2. Words(1, Len(n)) = n
  <2>1. SubSeq(n, 1, Len(n)) = SubSeq(text, 1, Len(n)) BY DEF IsPrefix
  <2>2. SubSeq(n, 1, Len(n)) = n BY <1>1, SubSeqFull DEF WordSeqs
  <2> QED BY <2>1, <2>2 DEF Words
<1>3. 1 \in 1 .. hi /\ Len(n) \in 1 .. hi BY <1>0, <1>1, MatchHas
<1>4. Longest(1, FALSE) # NoWindow /\ Len(n) <= Longest(1, FALSE).end BY <1>2, <1>3, MatchHas, LongestReaches
<1>5. WindowAt(1) # NoWindow /\ Longest(1, FALSE).end <= WindowAt(1).end BY <1>3, <1>4, MatchHas, WindowAtIs
<1>6. 1 \in Starts BY <1>0, MatchHas, StartsAre
<1>7. WindowAt(1) \in Written BY <1>5, <1>6, WrittenIs
<1>8. Len(n) <= WindowAt(1).end
  <2> DEFINE a == Longest(1, FALSE).end
             b == WindowAt(1).end
  <2>1. a \in Nat
    <3>1. PICK e \in 1 .. hi, names \in SUBSET catalog, words \in WordSeqs : Longest(1, FALSE) = Window(e, 1, names, words)
      BY <1>3, <1>4, MatchHas, LongestIs, Zenon
    <3> DEFINE w == Longest(1, FALSE)
    <3>2. w = Window(e, 1, names, words) BY <3>1
    <3> HIDE DEF w
    <3>3. w.end = e BY <3>2, WindowHas
    <3>4. w.end \in Nat BY <3>3
    <3> QED BY <3>4 DEF w
  <2>2. b \in Nat
    <3> DEFINE w == WindowAt(1)
    <3>1. w \in Written BY <1>7
    <3> HIDE DEF w
    <3>2. w.end \in 0 .. hi BY <3>1, WrittenIs
    <3>3. w.end \in Nat BY <3>2, MatchHas
    <3> QED BY <3>3 DEF w
  <2>3. Len(n) <= a /\ a <= b BY <1>4, <1>5
  <2> HIDE DEF a, b
  <2>4. Len(n) <= b BY <1>1, <2>1, <2>2, <2>3
  <2> QED BY <2>4 DEF b
<1> QED BY <1>7, <1>8

\* After centers, the window that is taken is the name that is all the rest.
LEMMA CentersAreStarts ==
  ASSUME MatchInv, stage \notin {"start", "answered"}, outer = <<>>, NEW n, NEW i, FollowsCenters(n, i)
  PROVE  \A j \in 1 .. i + 1 : j \in Starts
<1> DEFINE bad == {j \in 1 .. i + 1 : j \notin Starts}
<1>0. lo = 1 /\ hi = Len(text) /\ 1 <= hi /\ hi \in Nat /\ i \in 1 .. hi - 1 BY MatchHas DEF MatchInv, InTiers, FollowsCenters
<1>1. GovLabel \notin Centers BY MatchHas DEF NamesGiven, MatchingAssumption
<1>2. bad = {}
  <2> SUFFICES ASSUME bad # {} PROVE FALSE OBVIOUS
  <2>1. PICK j \in bad : \A k \in bad : j <= k
    <3>1. bad \in SUBSET Nat BY <1>0
    <3> HIDE DEF bad
    <3> QED BY <3>1, LeastOf
  <2>2. j \in 1 .. i + 1 /\ j \notin Starts OBVIOUS
  <2>3. CASE j = 1 BY <1>0, <2>2, <2>3, MatchHas, StartsAre
  <2>4. CASE j # 1
    <3>1. j - 1 \in 1 .. i /\ j - 1 \in 1 .. i + 1 /\ ~(j <= j - 1) /\ j - 1 < hi /\ (j - 1) + 1 = j BY <1>0, <2>2, <2>4
    <3>2. j - 1 \in Starts BY <2>1, <3>1
    <3>3. text[j - 1] \in Centers BY <3>1 DEF FollowsCenters
    <3>4. (j - 1) + 1 \in Starts BY <1>0, <1>1, <3>1, <3>2, <3>3, MatchHas, StartsAre
    <3> QED BY <2>2, <3>1, <3>4
  <2> QED BY <2>3, <2>4
<1> QED BY <1>2

LEMMA CentersGive ==
  ASSUME MatchInv, stage \notin {"start", "answered"}, outer = <<>>, NEW n, NEW i, FollowsCenters(n, i)
  PROVE  Written # {} /\ Furthest(Written) = Window(hi, i + 1, {n}, n)
<1>0. lo = 1 /\ hi = Len(text) /\ 1 <= hi /\ hi \in Nat /\ i \in 1 .. hi - 1 BY MatchHas DEF MatchInv, InTiers, FollowsCenters
<1>1. n \in catalog /\ Words(i + 1, hi) = n BY <1>0 DEF FollowsCenters
<1>2. i + 1 \in 1 .. hi /\ i + 1 \in 1 .. i + 1 BY <1>0
<1>3. i + 1 \in Starts BY <1>2, CentersAreStarts
<1> DEFINE v == WindowAt(i + 1)
           w == Furthest(Written)
<1>4. v = Window(hi, i + 1, {n}, n) BY <1>1, <1>2, MatchHas, WindowOfRest
<1>5. v \in Written
  <2>1. Window(hi, i + 1, {n}, n) # NoWindow BY <1>0, WindowHas
  <2> QED BY <1>3, <1>4, <2>1, WrittenIs
<1>6. w \in Written /\ Reaches(w, v)
  <2>1. hi \in Nat /\ Written # {} BY <1>0, <1>5
  <2>2. \A u \in Written : u.end \in 0 .. hi /\ u.start \in Nat BY WrittenIs
  <2> HIDE DEF v
  <2> QED BY <1>5, <2>1, <2>2, FurthestIs
<1> HIDE DEF v, w
<1>7. v.end = hi /\ v.start = i + 1 BY <1>4, WindowHas
<1>8. PICK s \in Starts : s \in lo .. hi /\ w = WindowAt(s) /\ Fits(w, s) BY <1>6, WrittenIs
<1>9. PICK e \in s .. hi, names \in SUBSET catalog, words \in WordSeqs : w = Window(e, s, names, words) BY <1>8 DEF Fits
<1>10. w.end = e /\ w.start = s BY <1>9, WindowHas
<1>11. e = hi /\ s <= i + 1 BY <1>0, <1>6, <1>7, <1>8, <1>9, <1>10 DEF Reaches
<1>12. s = i + 1
  <2>1. CASE s \in 1 .. i
    <3>1. text[s] \in Centers /\ FullName(Words(s, hi)) = {} BY <1>0, <2>1 DEF FollowsCenters
    <3>2. text[s] \notin Labels BY <3>1, MatchHas DEF NamesGiven, MatchingAssumption
    <3>3. s \in 1 .. hi BY <1>0, <2>1
    <3>4. WindowAt(s) # NoWindow
      <4>1. s # 0 BY <2>1
      <4> QED BY <1>8, <1>9, <4>1, WindowHas
    <3>5. WindowAt(s).end < hi BY <3>1, <3>2, <3>3, <3>4, MatchHas, WindowEnds
    <3>6. w.end < hi BY <1>8, <3>5
    <3> QED BY <1>0, <1>10, <1>11, <3>6
  <2> QED BY <1>0, <1>8, <1>11, <2>1
<1> QED BY <1>4, <1>5, <1>8, <1>12 DEF v, w

LEMMA WindowKeeps == ASSUME MatchInv, WindowMatch PROVE MatchInv'
<1>0. stage = "window" /\ NamesGiven /\ hi \in Nat /\ lo \in Nat \ {0} BY MatchHas DEF WindowMatch
<1>1. CASE Written = {}
  <2>1. GoesOn("prefix") BY <1>1 DEF WindowMatch
  <2>2. outer = <<>> => \A n \in catalog : ~IsPrefix(n, text) BY <1>0, <1>1, BeginningIsWritten
  <2>3. ASSUME NEW n \in catalog, NEW i \in 1 .. (Len(text) - 1), FollowsCenters(n, i) PROVE FALSE
    <3>1. outer = <<>> BY <2>3 DEF MatchInv, GivesWay
    <3> QED BY <1>0, <1>1, <2>3, <3>1, CentersGive
  <2> QED BY <1>0, <2>1, <2>2, <2>3, GoesOnKeeps
<1>2. CASE Written # {}
  <2> DEFINE w == Furthest(Written)
  <2>1. Extended(w.start, w.end, w.names, w.words, 94, "window", FALSE) BY <1>2 DEF WindowMatch
  <2>2. w \in Written /\ \A v \in Written : Reaches(w, v)
    <3>1. \A u \in Written : u.end \in 0 .. hi /\ u.start \in Nat BY <1>0, WrittenIs
    <3> QED BY <1>0, <1>2, <3>1, FurthestIs
  <2> HIDE DEF w
  <2>3. PICK s \in Starts : s \in lo .. hi /\ w = WindowAt(s) /\ Fits(w, s) BY <1>0, <2>2, WrittenIs
  <2>4. PICK e \in s .. hi, names \in SUBSET catalog, words \in WordSeqs :
          w = Window(e, s, names, words) /\ \E m \in names : SameWords(m, Words(s, e))
    BY <2>3 DEF Fits
  <2>5. w.end = e /\ w.start = s /\ w.names = names /\ w.words = words BY <2>4, WindowHas
  <2>6. Extended(s, e, names, words, 94, "window", FALSE) BY <2>1, <2>5
  <2>7. Far(e)
    <3>1. CASE outer # <<>>
      <4>1. e \in lo .. hi BY <1>0, <2>3
      <4> QED BY <1>0, <3>1, <4>1, NotFar
    <3>2. CASE outer = <<>>
      <4>1. ASSUME NEW n \in catalog, IsPrefix(n, text) PROVE Len(n) <= e
        <5> DEFINE v == WindowAt(1)
        <5>1. v \in Written /\ Len(n) <= v.end BY <1>0, <3>2, <4>1, BeginningIsWritten
        <5> HIDE DEF v
        <5>2. v.end \in 0 .. hi /\ Reaches(w, v) BY <1>0, <2>2, <5>1, WrittenIs
        <5>3. Len(n) \in Nat BY <1>0, NamesAre
        <5>4. v.end <= e /\ v.end \in Nat BY <1>0, <2>5, <5>2 DEF Reaches
        <5> QED BY <1>0, <5>1, <5>3, <5>4
      <4> QED BY <4>1 DEF Far
    <3> QED BY <3>1, <3>2
  <2>8. ASSUME NEW n \in catalog, NEW i \in 1 .. (Len(text) - 1), FollowsCenters(n, i)
        PROVE  names = {n} /\ Extensions(words, e) = {}
    <3>1. outer = <<>> BY <2>8 DEF MatchInv, GivesWay
    <3>2. w = Window(hi, i + 1, {n}, n) BY <1>0, <2>8, <3>1, CentersGive DEF w
    <3>3. w.end = hi /\ w.names = {n} /\ w.words = n BY <3>2, WindowHas
    <3>4. e = hi /\ names = {n} /\ words = n BY <2>5, <3>3
    <3>5. ASSUME NEW x \in Extensions(words, e) PROVE FALSE
      <4>1. \E name \in catalog, last \in Nat : e < last /\ last <= hi BY <1>0, <3>4, ExtensionIs
      <4> QED BY <1>0, <3>4, <4>1
    <3> QED BY <3>4, <3>5
  <2>9. Behind(s, FALSE) /\ 94 \in {90, 94} /\ "window" \in {"window", "misspelled"} /\ FALSE \in BOOLEAN
    BY <1>0, StartBehind
  <2> QED BY <1>0, <2>3, <2>4, <2>6, <2>7, <2>8, <2>9, ExtendedKeeps
<1> QED BY <1>1, <1>2

\* Only the rest of the part is like the name.
LEMMA RestKeeps ==
  ASSUME MatchInv, stage \notin {"start", "spelling", "window", "answered"}, NEW s \in Starts, NEW name \in catalog,
         NEW r \in {"prefix", "similar"}, Gives(Answer(name, Details(name, <<>>), 90, "FUZZY_MATCH", r, s .. hi))
  PROVE  MatchInv'
<1> DEFINE v == Answer(name, Details(name, <<>>), 90, "FUZZY_MATCH", r, s .. hi)
           S == Spans(outer, Len(outer))
<1>1. Part(S) BY TierPart
<1>2. s \in lo .. hi /\ Behind(s, FALSE) BY StartBehind
<1>3. 90 \in {90, 95} /\ r \in Reasons /\ "FUZZY_MATCH" \in Statuses \ {"UNRESOLVED"} BY DEF Reasons, Statuses
<1>4. hi \in lo .. hi BY <1>2, MatchHas
<1>5. Far(hi) BY <1>4, NotFar
<1> HIDE DEF S
<1>6. RestRead(v, name, S) BY <1>1, <1>2, <1>3, RestReads
<1>7. v.reason = r BY AnswerHas
<1>8. Gives(v) OBVIOUS
<1> HIDE DEF v
<1>9. BaseRead(v, S, outer = <<>>) BY <1>5, <1>6, <1>7 DEF BaseRead, RestRead, Certain
<1>10. \A n \in catalog : \A i \in 1 .. (Len(text) - 1) : ~FollowsCenters(n, i) BY MatchHas
<1> QED BY <1>8, <1>9, <1>10, GivesKeeps DEF S, BaseRead

LEMMA PrefixKeeps == ASSUME MatchInv, UniquePrefix PROVE MatchInv'
<1> DEFINE names(s) == {x[1] : x \in {y \in Longer(Words(s, hi)) : Len(y[2]) <= 2 * (hi + 1 - s)}}
<1>0. stage = "prefix" BY DEF UniquePrefix
<1>1. \/ \E s \in Starts : \E name \in Chosen(names(s)) \ {NoneFound} :
           Gives(Answer(name, Details(name, <<>>), 90, "FUZZY_MATCH", "prefix", s .. hi))
      \/ GoesOn("typo")
  BY DEF UniquePrefix
<1>2. ASSUME NEW s \in Starts, NEW name \in Chosen(names(s)) \ {NoneFound},
             Gives(Answer(name, Details(name, <<>>), 90, "FUZZY_MATCH", "prefix", s .. hi))
      PROVE  MatchInv'
  <2>1. s \in lo .. hi BY <1>0, StartBehind
  <2>2. Words(s, hi) \in WordSeqs
    <3>1. s \in Nat \ {0} /\ hi \in s .. Len(text) BY <2>1, MatchHas
    <3> QED BY <3>1, MatchHas, WordsAre
  <2>3. names(s) \in SUBSET catalog BY <2>2, MatchHas, LongerIs
  <2> HIDE DEF names
  <2>4. name \in catalog BY <2>3, MatchHas, ChosenIs
  <2> QED BY <1>0, <1>2, <2>4, RestKeeps
<1>3. ASSUME GoesOn("typo") PROVE MatchInv'
  <2>1. \A end \in lo .. hi : Far(end) BY <1>0, NotFar
  <2>2. outer = <<>> => \A n \in catalog : ~IsPrefix(n, text) BY <1>0 DEF MatchInv, NotPassed
  <2>3. \A n \in catalog : \A i \in 1 .. (Len(text) - 1) : ~FollowsCenters(n, i) BY <1>0, MatchHas
  <2> QED BY <1>0, <1>3, <2>2, <2>3, GoesOnKeeps
<1> QED BY <1>1, <1>2, <1>3

LEMMA TypoKeeps == ASSUME MatchInv, WindowTypo PROVE MatchInv'
<1> DEFINE after == {s + 1 : s \in {p \in Starts : p < hi /\ text[p] \in Labels}} \ Starts
           windows == {TypoAt(s, s \in after) : s \in Starts \cup after} \ {NoWindow}
<1>0. stage = "typo" /\ NamesGiven /\ hi \in Nat /\ lo \in Nat \ {0} /\ "ambiguous" \in Failures
  BY MatchHas DEF WindowTypo, Failures
<1>a. /\ outer = <<>> => \A n \in catalog : ~IsPrefix(n, text)
      /\ \A n \in catalog : \A i \in 1 .. (Len(text) - 1) : ~FollowsCenters(n, i)
  BY <1>0, MatchHas DEF MatchInv, NotPassed
<1>1. IF windows = {} THEN GoesOn("whole")
      ELSE IF \E w \in windows : ~SamePlace(w.names) THEN Gives(Unresolved("ambiguous"))
      ELSE \E name \in Chosen(Furthest(windows).names) :
             IF name = NoneFound THEN GoesOn("whole")
             ELSE ReadAs(Furthest(windows).start, Furthest(windows).end, name, 90, "typo", TRUE)
  BY DEF WindowTypo
<1>2. ASSUME NEW s \in Starts \cup after PROVE s \in lo .. hi /\ Behind(s, TRUE)
  <2>1. CASE s \in Starts BY <1>0, <2>1, StartBehind
  <2>2. CASE s \in after
    <3>1. PICK p \in Starts : p < hi /\ text[p] \in Labels /\ s = p + 1 BY <2>2
    <3>2. p \in lo .. hi /\ Behind(p, FALSE) BY <1>0, StartBehind
    <3>3. s \in lo .. hi BY <1>0, <3>1, <3>2
    <3>4. \A i \in lo .. s - 1 : i \in lo .. p - 1 \/ i = p BY <1>0, <3>1, <3>2
    <3>5. Behind(s, TRUE) BY <3>1, <3>2, <3>4 DEF Behind
    <3> QED BY <3>3, <3>5
  <2> QED BY <2>1, <2>2
<1>3. ASSUME NEW w \in windows
      PROVE  \E s \in Starts \cup after : \E e \in s .. hi, names \in SUBSET catalog : w = Window(e, s, names, <<>>)
  <2>1. PICK s \in Starts \cup after : w = TypoAt(s, s \in after) /\ w # NoWindow OBVIOUS
  <2>2. s \in 1 .. hi
    <3>1. s \in lo .. hi BY <1>2
    <3> QED BY <1>0, <3>1
  <2>3. (s \in after) \in BOOLEAN OBVIOUS
  <2>4. \E e \in s .. hi, names \in SUBSET catalog : w = Window(e, s, names, <<>>)
    <3> HIDE DEF after
    <3> QED BY <1>0, <2>1, <2>2, <2>3, MatchHas, TypoIs
  <2> HIDE DEF after, windows
  <2> QED BY <2>4
<1> HIDE DEF after, windows
<1>4. CASE GoesOn("whole") BY <1>0, <1>4, <1>a, GoesOnKeeps
<1>5. CASE Gives(Unresolved("ambiguous")) BY <1>0, <1>5, <1>a, UnresolvedKeeps
<1>6. ASSUME windows # {}, NEW name \in Chosen(Furthest(windows).names), name # NoneFound,
             ReadAs(Furthest(windows).start, Furthest(windows).end, name, 90, "typo", TRUE)
      PROVE  MatchInv'
  <2> DEFINE w == Furthest(windows)
  <2>1. ASSUME NEW u \in windows PROVE u.end \in 0 .. hi /\ u.start \in Nat
    <3>1. PICK s \in Starts \cup after : \E e \in s .. hi, names \in SUBSET catalog : u = Window(e, s, names, <<>>) BY <1>3
    <3>2. PICK e \in s .. hi, names \in SUBSET catalog : u = Window(e, s, names, <<>>) BY <3>1
    <3>3. u.end = e /\ u.start = s BY <3>2, WindowHas
    <3>4. s \in lo .. hi BY <1>2
    <3>5. s \in Nat /\ e \in 0 .. hi BY <1>0, <3>4
    <3> QED BY <3>3, <3>5
  <2>2. w \in windows BY <1>0, <1>6, <2>1, FurthestIs
  <2>w. name \in Chosen(w.names) /\ ReadAs(w.start, w.end, name, 90, "typo", TRUE) BY <1>6
  <2> HIDE DEF w
  <2>3. PICK s \in Starts \cup after : \E e \in s .. hi, names \in SUBSET catalog : w = Window(e, s, names, <<>>) BY <1>3, <2>2
  <2>4. PICK e \in s .. hi, names \in SUBSET catalog : w = Window(e, s, names, <<>>) BY <2>3
  <2>5. w.end = e /\ w.start = s /\ w.names = names BY <2>4, WindowHas
  <2>6. ReadAs(s, e, name, 90, "typo", TRUE) /\ name \in Chosen(names) BY <2>w, <2>5
  <2>7. name \in catalog BY <1>0, <1>6, <2>6, ChosenIs
  <2>8. s \in lo .. hi /\ Behind(s, TRUE) BY <1>2
  <2>9. Far(e)
    <3>1. e \in lo .. hi BY <1>0, <2>8
    <3> QED BY <1>0, <3>1, NotFar
  <2>10. 90 \in {90, 94} /\ "typo" \in {"window", "longer", "typo", "misspelled"} /\ TRUE \in BOOLEAN OBVIOUS
  <2> QED BY <1>0, <1>a, <2>6, <2>7, <2>8, <2>9, <2>10, ReadAsKeeps
<1> QED BY <1>1, <1>4, <1>5, <1>6

LEMMA WholeKeeps == ASSUME MatchInv, WholeFuzzy PROVE MatchInv'
<1>0. stage = "whole" BY DEF WholeFuzzy
<1>1. lo \in Starts BY <1>0, MatchHas, StartsAre
<1>2. ASSUME NEW name \in catalog, Gives(Answer(name, Details(name, <<>>), 90, "FUZZY_MATCH", "similar", lo .. hi))
      PROVE  MatchInv'
  BY <1>0, <1>1, <1>2, RestKeeps
<1>3. CASE GoesOn("fuzzy")
  <2>1. /\ outer = <<>> => \A n \in catalog : ~IsPrefix(n, text)
        /\ \A n \in catalog : \A i \in 1 .. (Len(text) - 1) : ~FollowsCenters(n, i)
    BY <1>0, MatchHas DEF MatchInv, NotPassed
  <2> QED BY <1>0, <1>3, <2>1, GoesOnKeeps
<1> QED BY <1>2, <1>3 DEF WholeFuzzy

LEMMA FuzzyKeeps == ASSUME MatchInv, WindowFuzzy PROVE MatchInv'
<1>0. stage = "fuzzy" /\ "ambiguous" \in Failures /\ "no match" \in Failures BY DEF WindowFuzzy, Failures
<1>a. \A n \in catalog : \A i \in 1 .. (Len(text) - 1) : ~FollowsCenters(n, i) BY <1>0, MatchHas
<1>1. \/ Gives(Unresolved("no match")) \/ Gives(Unresolved("ambiguous"))
      \/ \E x \in Starts \X (lo .. hi) \X NamesAndForms :
           x[1] <= x[2] /\ Extended(x[1], x[2], {x[3][1]}, x[3][2], 90, "misspelled", TRUE)
  BY DEF WindowFuzzy
<1>2. CASE Gives(Unresolved("no match")) BY <1>0, <1>2, <1>a, UnresolvedKeeps
<1>3. CASE Gives(Unresolved("ambiguous")) BY <1>0, <1>3, <1>a, UnresolvedKeeps
<1>4. ASSUME NEW x \in Starts \X (lo .. hi) \X NamesAndForms, x[1] <= x[2],
             Extended(x[1], x[2], {x[3][1]}, x[3][2], 90, "misspelled", TRUE)
      PROVE  MatchInv'
  <2>1. PICK s \in Starts, e \in lo .. hi, y \in NamesAndForms : x[1] = s /\ x[2] = e /\ x[3] = y BY <1>4
  <2>2. s \in lo .. hi /\ Behind(s, FALSE) BY <1>0, StartBehind
  <2>3. e \in s .. hi BY <1>4, <2>1, <2>2, MatchHas
  <2>4. y[1] \in catalog /\ y[2] \in WordSeqs
    <3>1. PICK n \in catalog : y \in {n} \X Forms(n) BY DEF NamesAndForms
    <3>2. y[1] = n /\ y[2] \in Forms(n) BY <3>1
    <3>3. n \in WordSeqs BY MatchHas, NamesAre
    <3>4. y[2] = n \/ (y[2] = WithoutLabel(n) /\ y[2] # <<>>) BY <3>2 DEF Forms
    <3> QED BY <3>2, <3>3, <3>4, WithoutLabelIs
  <2>5. Far(e) BY <1>0, <2>1, NotFar
  <2>6. Extended(s, e, {y[1]}, y[2], 90, "misspelled", TRUE) BY <1>4, <2>1
  <2>7. {y[1]} \in SUBSET catalog /\ 90 \in {90, 94} /\ "misspelled" \in {"window", "misspelled"} /\ TRUE \in BOOLEAN BY <2>4
  <2> QED BY <1>0, <1>a, <2>2, <2>3, <2>4, <2>5, <2>6, <2>7, ExtendedKeeps
<1> QED BY <1>1, <1>2, <1>3, <1>4

-----------------------------------------------------------------------------
(* After a center. *)

LEMMA ReviewReads ==
  ASSUME NEW b, NEW S, NEW first, BaseRead(b, S, first)
  PROVE  BaseRead(Review(b), S, first)
<1>1. b \in Verdicts /\ (b.status # "UNRESOLVED" <=> b.name # NoneFound) BY DEF BaseRead, Sound
<1>2. /\ Review(b).name = b.name /\ Review(b).details = b.details /\ Review(b).status = b.status
      /\ Review(b).reason = "review" /\ Review(b).span = b.span
  BY <1>1 DEF Review, Verdicts
<1>3. Review(b) \in Verdicts
  <2> DEFINE C == {20, 80, 90, 93, 94, 95, 100}
             c == IF b.confidence > 80 THEN 80 ELSE b.confidence
  <2>1. c \in C /\ "review" \in Reasons BY <1>1 DEF Verdicts, Reasons
  <2>2. Review(b) = [b EXCEPT !.confidence = c, !.reason = "review"] BY DEF Review
  <2>3. Verdicts = [name : catalog \cup {NoneFound}, details : WordSeqs, confidence : C,
                    status : Statuses, reason : Reasons, span : SUBSET (1 .. Len(text))]
    BY DEF Verdicts
  <2> HIDE DEF c, C
  <2> QED BY <1>1, <2>1, <2>2, <2>3
<1> QED BY <1>1, <1>2, <1>3 DEF BaseRead, Sound, ReadAll, Certain

\* The words of the center are added to what the inner answer was read from.
LEMMA WithinReads ==
  ASSUME NEW b, NEW S, NEW first, NEW g, NEW r \in {"inside", "inside, a guess"},
         b.span \subseteq 1 .. Len(text), BaseRead(verdict, S \cup b.span, g)
  PROVE  BaseRead(Within(b, r), S, first)
<1>1. verdict \in Verdicts /\ (verdict.status # "UNRESOLVED" <=> verdict.name # NoneFound) /\ verdict.status # "UNRESOLVED"
      /\ ReadAll(verdict, S \cup b.span)
  BY DEF BaseRead, Sound
<1> DEFINE w == Within(b, r)
<1>2. /\ w.name = verdict.name /\ w.details = verdict.details /\ w.status = verdict.status
      /\ w.reason = r /\ w.span = verdict.span \cup b.span
  BY <1>1 DEF Within, Verdicts
<1>3. w \in Verdicts
  <2>1. r \in Reasons BY DEF Reasons
  <2> QED BY <1>1, <2>1 DEF Within, Verdicts
<1> HIDE DEF w
<1>4. w.span \cup S = verdict.span \cup (S \cup b.span) BY <1>2
<1>5. ReadAll(w, S)
  <2>1. ToSet(address) \subseteq ToSet(w.details) \cup ToSet(w.name) BY <1>1, <1>2 DEF ReadAll
  <2>2. \A n \in catalog : IsPrefix(n, text) => \E i \in w.span : i >= Len(n)
    <3>1. ASSUME NEW n \in catalog, IsPrefix(n, text) PROVE \E i \in w.span : i >= Len(n)
      <4>1. PICK i \in verdict.span : i >= Len(n) BY <1>1, <3>1 DEF ReadAll
      <4>2. i \in w.span BY <1>2
      <4> QED BY <4>1, <4>2
    <3> QED BY <3>1
  <2>3. \A i \in 1 .. Len(text) : Covered(i, w.span \cup S) \/ text[i] \in ToSet(w.details)
    BY <1>1, <1>2, <1>4 DEF ReadAll
  <2> QED BY <2>1, <2>2, <2>3 DEF ReadAll
<1>6. Certain(w)
  <2>1. w.reason \notin {"spelling", "ignored"} BY <1>2
  <2> QED BY <2>1 DEF Certain
<1> QED BY <1>1, <1>2, <1>3, <1>5, <1>6 DEF BaseRead, Sound, w

LEMMA AnswerSame ==
  ASSUME catalog' = catalog, text' = text, address' = address,
         BaseRead(verdict', Spans(outer', Len(outer')), outer' = <<>>)
  PROVE  AnswerRead' /\ Sound(verdict)'
BY DEF AnswerRead, BaseRead, Sound, Verdicts, Spans, ReadAll, Covered, Certain

LEMMA ReturnKeeps == ASSUME MatchInv, Return PROVE MatchInv'
<1> DEFINE last == Len(outer)
           b == outer[last].base
           S == Spans(outer, last - 1)
<1>0. /\ stage = "answered" /\ outer # <<>> /\ outer' = SubSeq(outer, 1, last - 1) /\ stage' = "answered"
      /\ catalog' = catalog /\ text' = text /\ address' = address /\ lo' = lo /\ hi' = hi
  BY DEF Return, case
<1>1. verdict' \in {b, Review(b)} \/ (Resolved /\ verdict' \in {Within(b, "inside"), Within(b, "inside, a guess")})
  BY DEF Return
<1>2. outer \in Seq(Entries) /\ last \in Nat \ {0} /\ last \in 1 .. last /\ \A k \in 1 .. last : outer[k] \in Entries
  <2>1. outer \in Seq(Entries) BY MatchHas
  <2>2. last \in Nat \ {0} BY <1>0, <2>1, EmptySeq
  <2> QED BY <2>1, <2>2, ElementOfSeq
<1>3. BaseRead(b, S, last = 1) BY <1>2 DEF MatchInv, BasesRead
<1>4. /\ outer' \in Seq(Entries) /\ Len(outer') = last - 1 /\ \A k \in 1 .. last - 1 : outer'[k] = outer[k]
      /\ (last = 1) = (outer' = <<>>)
  <2>1. \A k \in 1 .. last - 1 : outer[k] \in Entries BY <1>2
  <2>2. /\ outer' \in Seq(Entries) /\ Len(outer') = (IF 1 <= last - 1 THEN last - 1 - 1 + 1 ELSE 0)
        /\ \A k \in 1 .. last - 1 - 1 + 1 : outer'[k] = outer[1 + k - 1]
    BY <1>0, <1>2, <2>1, SubSeqProperties
  <2> HIDE DEF last
  <2>a. last \in Nat \ {0} BY <1>2
  <2>b. last - 1 - 1 + 1 = last - 1 /\ (~(1 <= last - 1) => last - 1 = 0) BY <2>a
  <2>c. Len(outer') = last - 1 BY <2>2, <2>b
  <2>d. ASSUME NEW k \in 1 .. last - 1 PROVE outer'[k] = outer[k]
    <3>1. outer'[k] = outer[1 + k - 1] BY <2>2, <2>b
    <3>2. 1 + k - 1 = k BY <2>a
    <3> QED BY <3>1, <3>2
  <2>3. Len(outer') = last - 1 /\ \A k \in 1 .. last - 1 : outer'[k] = outer[k]  BY <2>c, <2>d
  <2>4. outer' = <<>> <=> Len(outer') = 0 BY <2>2, EmptySeq
  <2> QED BY <1>2, <2>2, <2>3, <2>4
<1>5. \A k \in 0 .. last - 1 : Spans(outer', k) = Spans(outer, k)
  <2>1. ASSUME NEW k \in 0 .. last - 1 PROVE Spans(outer', k) = Spans(outer, k)
    <3>1. \A j \in 1 .. k : outer'[j] = outer[j] BY <1>2, <1>4
    <3> QED BY <3>1 DEF Spans
  <2> QED BY <2>1
<1>6. Spans(outer, last) = S \cup b.span /\ b.span \subseteq 1 .. Len(text)
  <2>1. b.span \subseteq 1 .. Len(text) BY <1>2 DEF Entries, Verdicts
  <2>2. \A j \in 1 .. last : j \in 1 .. last - 1 \/ j = last BY <1>2
  <2>3. \A j \in 1 .. last - 1 : j \in 1 .. last BY <1>2
  <2> QED BY <1>2, <2>1, <2>2, <2>3 DEF Spans
<1> HIDE DEF b
<1>7. BaseRead(verdict', S, last = 1)
  <2> HIDE DEF S
  <2>1. CASE verdict' \in {b, Review(b)} BY <1>3, <2>1, ReviewReads
  <2>2. CASE Resolved /\ verdict' \in {Within(b, "inside"), Within(b, "inside, a guess")}
    <3>1. BaseRead(verdict, S \cup b.span, outer = <<>>) BY <1>0, <1>6, <2>2 DEF MatchInv, AnswerRead
    <3>2. "inside" \in {"inside", "inside, a guess"} /\ "inside, a guess" \in {"inside", "inside, a guess"} OBVIOUS
    <3>3. BaseRead(Within(b, "inside"), S, last = 1) BY <1>6, <3>1, <3>2, WithinReads
    <3>4. BaseRead(Within(b, "inside, a guess"), S, last = 1) BY <1>6, <3>1, <3>2, WithinReads
    <3> QED BY <2>2, <3>3, <3>4
  <2> QED BY <1>1, <2>1, <2>2
<1>8. AnswerRead' /\ Sound(verdict)'
  <2>1. Spans(outer', Len(outer')) = S
    <3>1. last - 1 \in 0 .. last - 1 BY <1>2
    <3> QED BY <1>4, <1>5, <3>1
  <2>2. BaseRead(verdict', Spans(outer', Len(outer')), outer' = <<>>) BY <1>4, <1>7, <2>1
  <2> QED BY <1>0, <2>2, AnswerSame
<1>9. Shape'
  <2>1. NamesGiven' /\ stage' \in Tiers /\ (lo \in 1 .. (Len(text) + 1))' /\ (hi \in 0 .. Len(text))'
    BY <1>0 DEF MatchInv, Shape, NamesGiven, Tiers
  <2>2. (outer \in Seq(Entries))' BY <1>0, <1>4 DEF Entries, Verdicts
  <2> QED BY <1>8, <2>1, <2>2 DEF Shape
<1>10. BasesRead'
  <2>1. ASSUME NEW k \in 1 .. Len(outer') PROVE BaseRead(outer'[k].base, Spans(outer', k - 1), k = 1)
    <3>1. k \in 1 .. last /\ k \in 1 .. last - 1 /\ k - 1 \in 0 .. last - 1 BY <1>2, <1>4
    <3>2. BaseRead(outer[k].base, Spans(outer, k - 1), k = 1) BY <3>1 DEF MatchInv, BasesRead
    <3> QED BY <1>4, <1>5, <3>1, <3>2
  <2> QED BY <1>0, <2>1, BasesSame
<1>11. AtStart' /\ InTiers' BY <1>0 DEF AtStart, InTiers
<1>12. NotPassed' BY <1>0 DEF NotPassed
<1>13. GivesWay'
  <2>1. ASSUME NEW n \in catalog', NEW i \in 1 .. (Len(text') - 1), FollowsCenters(n, i)' PROVE FALSE
    <3>1. FollowsCenters(n, i) BY <1>0, <2>1, FollowsSame
    <3> QED BY <1>0, <2>1, <3>1, MatchHas
  <2> QED BY <2>1 DEF GivesWay
<1> QED BY <1>8, <1>9, <1>10, <1>11, <1>12, <1>13 DEF MatchInv

-----------------------------------------------------------------------------
(* All tiers. *)

LEMMA MatchInitInv == ASSUME MatchingAssumption, MatchInit PROVE MatchInv
<1>1. NamesGiven BY DEF MatchInit, NamesGiven, MatchingAssumption, WordSeqs
<1>2. text \in WordSeqs /\ Len(text) \in Nat
  <2>1. text \in WordSeqs BY <1>1 DEF NamesGiven
  <2> QED BY <2>1, SetIs
<1>3. stage = "start" /\ outer = <<>> /\ lo = 1 /\ hi = Len(text) /\ verdict = Unresolved("none yet") BY DEF MatchInit
<1>4. "none yet" \in Failures BY DEF Failures
<1>5. Shape
  <2>1. Sound(verdict) BY <1>3, <1>4, UnresolvedSound
  <2>2. outer \in Seq(Entries) BY <1>3, EmptySeq
  <2>3. stage \in Tiers BY <1>3 DEF Tiers
  <2>4. lo \in 1 .. (Len(text) + 1) /\ hi \in 0 .. Len(text)
    <3>1. lo = 1 /\ hi = Len(text) BY <1>3
    <3>2. Len(text) \in Nat BY <1>2
    <3> QED BY <3>1, <3>2
  <2> QED BY <1>1, <2>1, <2>2, <2>3, <2>4 DEF Shape
<1>6. AtStart /\ InTiers /\ AnswerRead /\ NotPassed /\ GivesWay BY <1>3 DEF AtStart, InTiers, AnswerRead, NotPassed, GivesWay
<1>7. BasesRead
  <2>1. \A k \in 1 .. Len(outer) : FALSE
    <3>1. outer = <<>> /\ Len(<<>>) = 0 BY <1>3, EmptySeq
    <3> QED BY <3>1
  <2> QED BY <2>1 DEF BasesRead
<1> QED BY <1>5, <1>6, <1>7 DEF MatchInv

LEMMA TierStep == ASSUME MatchInv, [MatchNext]_matchVars PROVE MatchInv'
<1>1. CASE MatchNext
  BY <1>1, EmptyKeeps, PlaceholderKeeps, ExactKeeps, MatchTextKeeps, SpellingKeeps, WindowKeeps, PrefixKeeps, TypoKeeps,
     WholeKeeps, FuzzyKeeps, ReturnKeeps
  DEF MatchNext
<1>2. CASE UNCHANGED matchVars
  <2>1. /\ catalog' = catalog /\ text' = text /\ address' = address /\ lo' = lo /\ hi' = hi /\ stage' = stage
        /\ outer' = outer /\ verdict' = verdict
    BY <1>2 DEF matchVars, case
  <2>2. Shape'
    <3>1. NamesGiven' /\ stage' \in Tiers /\ (lo \in 1 .. (Len(text) + 1))' /\ (hi \in 0 .. Len(text))'
      BY <2>1 DEF MatchInv, Shape, NamesGiven
    <3>2. Sound(verdict)' BY <2>1 DEF MatchInv, Shape, Sound, Verdicts
    <3>3. (outer \in Seq(Entries))' BY <2>1 DEF MatchInv, Shape, Entries, Verdicts
    <3> QED BY <3>1, <3>2, <3>3 DEF Shape
  <2>3. AtStart' /\ InTiers' BY <2>1 DEF MatchInv, AtStart, InTiers, Covered, Spans
  <2>4. BasesRead'
    <3>1. \A k \in 1 .. Len(outer) : BaseRead(outer[k].base, Spans(outer, k - 1), k = 1) BY DEF MatchInv, BasesRead
    <3> QED BY <2>1, <3>1, BasesSame
  <2>5. AnswerRead'
    <3>1. CASE stage = "answered" /\ Resolved
      <4>1. BaseRead(verdict, Spans(outer, Len(outer)), outer = <<>>) BY <3>1 DEF MatchInv, AnswerRead
      <4> QED BY <2>1, <4>1, AnswerSame
    <3>2. CASE ~(stage = "answered" /\ Resolved) BY <2>1, <3>2 DEF AnswerRead, Resolved
    <3> QED BY <3>1, <3>2
  <2>6. NotPassed' BY <2>1 DEF MatchInv, NotPassed
  <2>7. GivesWay'
    <3>1. ASSUME NEW n \in catalog', NEW i \in 1 .. (Len(text') - 1), FollowsCenters(n, i)'
          PROVE  outer' = <<>> /\ (stage' \in {"start", "spelling", "window"} \/ (stage' = "answered" /\ verdict'.name = n))
      <4>1. FollowsCenters(n, i) BY <2>1, <3>1, FollowsSame
      <4> QED BY <2>1, <3>1, <4>1 DEF MatchInv, GivesWay
    <3> QED BY <3>1 DEF GivesWay
  <2> QED BY <2>2, <2>3, <2>4, <2>5, <2>6, <2>7 DEF MatchInv
<1> QED BY <1>1, <1>2

LEMMA MatchInvGives ==
  ASSUME MatchInv
  PROVE  MatchTypeOK /\ NothingLost /\ FurthestNameWins /\ CertainIsWritten /\ CenterGivesWay
<1>0. Sound(verdict) /\ NamesGiven /\ text \in WordSeqs /\ DOMAIN text = 1 .. Len(text) /\ Len(text) \in Nat
  <2>1. Sound(verdict) /\ NamesGiven /\ text \in WordSeqs BY MatchHas
  <2> QED BY <2>1, LenProperties DEF WordSeqs
<1>1. MatchTypeOK
  BY <1>0, Zenon DEF MatchInv, Shape, AtStart, NamesGiven, Sound, Verdicts, MatchTypeOK, Resolved
<1>2. Spans(<<>>, Len(<<>>)) = {}
  <2>1. Len(<<>>) = 0 BY EmptySeq
  <2> QED BY <2>1 DEF Spans
<1>3. Done /\ Resolved => ReadAll(verdict, {}) /\ Certain(verdict)
  <2> SUFFICES ASSUME Done, Resolved PROVE ReadAll(verdict, {}) /\ Certain(verdict) OBVIOUS
  <2>1. stage = "answered" /\ outer = <<>> BY DEF Done
  <2>2. BaseRead(verdict, Spans(outer, Len(outer)), outer = <<>>) BY <2>1 DEF MatchInv, AnswerRead
  <2>3. Spans(outer, Len(outer)) = {} BY <1>2, <2>1
  <2> QED BY <2>1, <2>2, <2>3 DEF BaseRead
<1>4. NothingLost
  <2> SUFFICES ASSUME Done, Resolved
               PROVE  /\ \A i \in DOMAIN text \ verdict.span :
                           text[i] \in Context \cup ToSet(verdict.details) \/ (text[i] \in Labels /\ i + 1 \in verdict.span)
                      /\ ToSet(address) \subseteq ToSet(verdict.details) \cup ToSet(verdict.name)
    BY DEF NothingLost
  <2>1. ReadAll(verdict, {}) BY <1>3
  <2>2. verdict.span \cup {} = verdict.span OBVIOUS
  <2> QED BY <1>0, <2>1, <2>2 DEF ReadAll, Covered
<1>5. FurthestNameWins BY <1>3 DEF FurthestNameWins, ReadAll
<1>6. CertainIsWritten
  <2> SUFFICES ASSUME Done, verdict.reason \in {"spelling", "ignored"}
               PROVE  /\ ToSet(verdict.name) \subseteq ToSet(text) \cup Labels
                      /\ ToSet(text) \subseteq ToSet(verdict.name) \cup Labels \cup Context
    BY DEF CertainIsWritten
  <2>1. CASE Resolved BY <1>3, <2>1 DEF Certain
  <2>2. CASE ~Resolved
    <3>1. verdict.reason \in Failures BY <1>0, <2>2 DEF Sound, Resolved
    <3> QED BY <3>1 DEF Failures
  <2> QED BY <2>1, <2>2
<1>7. CenterGivesWay
  <2> SUFFICES ASSUME Done, NEW n \in catalog, NEW i \in 1 .. (Len(text) - 1),
                      \A j \in 1 .. i : text[j] \in Centers /\ FullName(Words(j, Len(text))) = {},
                      Words(i + 1, Len(text)) = n, ~IsCenter(n)
               PROVE  Resolved /\ Place(verdict.name) = Place(n)
    BY DEF CenterGivesWay
  <2>1. FollowsCenters(n, i) BY DEF FollowsCenters
  <2>2. stage = "answered" BY DEF Done
  <2>3. verdict.name = n BY <2>1, <2>2 DEF MatchInv, GivesWay
  <2>4. n # NoneFound BY <1>0, NamesAre
  <2> QED BY <1>0, <2>3, <2>4 DEF Sound, Resolved
<1> QED BY <1>1, <1>4, <1>5, <1>6, <1>7

\* Whatever tier answers, and also after a center: no word of text or address is lost, no longer name at the
\* start is passed over, what is certain is written, and a center gives way to a name after it
\* (matching.py:384-687).
THEOREM TextIsReadRight ==
  ASSUME MatchingAssumption
  PROVE  MatchSpec => [](MatchTypeOK /\ NothingLost /\ FurthestNameWins /\ CertainIsWritten /\ CenterGivesWay)
<1>1. MatchInit => MatchInv BY MatchInitInv
<1>2. MatchInv /\ [MatchNext]_matchVars => MatchInv' BY TierStep
<1>3. MatchInv => MatchTypeOK /\ NothingLost /\ FurthestNameWins /\ CertainIsWritten /\ CenterGivesWay BY MatchInvGives
<1> QED BY <1>1, <1>2, <1>3, PTL DEF MatchSpec

-----------------------------------------------------------------------------
(* The search: what is done once for each of the first numbers. *)

\* One after the other: a step for each place, from `base` on.
Iterated(f, n, base, step) == f[0] = base /\ \A i \in 1 .. n : f[i] = step[i][f[i - 1]]

LEMMA Iterates ==
  ASSUME NEW n \in Nat, NEW S, NEW base \in S, NEW step \in [1 .. n -> [S -> S]]
  PROVE  \E f \in [0 .. n -> S] : Iterated(f, n, base, step)
<1> DEFINE F(m) == \E f \in [0 .. m -> S] : Iterated(f, m, base, step)
           bad == {m \in 0 .. n : ~F(m)}
<1>1. SUFFICES ASSUME bad # {} PROVE FALSE
  <2>1. n \in 0 .. n OBVIOUS
  <2> QED BY <2>1
<1>2. bad \in SUBSET Nat OBVIOUS
<1>3. PICK m \in bad : \A j \in bad : m <= j BY <1>1, <1>2, LeastOf
<1>4. m \in 0 .. n /\ ~F(m) OBVIOUS
<1>5. CASE m = 0
  <2>1. [i \in 0 .. 0 |-> base] \in [0 .. 0 -> S] OBVIOUS
  <2>2. Iterated([i \in 0 .. 0 |-> base], 0, base, step) BY DEF Iterated
  <2> QED BY <1>4, <1>5, <2>1, <2>2
<1>6. CASE m # 0
  <2>1. m - 1 \in 0 .. n /\ ~(m <= m - 1) /\ m \in 1 .. n BY <1>4, <1>6
  <2>2. F(m - 1) BY <1>3, <2>1
  <2>3. PICK f \in [0 .. m - 1 -> S] : Iterated(f, m - 1, base, step) BY <2>2
  <2>4. m - 1 \in 0 .. m - 1 BY <2>1
  <2>5. step[m][f[m - 1]] \in S
    <3>1. step[m] \in [S -> S] BY <2>1
    <3>2. f[m - 1] \in S BY <2>4
    <3> QED BY <3>1, <3>2
  <2> DEFINE g == [i \in 0 .. m |-> IF i = m THEN step[m][f[m - 1]] ELSE f[i]]
  <2>6. g \in [0 .. m -> S]
    <3>1. \A i \in 0 .. m : i # m => i \in 0 .. m - 1 BY <2>1
    <3> QED BY <2>5, <3>1
  <2>7. g[0] = base BY <1>6, <2>1, <2>3 DEF Iterated
  <2>8. ASSUME NEW i \in 1 .. m PROVE g[i] = step[i][g[i - 1]]
    <3>1. i - 1 \in 0 .. m /\ i - 1 # m /\ i \in 0 .. m BY <2>1
    <3>2. g[i - 1] = f[i - 1] BY <3>1
    <3>3. CASE i = m BY <3>1, <3>2, <3>3
    <3>4. CASE i # m
      <4>1. i \in 1 .. m - 1 BY <2>1, <3>4
      <4>2. f[i] = step[i][f[i - 1]] BY <2>3, <4>1 DEF Iterated
      <4>3. g[i] = f[i] BY <3>1, <3>4
      <4> QED BY <3>2, <4>2, <4>3
    <3> QED BY <3>3, <3>4
  <2> HIDE DEF g
  <2>9. F(m) BY <2>6, <2>7, <2>8 DEF Iterated
  <2> QED BY <1>4, <2>9
<1> QED BY <1>5, <1>6

-----------------------------------------------------------------------------
(* The scan of a text. *)

WindowsOf(n) == [fuzzy : BOOLEAN, from : 1 .. n, to : 1 .. n]

\* What the scan has taken: windows that share no word, each of them the first of those that shared none
\* with the ones before it; and when there was room for more, every window shares a word with one of them.
Greedy(windows, s, n) ==
  /\ s \in Seq(windows) /\ Len(s) <= n
  /\ \A i \in 1 .. Len(s) : \A j \in 1 .. (i - 1) : Searching!Apart(s[i], s[j])
  /\ \A i \in 1 .. Len(s) : \A w \in windows :
       (\A j \in 1 .. (i - 1) : Searching!Apart(w, s[j])) => w = s[i] \/ Searching!Before(s[i], w)
  /\ Len(s) < n => \A w \in windows : \E i \in 1 .. Len(s) : ~Searching!Apart(w, s[i])

\* Some window is scanned before all others.
LEMMA FirstWindow ==
  ASSUME NEW n \in Nat, NEW free \in SUBSET WindowsOf(n), free # {}
  PROVE  \E w \in free : \A v \in free \ {w} : Searching!Before(w, v)
<1> DEFINE exact == {w \in free : ~w.fuzzy}
           first == IF exact # {} THEN exact ELSE free
           long == {n - (w.to - w.from) : w \in first}
<1>1. \A w \in free : /\ w.fuzzy \in BOOLEAN /\ w.from \in 1 .. n /\ w.to \in 1 .. n
                      /\ w = [fuzzy |-> w.fuzzy, from |-> w.from, to |-> w.to]
  BY DEF WindowsOf
<1>2. first # {} /\ first \subseteq free OBVIOUS
<1>3. \A w \in first, v \in free \ first : ~w.fuzzy /\ v.fuzzy OBVIOUS
<1>4. \A w, v \in first : w.fuzzy = v.fuzzy BY <1>1
<1> HIDE DEF first, exact
<1>5. \A w \in first : w.from \in 1 .. n /\ w.to \in 1 .. n BY <1>1, <1>2
<1>6. \A a, b \in 1 .. n : n - (b - a) \in Nat OBVIOUS
<1>7. \A w \in first : n - (w.to - w.from) \in Nat BY <1>5, <1>6
<1>8. long \in SUBSET Nat /\ long # {} BY <1>2, <1>7
<1>9. PICK m \in long : \A k \in long : m <= k BY <1>8, LeastOf
<1> DEFINE longest == {w \in first : n - (w.to - w.from) = m}
           starts == {w.from : w \in longest}
<1>10. longest # {} BY <1>9
<1>11. \A w \in longest : w.from \in Nat BY <1>5
<1>12. starts \in SUBSET Nat /\ starts # {} BY <1>10, <1>11
<1>13. PICK a \in starts : \A k \in starts : a <= k BY <1>12, LeastOf
<1>14. PICK w \in longest : w.from = a BY <1>13
<1>15. w \in free /\ w \in first BY <1>2, <1>14
<1>16. ASSUME NEW v \in free \ {w} PROVE Searching!Before(w, v)
  <2>1. CASE v \notin first
    <3>1. ~w.fuzzy /\ v.fuzzy BY <1>3, <1>15, <2>1
    <3>2. w.fuzzy # v.fuzzy BY <3>1
    <3> QED BY <3>1, <3>2 DEF Searching!Before
  <2>2. CASE v \in first
    <3>1. w.fuzzy = v.fuzzy BY <1>4, <1>15, <2>2
    <3>2. n - (w.to - w.from) = m /\ m <= n - (v.to - v.from) BY <1>9, <1>14, <2>2
    <3> DEFINE wf == w.from
               wt == w.to
               vf == v.from
               vt == v.to
    <3>3. wf \in 1 .. n /\ wt \in 1 .. n /\ vf \in 1 .. n /\ vt \in 1 .. n BY <1>5, <1>15, <2>2
    <3>4. n - (wt - wf) <= n - (vt - vf) BY <3>2
    <3> HIDE DEF wf, wt, vf, vt
    <3>5. wt - wf # vt - vf => wt - wf > vt - vf BY <3>3, <3>4
    <3>6. ASSUME wt - wf = vt - vf PROVE wf < vf
      <4>1. v \in longest BY <2>2, <3>2, <3>6 DEF wf, wt, vf, vt
      <4>2. wf <= vf BY <1>13, <1>14, <4>1 DEF wf, vf
      <4>3. wf # vf
        <5>1. SUFFICES ASSUME wf = vf PROVE FALSE OBVIOUS
        <5>2. wt = vt BY <3>3, <3>6, <5>1
        <5>3. v = w BY <1>1, <1>15, <3>1, <5>1, <5>2 DEF wf, wt, vf, vt
        <5> QED BY <1>16, <5>3
      <4> QED BY <3>3, <4>2, <4>3
    <3> QED BY <3>1, <3>5, <3>6 DEF Searching!Before, wf, wt, vf, vt
  <2> QED BY <2>1, <2>2
<1> QED BY <1>15, <1>16

\* One round of the scan, when no window is left and when `w` is the first of those left.
LEMMA NoneLeft ==
  ASSUME NEW windows, NEW x, NEW k \in Nat, k # 0, Greedy(windows, x, k - 1),
         \A w \in windows : \E i \in 1 .. Len(x) : ~Searching!Apart(w, x[i])
  PROVE  Greedy(windows, x, k)
<1>1. Len(x) \in Nat BY LenProperties DEF Greedy
<1>2. Len(x) <= k BY <1>1 DEF Greedy
<1> QED BY <1>2 DEF Greedy

LEMMA OneTaken ==
  ASSUME NEW windows, NEW x, NEW k \in Nat, k # 0, Greedy(windows, x, k - 1), NEW w \in windows,
         \A i \in 1 .. Len(x) : Searching!Apart(w, x[i]),
         \A v \in windows : (\A i \in 1 .. Len(x) : Searching!Apart(v, x[i])) => v = w \/ Searching!Before(w, v)
  PROVE  Greedy(windows, Append(x, w), k)
<1> DEFINE y == Append(x, w)
<1>1. x \in Seq(windows) /\ Len(x) \in Nat /\ Len(x) <= k - 1 BY LenProperties DEF Greedy
<1>2. /\ y \in Seq(windows) /\ Len(y) = Len(x) + 1
      /\ \A i \in 1 .. Len(x) : y[i] = x[i]
      /\ y[Len(x) + 1] = w
  BY <1>1, AppendProperties
<1> HIDE DEF y
<1>3. ~(Len(x) < k - 1) BY DEF Greedy
<1>4. Len(y) <= k /\ ~(Len(y) < k) BY <1>1, <1>2, <1>3
<1>5. \A i \in 1 .. Len(y) : i = Len(x) + 1 \/ i \in 1 .. Len(x) BY <1>1, <1>2
<1>6. \A i \in 1 .. Len(x) : 1 .. (i - 1) \subseteq 1 .. Len(x) BY <1>1
<1>7. 1 .. ((Len(x) + 1) - 1) = 1 .. Len(x) BY <1>1
<1>8. ASSUME NEW i \in 1 .. Len(y), NEW j \in 1 .. (i - 1) PROVE Searching!Apart(y[i], y[j])
  <2>1. CASE i = Len(x) + 1
    <3>1. j \in 1 .. Len(x) BY <1>7, <2>1
    <3> QED BY <1>2, <2>1, <3>1
  <2>2. CASE i \in 1 .. Len(x)
    <3>1. j \in 1 .. Len(x) BY <1>6, <2>2
    <3>2. Searching!Apart(x[i], x[j]) BY <2>2 DEF Greedy
    <3> QED BY <1>2, <2>2, <3>1, <3>2
  <2> QED BY <1>5, <2>1, <2>2
<1>9. ASSUME NEW i \in 1 .. Len(y), NEW v \in windows, \A j \in 1 .. (i - 1) : Searching!Apart(v, y[j])
      PROVE  v = y[i] \/ Searching!Before(y[i], v)
  <2>1. CASE i = Len(x) + 1
    <3>1. \A j \in 1 .. Len(x) : Searching!Apart(v, x[j]) BY <1>2, <1>7, <1>9, <2>1
    <3> QED BY <1>2, <2>1, <3>1
  <2>2. CASE i \in 1 .. Len(x)
    <3>1. \A j \in 1 .. (i - 1) : Searching!Apart(v, x[j]) BY <1>2, <1>6, <1>9, <2>2
    <3>2. v = x[i] \/ Searching!Before(x[i], v) BY <2>2, <3>1 DEF Greedy
    <3> QED BY <1>2, <2>2, <3>2
  <2> QED BY <1>5, <2>1, <2>2
<1>10. Greedy(windows, y, k) BY <1>2, <1>4, <1>8, <1>9 DEF Greedy
<1> QED BY <1>10 DEF y

\* The scan takes one window after the other.
LEMMA ScannedGreedily ==
  ASSUME NEW m \in Nat, NEW windows \in SUBSET WindowsOf(m), NEW n \in Nat
  PROVE  Greedy(windows, Searching!Scanned(windows, n), n)
<1> DEFINE first(free) == CHOOSE w \in free : \A v \in free \ {w} : Searching!Before(w, v)
           left(taken) == {w \in windows : \A i \in 1 .. Len(taken) : Searching!Apart(w, taken[i])}
           After(taken) == IF left(taken) = {} THEN taken ELSE Append(taken, first(left(taken)))
           E(f) == f = [k \in 0 .. n |-> IF k = 0 THEN <<>> ELSE After(f[k - 1])]
           took == CHOOSE f : E(f)
<1>1. Searching!Scanned(windows, n) = took[n] BY DEF Searching!Scanned
<1>2. ASSUME NEW k \in Nat, k # 0, NEW x, Greedy(windows, x, k - 1) PROVE Greedy(windows, After(x), k)
  <2> DEFINE free == left(x)
  <2>1. CASE free = {}
    <3>1. \A w \in windows : \E i \in 1 .. Len(x) : ~Searching!Apart(w, x[i]) BY <2>1
    <3>2. After(x) = x BY <2>1
    <3> HIDE DEF After
    <3> QED BY <1>2, <3>1, <3>2, NoneLeft
  <2>2. CASE free # {}
    <3>1. free \in SUBSET windows /\ free \in SUBSET WindowsOf(m) OBVIOUS
    <3>a. \A w \in free : \A i \in 1 .. Len(x) : Searching!Apart(w, x[i]) OBVIOUS
    <3>b. \A w \in windows : (\A i \in 1 .. Len(x) : Searching!Apart(w, x[i])) => w \in free OBVIOUS
    <3>c. After(x) = Append(x, first(free)) BY <2>2
    <3> HIDE DEF free, After
    <3>2. \E w \in free : \A v \in free \ {w} : Searching!Before(w, v) BY <2>2, <3>1, FirstWindow
    <3>3. first(free) \in free /\ \A v \in free \ {first(free)} : Searching!Before(first(free), v) BY <3>2
    <3> HIDE DEF first
    <3>4. first(free) \in windows BY <3>1, <3>3
    <3>5. \A i \in 1 .. Len(x) : Searching!Apart(first(free), x[i]) BY <3>3, <3>a
    <3>6. \A v \in windows : (\A i \in 1 .. Len(x) : Searching!Apart(v, x[i]))
                               => v = first(free) \/ Searching!Before(first(free), v)
      BY <3>3, <3>b
    <3>7. Greedy(windows, Append(x, first(free)), k) BY <1>2, <3>4, <3>5, <3>6, OneTaken
    <3> QED BY <3>7, <3>c
  <2> QED BY <2>1, <2>2
<1>3. ASSUME NEW x \in Seq(windows) PROVE After(x) \in Seq(windows)
  <2> DEFINE free == left(x)
  <2>1. CASE free = {} BY <2>1
  <2>2. CASE free # {}
    <3>1. free \in SUBSET windows /\ free \in SUBSET WindowsOf(m) OBVIOUS
    <3>2. After(x) = Append(x, first(free)) BY <2>2
    <3> HIDE DEF free, After
    <3>3. \E w \in free : \A v \in free \ {w} : Searching!Before(w, v) BY <2>2, <3>1, FirstWindow
    <3>4. first(free) \in free BY <3>3
    <3>5. first(free) \in windows BY <3>1, <3>4
    <3> HIDE DEF first
    <3>6. Append(x, first(free)) \in Seq(windows) BY <3>5, AppendProperties
    <3> QED BY <3>2, <3>6
  <2> QED BY <2>1, <2>2
<1> HIDE DEF After
<1>4. \E f : E(f)
  <2> DEFINE step == [k \in 1 .. n |-> [x \in Seq(windows) |-> After(x)]]
  <2>1. step \in [1 .. n -> [Seq(windows) -> Seq(windows)]] BY <1>3
  <2>2. \A i \in 1 .. n : \A x \in Seq(windows) : step[i][x] = After(x) OBVIOUS
  <2>3. <<>> \in Seq(windows) BY EmptySeq
  <2> HIDE DEF step
  <2>4. PICK f \in [0 .. n -> Seq(windows)] : Iterated(f, n, <<>>, step) BY <2>1, <2>3, Iterates
  <2> DEFINE g == [k \in 0 .. n |-> IF k = 0 THEN <<>> ELSE After(f[k - 1])]
  <2>5. ASSUME NEW i \in 0 .. n PROVE f[i] = g[i]
    <3>1. CASE i = 0 BY <2>4, <3>1 DEF Iterated
    <3>2. CASE i # 0
      <4>1. i \in 1 .. n /\ i - 1 \in 0 .. n BY <3>2
      <4>2. f[i - 1] \in Seq(windows) BY <2>4, <4>1
      <4>3. f[i] = step[i][f[i - 1]] BY <2>4, <4>1 DEF Iterated
      <4>4. step[i][f[i - 1]] = After(f[i - 1]) BY <2>2, <4>1, <4>2
      <4> QED BY <3>2, <4>3, <4>4
    <3> QED BY <3>1, <3>2
  <2>6. g = [i \in 0 .. n |-> g[i]] /\ f = [i \in 0 .. n |-> f[i]] BY <2>4
  <2> HIDE DEF g
  <2>7. f = g BY <2>5, <2>6
  <2> QED BY <2>7 DEF g
<1>5. E(took)
  <2> HIDE DEF E
  <2> QED BY <1>4
<1>7. \A k \in 0 .. n : took[k] = IF k = 0 THEN <<>> ELSE After(took[k - 1])
  <2> DEFINE g == [k \in 0 .. n |-> IF k = 0 THEN <<>> ELSE After(took[k - 1])]
  <2>1. \A k \in 0 .. n : g[k] = IF k = 0 THEN <<>> ELSE After(took[k - 1]) OBVIOUS
  <2>2. took = g BY <1>5
  <2> HIDE DEF g, took
  <2> QED BY <2>1, <2>2
<1> HIDE DEF took
<1>8. \A k \in 0 .. n : Greedy(windows, took[k], k)
  <2> DEFINE bad == {k \in 0 .. n : ~Greedy(windows, took[k], k)}
  <2>1. SUFFICES ASSUME bad # {} PROVE FALSE OBVIOUS
  <2>2. bad \in SUBSET Nat OBVIOUS
  <2>3. PICK k \in bad : \A j \in bad : k <= j BY <2>1, <2>2, LeastOf
  <2>4. k \in 0 .. n /\ ~Greedy(windows, took[k], k) OBVIOUS
  <2>5. k # 0
    <3>1. SUFFICES ASSUME k = 0 PROVE FALSE OBVIOUS
    <3>2. took[0] = <<>> BY <1>7
    <3>3. <<>> \in Seq(windows) /\ Len(<<>>) = 0 BY EmptySeq
    <3>4. Greedy(windows, <<>>, 0) BY <3>3 DEF Greedy
    <3> QED BY <2>4, <3>1, <3>2, <3>4
  <2>6. k - 1 \in 0 .. n /\ ~(k <= k - 1) /\ k \in Nat BY <2>4, <2>5
  <2>7. Greedy(windows, took[k - 1], k - 1) BY <2>3, <2>6
  <2>8. took[k] = After(took[k - 1]) BY <1>7, <2>4, <2>5
  <2> QED BY <1>2, <2>4, <2>5, <2>6, <2>7, <2>8
<1>9. n \in 0 .. n OBVIOUS
<1> QED BY <1>1, <1>8, <1>9
-----------------------------------------------------------------------------
(* A search. *)

\* The hits are those of the text, and the text is one of the run.
SearchInv ==
  /\ message \in Searching!BoundedSeq(MessageWords, MaxMessage)
  /\ hits # None => hits = Searching!Search(message, TopK)

LEMMA SearchesInv ==
  ASSUME Searching!SearchAssumption
  PROVE  Searching!Spec => []SearchInv
<1>1. Searching!Init => SearchInv BY DEF Searching!Init, SearchInv
<1>2. SearchInv /\ [Searching!Next]_searchVars => SearchInv'
  BY DEF SearchInv, Searching!Next, Searching!Scan, searchVars
<1> QED BY <1>1, <1>2, PTL DEF Searching!Spec, Searching!vars, searchVars

\* What a search took from the windows of its text.
LEMMA HitsAre ==
  ASSUME Searching!SearchAssumption, SearchInv, hits # None
  PROVE  /\ Len(message) \in Nat /\ TopK \in Nat \ {0} /\ Len(hits) \in Nat
         /\ Greedy(Searching!Windows(message), hits, TopK)
         /\ \A i \in 1 .. Len(hits) : /\ hits[i].from \in 1 .. Len(message) /\ hits[i].to \in 1 .. Len(message)
                                      /\ hits[i].from <= hits[i].to /\ hits[i].fuzzy \in BOOLEAN
                                      /\ hits[i] \in Searching!Windows(message)
<1>1. Len(message) \in Nat
  <2>1. PICK n \in 0 .. MaxMessage : message \in [1 .. n -> MessageWords]
    BY DEF SearchInv, Searching!BoundedSeq, Searching!SeqOf, Searching!SearchAssumption
  <2>2. n \in Nat BY <2>1 DEF Searching!SearchAssumption
  <2>3. message \in Seq(MessageWords) BY <2>1, <2>2
  <2> QED BY <2>3, LenProperties
<1>2. TopK \in Nat \ {0} BY DEF Searching!SearchAssumption
<1>3. Searching!Windows(message) \in SUBSET WindowsOf(Len(message)) BY DEF Searching!Windows, WindowsOf
<1>4. hits = Searching!Scanned(Searching!Windows(message), TopK) BY DEF SearchInv, Searching!Search
<1>5. Greedy(Searching!Windows(message), hits, TopK) BY <1>1, <1>2, <1>3, <1>4, ScannedGreedily
<1>6. hits \in Seq(Searching!Windows(message)) BY <1>5 DEF Greedy
<1>7. Len(hits) \in Nat BY <1>6, LenProperties
<1>8. ASSUME NEW i \in 1 .. Len(hits)
      PROVE  /\ hits[i].from \in 1 .. Len(message) /\ hits[i].to \in 1 .. Len(message)
             /\ hits[i].from <= hits[i].to /\ hits[i].fuzzy \in BOOLEAN
             /\ hits[i] \in Searching!Windows(message)
  <2>1. hits[i] \in Searching!Windows(message) BY <1>6, <1>8, ElementOfSeq
  <2>2. hits[i] \in WindowsOf(Len(message)) /\ hits[i].from <= hits[i].to BY <1>3, <2>1 DEF Searching!Windows
  <2> QED BY <2>1, <2>2 DEF WindowsOf
<1> QED BY <1>1, <1>2, <1>5, <1>7, <1>8

LEMMA SearchTyped == ASSUME Searching!SearchAssumption, SearchInv PROVE Searching!TypeOK
<1>1. ASSUME hits # None
      PROVE  /\ Len(hits) <= TopK
             /\ \A i \in 1 .. Len(hits) : 1 <= hits[i].from /\ hits[i].from <= hits[i].to /\ hits[i].to <= Len(message)
  <2>1. Len(hits) <= TopK BY <1>1, HitsAre DEF Greedy
  <2>2. \A i \in 1 .. Len(hits) : /\ hits[i].from \in 1 .. Len(message) /\ hits[i].to \in 1 .. Len(message)
                                  /\ hits[i].from <= hits[i].to
    BY <1>1, HitsAre
  <2>3. Len(message) \in Nat BY <1>1, HitsAre
  <2> QED BY <2>1, <2>2, <2>3
<1> QED BY <1>1 DEF Searching!TypeOK, SearchInv

LEMMA WordsAreReadOnce == ASSUME Searching!SearchAssumption, SearchInv PROVE Searching!WordsReadOnce
<1>1. ASSUME hits # None, NEW i \in 1 .. Len(hits), NEW j \in 1 .. Len(hits), i # j
      PROVE  hits[i].to < hits[j].from \/ hits[j].to < hits[i].from
  <2>1. \A a \in 1 .. Len(hits) : \A b \in 1 .. (a - 1) : Searching!Apart(hits[a], hits[b]) BY <1>1, HitsAre DEF Greedy
  <2>2. i \in 1 .. (j - 1) \/ j \in 1 .. (i - 1) BY <1>1, HitsAre
  <2> QED BY <1>1, <2>1, <2>2 DEF Searching!Apart
<1> QED BY <1>1 DEF Searching!WordsReadOnce, Searching!Found

\* A name written in full that shares a word with a hit shares one with a hit that is written in full
\* and at least as long.
LEMMA ExactHit ==
  ASSUME Searching!SearchAssumption, SearchInv, hits # None, NEW w \in Searching!Windows(message), ~w.fuzzy,
         NEW k \in 1 .. Len(hits), ~Searching!Apart(w, hits[k])
  PROVE  \E i \in 1 .. Len(hits) : /\ ~hits[i].fuzzy /\ ~Searching!Apart(w, hits[i])
                                   /\ hits[i].to - hits[i].from >= w.to - w.from
<1> DEFINE shared == {i \in 1 .. Len(hits) : ~Searching!Apart(w, hits[i])}
<1>1. shared \in SUBSET Nat /\ shared # {}
  <2>1. k \in shared OBVIOUS
  <2>2. 1 .. Len(hits) \subseteq Nat OBVIOUS
  <2> QED BY <2>1, <2>2
<1>2. PICK i \in shared : \A j \in shared : i <= j BY <1>1, LeastOf
<1>3. i \in 1 .. Len(hits) /\ ~Searching!Apart(w, hits[i]) OBVIOUS
<1>4. \A j \in 1 .. (i - 1) : Searching!Apart(w, hits[j])
  <2>1. \A j \in 1 .. (i - 1) : j \in 1 .. Len(hits) /\ ~(i <= j) BY <1>3, HitsAre
  <2> QED BY <1>2, <2>1
<1>5. w = hits[i] \/ Searching!Before(hits[i], w) BY <1>3, <1>4, HitsAre DEF Greedy
<1>6. /\ w.from \in 1 .. Len(message) /\ w.to \in 1 .. Len(message)
      /\ hits[i].from \in 1 .. Len(message) /\ hits[i].to \in 1 .. Len(message) /\ Len(message) \in Nat
      /\ hits[i].fuzzy \in BOOLEAN /\ w.fuzzy = FALSE
  BY <1>3, HitsAre DEF Searching!Windows
<1> DEFINE a == w.from
           b == w.to
           c == hits[i].from
           d == hits[i].to
<1>7. a \in Int /\ b \in Int /\ c \in Int /\ d \in Int BY <1>6
<1>8. ~hits[i].fuzzy /\ d - c >= b - a
  <2>1. CASE w = hits[i]
    <3>1. a = c /\ b = d BY <2>1
    <3> HIDE DEF a, b, c, d
    <3> QED BY <1>6, <1>7, <2>1, <3>1
  <2>2. CASE Searching!Before(hits[i], w)
    <3>1. ~hits[i].fuzzy BY <1>6, <2>2 DEF Searching!Before
    <3>2. d - c # b - a => d - c > b - a BY <1>6, <2>2, <3>1 DEF Searching!Before
    <3> HIDE DEF a, b, c, d
    <3> QED BY <1>7, <3>1, <3>2
  <2> QED BY <1>5, <2>1, <2>2
<1> QED BY <1>3, <1>8

\* What is written in full in the text is one of its windows.
LEMMA ExactWindow ==
  ASSUME SearchInv, Len(message) \in Nat, NEW i \in 1 .. Len(message), NEW j \in 1 .. Len(message), i <= j, j - i < NGram,
         Searching!Hit(message, Searching!Exact(i, j)) # None
  PROVE  /\ Searching!Exact(i, j) \in Searching!Windows(message)
         /\ ~Searching!Exact(i, j).fuzzy /\ Searching!Exact(i, j).from = i /\ Searching!Exact(i, j).to = j
BY DEF Searching!Exact, Searching!Windows
LEMMA ExactIsNotLost == ASSUME Searching!SearchAssumption, SearchInv PROVE Searching!ExactNotLost
<1>1. ASSUME hits # None, Len(hits) < TopK, NEW i \in 1 .. Len(message), NEW j \in 1 .. Len(message),
             i <= j, j - i < NGram, Searching!Hit(message, Searching!Exact(i, j)) # None
      PROVE  \E h \in Searching!Range(hits) : ~h.fuzzy /\ h.from <= j /\ i <= h.to /\ h.to - h.from >= j - i
  <2> DEFINE w == Searching!Exact(i, j)
  <2>1. w \in Searching!Windows(message) /\ ~w.fuzzy /\ w.from = i /\ w.to = j BY <1>1, HitsAre, ExactWindow
  <2> HIDE DEF w
  <2>2. PICK k \in 1 .. Len(hits) : ~Searching!Apart(w, hits[k]) BY <1>1, <2>1, HitsAre DEF Greedy
  <2>3. PICK m \in 1 .. Len(hits) : /\ ~hits[m].fuzzy /\ ~Searching!Apart(w, hits[m])
                                    /\ hits[m].to - hits[m].from >= w.to - w.from
    BY <1>1, <2>1, <2>2, ExactHit
  <2>4. hits[m].from <= j /\ i <= hits[m].to
    <3>1. hits[m].from \in 1 .. Len(message) /\ hits[m].to \in 1 .. Len(message) /\ Len(message) \in Nat BY <1>1, HitsAre
    <3>2. ~(j < hits[m].from) /\ ~(hits[m].to < i) BY <2>1, <2>3 DEF Searching!Apart
    <3> QED BY <3>1, <3>2
  <2>5. hits[m] \in Searching!Range(hits)
    <3>1. hits \in Seq(Searching!Windows(message)) BY <1>1, HitsAre DEF Greedy
    <3>2. m \in DOMAIN hits BY <3>1
    <3> QED BY <3>2 DEF Searching!Range
  <2> QED BY <2>1, <2>3, <2>4, <2>5
<1> QED BY <1>1 DEF Searching!ExactNotLost, Searching!Found

LEMMA ExactComesFirst == ASSUME Searching!SearchAssumption, SearchInv PROVE Searching!ExactComeFirst
<1>1. ASSUME hits # None, NEW g \in Searching!Range(hits), g.fuzzy,
             NEW i \in 1 .. Len(message), NEW j \in 1 .. Len(message),
             i <= j, j - i < NGram, Searching!Hit(message, Searching!Exact(i, j)) # None
      PROVE  \E h \in Searching!Range(hits) : ~h.fuzzy /\ h.from <= j /\ i <= h.to
  <2> DEFINE w == Searching!Exact(i, j)
  <2>1. w \in Searching!Windows(message) /\ ~w.fuzzy /\ w.from = i /\ w.to = j BY <1>1, HitsAre, ExactWindow
  <2> HIDE DEF w
  <2>2. hits \in Seq(Searching!Windows(message)) BY <1>1, HitsAre DEF Greedy
  <2>3. DOMAIN hits = 1 .. Len(hits) BY <2>2
  <2>4. PICK a \in 1 .. Len(hits) : hits[a].fuzzy BY <1>1, <2>3 DEF Searching!Range
  <2>5. \E k \in 1 .. Len(hits) : ~Searching!Apart(w, hits[k])
    <3>1. SUFFICES ASSUME \A k \in 1 .. Len(hits) : Searching!Apart(w, hits[k]) PROVE FALSE OBVIOUS
    <3>2. \A k \in 1 .. (a - 1) : k \in 1 .. Len(hits) BY <1>1, HitsAre
    <3>3. w = hits[a] \/ Searching!Before(hits[a], w) BY <1>1, <2>1, <2>4, <3>1, <3>2, HitsAre DEF Greedy
    <3>4. hits[a].fuzzy \in BOOLEAN /\ w.fuzzy \in BOOLEAN BY <1>1, <2>1, HitsAre DEF Searching!Windows
    <3>5. w # hits[a] /\ hits[a].fuzzy # w.fuzzy BY <2>1, <2>4, <3>4
    <3> QED BY <2>4, <3>3, <3>5 DEF Searching!Before
  <2>6. PICK k \in 1 .. Len(hits) : ~Searching!Apart(w, hits[k]) BY <2>5
  <2>7. PICK m \in 1 .. Len(hits) : ~hits[m].fuzzy /\ ~Searching!Apart(w, hits[m]) BY <1>1, <2>1, <2>6, ExactHit
  <2>8. hits[m].from <= j /\ i <= hits[m].to
    <3>1. hits[m].from \in 1 .. Len(message) /\ hits[m].to \in 1 .. Len(message) /\ Len(message) \in Nat BY <1>1, HitsAre
    <3>2. ~(j < hits[m].from) /\ ~(hits[m].to < i) BY <2>1, <2>7 DEF Searching!Apart
    <3> QED BY <3>1, <3>2
  <2>9. hits[m] \in Searching!Range(hits) BY <2>3 DEF Searching!Range
  <2> QED BY <2>7, <2>8, <2>9
<1> QED BY <1>1 DEF Searching!ExactComeFirst, Searching!Found

\* The name of a district, written in full, is read as that district before it is a governorate's name.
LEMMA DistrictIsExact ==
  ASSUME Searching!SearchAssumption, SearchInv, Len(message) \in Nat, Searching!StatesWith(message) # {}
  PROVE  /\ Len(message) >= 1
         /\ Searching!Hit(message, Searching!Exact(1, Len(message))) = Searching!DistrictHit(message)
         /\ Searching!DistrictHit(message) # None
<1>1. PICK s : <<message, s>> \in AllDistricts BY DEF Searching!StatesWith
<1>2. message # <<>> /\ Searching!DistrictHit(message) # None BY <1>1 DEF Searching!SearchAssumption
<1>3. message \in Seq(MessageWords)
  <2>1. PICK n \in 0 .. MaxMessage : message \in [1 .. n -> MessageWords]
    BY DEF SearchInv, Searching!BoundedSeq, Searching!SeqOf, Searching!SearchAssumption
  <2> QED BY <2>1 DEF Searching!SearchAssumption
<1>4. Len(message) >= 1 BY <1>2, <1>3, EmptySeq
<1>5. SubSeq(message, 1, Len(message)) = message BY <1>3
<1> DEFINE v == Searching!Variants(message)
           named(name) == IF Searching!StatesWith(name) # {} THEN Searching!DistrictHit(name)
                          ELSE IF Searching!StateOf(name) # None THEN Searching!StateHit(Searching!StateOf(name))
                          ELSE Searching!DistrictHit(name)
           known == {i \in DOMAIN v : named(v[i]).in # {}}
<1>6. v[1] = message /\ 1 \in DOMAIN v /\ DOMAIN v \subseteq 1 .. 2 BY DEF Searching!Variants
<1>7. named(message) = Searching!DistrictHit(message) OBVIOUS
<1>8. Searching!DistrictHit(message).in # {} BY DEF Searching!DistrictHit
<1>9. 1 \in known BY <1>6, <1>7, <1>8
<1>10. known \subseteq 1 .. 2 BY <1>6
<1> HIDE DEF known, v
<1>11. Searching!Least(known) = 1
  <2>1. \A i \in known : 1 <= i BY <1>10
  <2>2. \E i \in known : \A j \in known : i <= j BY <1>9, <2>1
  <2>3. Searching!Least(known) \in known /\ \A j \in known : Searching!Least(known) <= j BY <2>2 DEF Searching!Least
  <2>4. Searching!Least(known) <= 1 /\ Searching!Least(known) \in 1 .. 2 BY <1>9, <1>10, <2>3
  <2> QED BY <2>4
<1>12. Searching!MatchExact(message) = IF known = {} THEN None ELSE named(v[Searching!Least(known)])
  BY DEF Searching!MatchExact, known, v
<1>13. Searching!MatchExact(message) = Searching!DistrictHit(message)
  <2> HIDE DEF named
  <2> QED BY <1>6, <1>7, <1>9, <1>11, <1>12
<1>14. Searching!Hit(message, Searching!Exact(1, Len(message))) = Searching!MatchExact(message)
  BY <1>5 DEF Searching!Hit, Searching!Exact
<1> QED BY <1>2, <1>4, <1>13, <1>14

LEMMA GovernorateIsTheSame ==
  ASSUME Searching!SearchAssumption, Searching!LocationsAssumption, SearchInv
  PROVE  Searching!SameGovernorate
<1>1. ASSUME hits # None, Searching!StatesWith(message) # {}, Len(message) <= NGram
      PROVE  Len(hits) = 1 /\ Searching!HitAt(1) = Searching!DistrictHit(message)
  <2> DEFINE n == Len(message)
             w == Searching!Exact(1, n)
  <2>1. /\ n \in Nat /\ n >= 1 /\ Searching!Hit(message, w) = Searching!DistrictHit(message)
        /\ Searching!Hit(message, w) # None
    BY <1>1, HitsAre, DistrictIsExact
  <2>2. 1 \in 1 .. n /\ n \in 1 .. n /\ 1 <= n /\ n - 1 < NGram
    <3>1. NGram \in Nat BY DEF Searching!LocationsAssumption
    <3> QED BY <1>1, <2>1, <3>1
  <2>3. w \in Searching!Windows(message) /\ ~w.fuzzy /\ w.from = 1 /\ w.to = n BY <2>1, <2>2, ExactWindow
  <2> HIDE DEF w, n
  <2>4. \A i \in 1 .. Len(hits) : hits[i].from \in 1 .. n /\ hits[i].to \in 1 .. n /\ hits[i].fuzzy \in BOOLEAN
    BY <1>1, HitsAre DEF n
  <2>5. \A i \in 1 .. Len(hits) : ~Searching!Apart(w, hits[i])
    <3>1. ASSUME NEW i \in 1 .. Len(hits) PROVE ~(w.to < hits[i].from) /\ ~(hits[i].to < w.from)
      <4>1. hits[i].from \in 1 .. n /\ hits[i].to \in 1 .. n BY <2>4
      <4> QED BY <2>1, <2>3, <4>1
    <3> QED BY <3>1 DEF Searching!Apart
  <2>6. 1 \in 1 .. Len(hits)
    <3>1. Len(hits) < TopK => \E i \in 1 .. Len(hits) : ~Searching!Apart(w, hits[i]) BY <1>1, <2>3, HitsAre DEF Greedy
    <3>2. TopK \in Nat \ {0} /\ Len(hits) \in Nat BY <1>1, HitsAre
    <3> QED BY <3>1, <3>2
  <2>7. hits[1] = w \/ Searching!Before(hits[1], w)
    <3>1. \A j \in 1 .. (1 - 1) : Searching!Apart(w, hits[j]) OBVIOUS
    <3> QED BY <1>1, <2>3, <2>6, <3>1, HitsAre DEF Greedy
  <2> DEFINE a == hits[1].from
             b == hits[1].to
  <2>8. a \in 1 .. n /\ b \in 1 .. n /\ hits[1].fuzzy \in BOOLEAN BY <2>4, <2>6
  <2>9. ~hits[1].fuzzy /\ a = 1 /\ b = n
    <3>1. CASE hits[1] = w BY <2>3, <3>1
    <3>2. CASE Searching!Before(hits[1], w)
      <4>1. ~hits[1].fuzzy BY <2>3, <2>8, <3>2 DEF Searching!Before
      <4>2. w.fuzzy = FALSE /\ hits[1].fuzzy = FALSE
        <5>1. w.fuzzy \in BOOLEAN BY <2>3 DEF Searching!Windows
        <5> QED BY <2>3, <2>8, <4>1, <5>1
      <4>3. IF b - a # n - 1 THEN b - a > n - 1 ELSE a < 1 BY <2>3, <3>2, <4>2 DEF Searching!Before
      <4> HIDE DEF a, b
      <4>4. FALSE BY <2>1, <2>8, <4>3
      <4> QED BY <4>4
    <3> QED BY <2>7, <3>1, <3>2
  <2>10. Len(hits) = 1
    <3>1. SUFFICES ASSUME Len(hits) # 1 PROVE FALSE OBVIOUS
    <3>2. 2 \in 1 .. Len(hits) /\ 1 \in 1 .. (2 - 1)
      <4>1. Len(hits) \in Nat BY <1>1, HitsAre
      <4> DEFINE found == Len(hits)
      <4>2. found \in Nat /\ 1 \in 1 .. found /\ found # 1 BY <2>6, <3>1, <4>1
      <4> HIDE DEF found
      <4>3. 2 \in 1 .. found BY ONLY <4>2
      <4> QED BY <4>3 DEF found
    <3>3. Searching!Apart(hits[2], hits[1]) BY <1>1, <3>2, HitsAre DEF Greedy
    <3>4. hits[2].from \in 1 .. n /\ hits[2].to \in 1 .. n BY <2>4, <3>2
    <3>5. hits[2].to < 1 \/ n < hits[2].from BY <2>9, <3>3 DEF Searching!Apart
    <3> QED BY <2>1, <3>4, <3>5
  <2>11. Searching!HitAt(1) = Searching!DistrictHit(message)
    <3>1. SubSeq(message, hits[1].from, hits[1].to) = SubSeq(message, w.from, w.to) BY <2>3, <2>9
    <3>2. Searching!Hit(message, hits[1]) = Searching!Hit(message, w) BY <2>3, <2>9, <3>1 DEF Searching!Hit
    <3>3. Searching!HitAt(1) = Searching!Hit(message, hits[1]) BY DEF Searching!HitAt
    <3> QED BY <2>1, <3>2, <3>3
  <2> QED BY <2>10, <2>11
<1>2. ASSUME hits # None, Searching!StatesWith(message) # {}, Len(message) <= NGram
      PROVE  /\ Len(hits) = 1 /\ Searching!HitAt(1).district = message
             /\ Searching!StateForDistrict(message) =
                  IF Searching!Cardinality(Searching!HitAt(1).in) = 1
                  THEN [name |-> message, state |-> CHOOSE s \in Searching!HitAt(1).in : TRUE]
                  ELSE None
  <2>1. Len(hits) = 1 /\ Searching!HitAt(1) = Searching!DistrictHit(message) BY <1>1, <1>2
  <2>2. /\ Searching!DistrictHit(message).district = message
        /\ Searching!DistrictHit(message).in = Searching!StatesWith(message)
    BY DEF Searching!DistrictHit
  <2>3. Searching!StateForDistrict(message) =
          IF Searching!Cardinality(Searching!StatesWith(message)) = 1
          THEN [name |-> message, state |-> CHOOSE s \in Searching!StatesWith(message) : TRUE] ELSE None
    <3> DEFINE read == IF Searching!StatesWith(message) = {} /\ message \in DOMAIN NearDistrict
                       THEN NearDistrict[message] ELSE message
    <3>1. read = message BY <1>2
    <3>2. Searching!StateForDistrict(message) =
            IF Searching!Cardinality(Searching!StatesWith(read)) = 1
            THEN [name |-> read, state |-> CHOOSE s \in Searching!StatesWith(read) : TRUE] ELSE None
      BY DEF Searching!StateForDistrict
    <3> HIDE DEF read
    <3> QED BY <3>1, <3>2
  <2> QED BY <2>1, <2>2, <2>3
<1> QED BY <1>2 DEF Searching!SameGovernorate, Searching!Found

\* A search finds what its text names, and nothing twice.
THEOREM SearchIsRight ==
  ASSUME Searching!SearchAssumption, Searching!LocationsAssumption
  PROVE  Searching!Spec => [](/\ Searching!TypeOK /\ Searching!WordsReadOnce /\ Searching!ExactNotLost
                              /\ Searching!ExactComeFirst /\ Searching!SameGovernorate)
<1>1. SearchInv => /\ Searching!TypeOK /\ Searching!WordsReadOnce /\ Searching!ExactNotLost
                   /\ Searching!ExactComeFirst /\ Searching!SameGovernorate
  BY SearchTyped, WordsAreReadOnce, ExactIsNotLost, ExactComesFirst, GovernorateIsTheSame
<1> QED BY <1>1, SearchesInv, PTL

-----------------------------------------------------------------------------
(* The parts together. *)

\* What the run checks, the parts in turns, is one way of them together.
LEMMA DistrictsInTurns == InTurns => Together
<1>1. TurnInit => Init /\ IndexInit /\ MatchInit /\ Searching!Init
  BY DEF TurnInit
<1>2. [TurnNext]_<<part, vars, indexVars, matchVars, searchVars>>
      => [Next]_vars /\ [IndexNext]_indexVars /\ [MatchNext]_matchVars /\ [Searching!Next]_searchVars
  BY DEF TurnNext
<1> QED BY <1>1, <1>2, PTL DEF InTurns, Together, Spec, IndexSpec, MatchSpec, Searching!Spec, Searching!vars, searchVars

\* Of the words of a location none is lost or read twice, the longest name wins, only what is written is
\* certain, and the search of a text agrees with the district field: for every catalog, text and address
\* (matching.py:384-687, app/rag/locations.py:113-191).
THEOREM PlacesAreReadRight == Together => []PlacesReadRight
<1>1. MatchingAssumption /\ Searching!SearchAssumption /\ Searching!LocationsAssumption
  BY DistrictsAssumption
<1>2. /\ MatchTypeOK /\ NothingLost /\ FurthestNameWins /\ CertainIsWritten /\ CenterGivesWay
      /\ Searching!TypeOK /\ Searching!WordsReadOnce /\ Searching!ExactNotLost
      /\ Searching!ExactComeFirst /\ Searching!SameGovernorate
      => PlacesReadRight
  BY DEF PlacesReadRight
<1> QED BY <1>1, <1>2, TextIsReadRight, SearchIsRight, PTL DEF Together
=============================================================================
