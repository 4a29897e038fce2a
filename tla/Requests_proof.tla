--------------------------- MODULE Requests_proof ---------------------------
(***************************************************************************)
(* Proofs about requests: the operator's turn, the tools of the catalog    *)
(* and a turn of the chat.                                                 *)
(*                                                                         *)
(* The operator's turn.  OperatorInv says how far the results have come:   *)
(* the ones after the last message with calls answer them in their order,  *)
(* and those of every message before it are complete (Came).               *)
(*                                                                         *)
(* The tools.  ToolsInv says that the pages read so far are the first rows *)
(* of the stock, so that the last page completes them.                     *)
(*                                                                         *)
(* The chat.  The identifiers given to the calls of an answer differ from  *)
(* each other, and an answer is sent as the choice of the last request     *)
(* asked for it.                                                           *)
(***************************************************************************)
EXTENDS RequestsAndStores, SequenceTheorems, FiniteSetTheorems, TLAPS

LEMMA BoundedIsSeq ==
  ASSUME NEW S, NEW n \in Nat
  PROVE  /\ <<>> \in BoundedSeq(S, n)
         /\ \A s \in BoundedSeq(S, n) : s \in Seq(S) /\ Len(s) <= n
         /\ \A s \in Seq(S) : Len(s) <= n => s \in BoundedSeq(S, n)
<1>1. BoundedSeq(S, n) = UNION {[1 .. m -> S] : m \in 0 .. n} BY DEF BoundedSeq, SeqOf
<1>2. <<>> \in [1 .. 0 -> S] /\ 0 \in 0 .. n OBVIOUS
<1>3. ASSUME NEW s \in BoundedSeq(S, n) PROVE s \in Seq(S) /\ Len(s) <= n
  <2>1. PICK m \in 0 .. n : s \in [1 .. m -> S] BY <1>1
  <2> QED BY <2>1
<1>4. ASSUME NEW s \in Seq(S), Len(s) <= n PROVE s \in BoundedSeq(S, n)
  <2>1. Len(s) \in 0 .. n /\ s \in [1 .. Len(s) -> S] BY <1>4, LenProperties
  <2> QED BY <1>1, <2>1
<1> QED BY <1>1, <1>2, <1>3, <1>4

-----------------------------------------------------------------------------
(* The operator's turn. *)

\* The results after message `k` of `t` are those of its calls `c`, as far as they have come; `p` is
\* the rest, and nothing when none of them is missing.
Came(t, p, k, c) ==
  /\ \A j \in 1 .. Len(c) : k + j <= Len(t) => t[k + j] = [result |-> c[j]]
  /\ k + Len(c) < Len(t) => "calls" \in DOMAIN t[k + Len(c) + 1]
  /\ k + Len(c) > Len(t) => p = SubSeq(c, Len(t) - k + 1, Len(c))
  /\ k + Len(c) = Len(t) => p = <<>>

ResultsCome ==
  \A k \in DOMAIN talk : "calls" \in DOMAIN talk[k] => Came(talk, pending, k, talk[k].calls)

LEMMA AllCame ==
  ASSUME NEW S, NEW T, NEW t \in Seq(T), NEW k \in 1 .. Len(t), NEW c \in Seq(S), Came(t, <<>>, k, c)
  PROVE  k + Len(c) <= Len(t)
<1> SUFFICES ASSUME k + Len(c) > Len(t) PROVE FALSE BY LenProperties
<1>1. Len(t) - k + 1 \in 1 .. Len(c) BY LenProperties
<1>2. \A i \in (Len(t) - k + 1) .. Len(c) : c[i] \in S BY <1>1, ElementOfSeq
<1>3. Len(SubSeq(c, Len(t) - k + 1, Len(c))) # 0 BY <1>1, <1>2, SubSeqProperties, LenProperties, Z3
<1>4. <<>> = SubSeq(c, Len(t) - k + 1, Len(c)) BY DEF Came
<1> QED BY <1>3, <1>4

LEMMA MessageAfterResults ==
  ASSUME NEW S, NEW T, NEW t \in Seq(T), NEW k \in 1 .. Len(t), NEW c \in Seq(S), Came(t, <<>>, k, c),
         NEW e \in T, "calls" \in DOMAIN e, NEW p
  PROVE  Came(Append(t, e), p, k, c)
<1>1. k + Len(c) <= Len(t) BY AllCame
<1>2. Len(Append(t, e)) = Len(t) + 1 /\ Append(t, e)[Len(t) + 1] = e BY AppendProperties
<1>3. \A i \in 1 .. Len(t) : Append(t, e)[i] = t[i] BY AppendProperties
<1>4. Len(c) \in Nat /\ Len(t) \in Nat BY LenProperties
<1>5. ASSUME NEW j \in 1 .. Len(c) PROVE Append(t, e)[k + j] = [result |-> c[j]]
  <2>1. k + j \in 1 .. Len(t) BY <1>1, <1>4
  <2> QED BY <1>3, <2>1 DEF Came
<1>6. "calls" \in DOMAIN Append(t, e)[k + Len(c) + 1]
  <2>1. CASE k + Len(c) = Len(t) BY <1>2, <2>1
  <2>2. CASE k + Len(c) # Len(t)
    <3>1. k + Len(c) + 1 \in 1 .. Len(t) /\ k + Len(c) < Len(t) BY <1>1, <1>4, <2>2
    <3> QED BY <1>3, <3>1 DEF Came
  <2> QED BY <2>1, <2>2
<1>7. ~(k + Len(c) > Len(t) + 1) /\ k + Len(c) # Len(t) + 1 BY <1>1, <1>4
<1> QED BY <1>2, <1>5, <1>6, <1>7 DEF Came

LEMMA NewMessage ==
  ASSUME NEW S, NEW T, NEW t \in Seq(T), NEW c \in Seq(S), NEW e \in T
  PROVE  Came(Append(t, e), c, Len(t) + 1, c)
<1>1. Len(Append(t, e)) = Len(t) + 1 BY AppendProperties
<1>2. Len(c) \in Nat /\ Len(t) \in Nat /\ (Len(c) = 0 => c = <<>>) BY LenProperties, EmptySeq
<1>3. SubSeq(c, 1, Len(c)) = c BY SubSeqFull
<1> QED BY <1>1, <1>2, <1>3 DEF Came

LEMMA ResultAfterResults ==
  ASSUME NEW S, NEW T, NEW t \in Seq(T), NEW k \in 1 .. Len(t), NEW c \in Seq(S), NEW p, p # <<>>,
         Came(t, p, k, c), [result |-> Head(p)] \in T
  PROVE  Came(Append(t, [result |-> Head(p)]), Tail(p), k, c)
<1> DEFINE e == [result |-> Head(p)]
           i == Len(t) - k + 1
<1>1. Len(Append(t, e)) = Len(t) + 1 /\ Append(t, e)[Len(t) + 1] = e BY AppendProperties
<1>2. \A n \in 1 .. Len(t) : Append(t, e)[n] = t[n] BY AppendProperties
<1>3. Len(c) \in Nat /\ Len(t) \in Nat BY LenProperties
<1>4. k + Len(c) # Len(t) BY DEF Came
<1>5. CASE k + Len(c) < Len(t)
  <2>1. ASSUME NEW j \in 1 .. Len(c) PROVE Append(t, e)[k + j] = [result |-> c[j]]
    <3>1. k + j \in 1 .. Len(t) BY <1>3, <1>5
    <3> QED BY <1>2, <3>1 DEF Came
  <2>2. k + Len(c) + 1 \in 1 .. Len(t) BY <1>3, <1>5
  <2>3. "calls" \in DOMAIN Append(t, e)[k + Len(c) + 1] BY <1>2, <1>5, <2>2 DEF Came
  <2>4. ~(k + Len(c) > Len(t) + 1) /\ k + Len(c) # Len(t) + 1 BY <1>3, <1>5
  <2> QED BY <1>1, <2>1, <2>3, <2>4 DEF Came
<1>6. CASE k + Len(c) > Len(t)
  <2>1. i \in 1 .. Len(c) BY <1>3, <1>6
  <2>2. p = SubSeq(c, i, Len(c)) BY <1>6 DEF Came
  <2>3. Head(p) = c[i] /\ Tail(p) = SubSeq(c, i + 1, Len(c)) BY <1>3, <2>1, <2>2, HeadTailOfSubSeq
  <2>4. ASSUME NEW j \in 1 .. Len(c), k + j <= Len(t) + 1 PROVE Append(t, e)[k + j] = [result |-> c[j]]
    <3>1. CASE k + j = Len(t) + 1
      <4>1. j = i BY <1>3, <3>1
      <4> QED BY <1>1, <2>3, <3>1, <4>1
    <3>2. CASE k + j # Len(t) + 1
      <4>1. k + j \in 1 .. Len(t) /\ k + j <= Len(t) BY <1>3, <2>4, <3>2
      <4> QED BY <1>2, <4>1 DEF Came
    <3> QED BY <3>1, <3>2
  <2>5. ~(k + Len(c) < Len(t) + 1) /\ (Len(t) + 1) - k + 1 = i + 1 BY <1>3, <1>6
  <2>6. ASSUME k + Len(c) = Len(t) + 1 PROVE Tail(p) = <<>>
    <3>1. Len(c) < i + 1 /\ i + 1 \in Int /\ Len(c) \in Int BY <1>3, <2>6
    <3> QED BY <2>3, <3>1, SubSeqEmpty
  <2> QED BY <1>1, <2>3, <2>4, <2>5, <2>6 DEF Came
<1> QED BY <1>3, <1>4, <1>5, <1>6

OperatorInv ==
  /\ Operator!TypeOK
  /\ turn = "tools" => round < MaxRounds
  /\ turn = "model" => pending = <<>>
  /\ reply.kind # "none" <=> turn = "done"
  /\ ResultsCome
  /\ Operator!NoServerCallLeaks

Talks == [calls : Operator!CallLists] \cup [result : Operator!ToolNames]

\* The operators of the community modules that OperatorLoop extends are those of this module.
LEMMA OperatorOperators ==
  /\ \A S, n : Operator!BoundedSeq(S, n) = BoundedSeq(S, n)
  /\ \A s : Operator!ToSet(s) = ToSet(s)
BY DEF Operator!BoundedSeq, Operator!SeqOf, BoundedSeq, SeqOf, Operator!ToSet, ToSet

LEMMA CallListsAreSeqs ==
  /\ <<>> \in Operator!CallLists
  /\ \A c \in Operator!CallLists : c \in Seq(Operator!ToolNames)
  /\ \A c \in Operator!CallLists : c # <<>> => Tail(c) \in Operator!CallLists /\ Head(c) \in Operator!ToolNames
<1>0. Operator!CallLists = BoundedSeq(Operator!ToolNames, MaxCalls) BY OperatorOperators DEF Operator!CallLists
<1>1. MaxCalls \in Nat BY RequestsAssumption DEF Operator!OperatorAssumption
<1>2. ASSUME NEW c \in Operator!CallLists, c # <<>>
      PROVE  Tail(c) \in Operator!CallLists /\ Head(c) \in Operator!ToolNames
  <2>1. c \in Seq(Operator!ToolNames) /\ Len(c) <= MaxCalls BY <1>0, <1>1, BoundedIsSeq
  <2>2. Tail(c) \in Seq(Operator!ToolNames) /\ Len(Tail(c)) = Len(c) - 1 /\ Head(c) \in Operator!ToolNames
    BY <1>2, <2>1, HeadTailProperties
  <2>3. Len(Tail(c)) <= MaxCalls BY <1>1, <2>1, <2>2, LenProperties
  <2> QED BY <1>0, <1>1, <2>2, <2>3, BoundedIsSeq
<1> QED BY <1>0, <1>1, <1>2, BoundedIsSeq

LEMMA TalkTypes ==
  ASSUME talk \in Seq(Talks), NEW k \in DOMAIN talk, "calls" \in DOMAIN talk[k]
  PROVE  k \in 1 .. Len(talk) /\ talk[k].calls \in Seq(Operator!ToolNames)
<1>1. k \in 1 .. Len(talk) /\ talk[k] \in Talks BY LenProperties, ElementOfSeq
<1>2. ~ (talk[k] \in [result : Operator!ToolNames]) OBVIOUS
<1>3. talk[k] \in [calls : Operator!CallLists] BY <1>1, <1>2 DEF Talks
<1> QED BY <1>1, <1>3, CallListsAreSeqs

LEMMA OperatorStarts == Operator!Init => OperatorInv
<1> SUFFICES ASSUME Operator!Init PROVE OperatorInv OBVIOUS
<1> USE RequestsAssumption DEF Operator!OperatorAssumption, Operator!Init, Operator!NoAnswer
<1>1. <<>> \in Operator!CallLists BY CallListsAreSeqs
<1>2. talk \in Seq([calls : Operator!CallLists] \cup [result : Operator!ToolNames]) BY EmptySeq
<1>3. Operator!TypeOK
  <2>1. reply \in [kind : {"none", "error", "calls", "text", "fallback"}, calls : Operator!CallLists] BY <1>1
  <2>2. configured \in BOOLEAN /\ choice \in {"auto", "none"} /\ lastRole \in {"user", "tool"} /\ tried \in BOOLEAN
    OBVIOUS
  <2>3. round \in 0 .. MaxRounds /\ turn \in {"model", "tools", "done"} OBVIOUS
  <2> QED BY <1>1, <1>2, <2>1, <2>2, <2>3 DEF Operator!TypeOK
<1>4. ResultsCome BY DEF ResultsCome
<1> QED BY <1>3, <1>4 DEF OperatorInv, Operator!NoServerCallLeaks

LEMMA OperatorSteps == OperatorInv /\ [Operator!Next]_(Operator!vars) => OperatorInv'
<1> SUFFICES ASSUME OperatorInv, [Operator!Next]_(Operator!vars) PROVE OperatorInv' OBVIOUS
<1> USE RequestsAssumption DEF Operator!OperatorAssumption
<1>a. /\ turn \in {"model", "tools", "done"} /\ round \in 0 .. MaxRounds /\ tried \in BOOLEAN
      /\ pending \in Operator!CallLists /\ talk \in Seq(Talks)
      /\ configured \in BOOLEAN /\ choice \in {"auto", "none"} /\ lastRole \in {"user", "tool"}
      /\ reply \in [kind : {"none", "error", "calls", "text", "fallback"}, calls : Operator!CallLists]
  BY DEF OperatorInv, Operator!TypeOK, Talks
<1>b. /\ turn = "tools" => round < MaxRounds
      /\ turn = "model" => pending = <<>>
      /\ reply.kind # "none" <=> turn = "done"
      /\ ResultsCome
      /\ Operator!NoServerCallLeaks
  BY DEF OperatorInv
<1>c. <<>> \in Operator!CallLists BY CallListsAreSeqs
<1>1. ASSUME NEW a \in [kind : {"error", "calls", "text", "fallback"}, calls : Operator!CallLists],
             turn # "done", Operator!End(a),
             a.kind = "calls" =>
               Operator!ToSet(a.calls) \subseteq (ClientTools \cup {StartCall}) \ Operator!Active,
             UNCHANGED <<configured, choice, lastRole>>
      PROVE  OperatorInv'
  <2>0. /\ turn' = "done" /\ reply' = a
        /\ UNCHANGED <<round, tried, pending, talk, configured, choice, lastRole>>
    BY <1>1 DEF Operator!End
  <2>1. Operator!TypeOK' BY <1>a, <2>0 DEF Operator!TypeOK, Talks
  <2>2. ResultsCome' BY <1>b, <2>0 DEF ResultsCome
  <2>3. Operator!Active' = Operator!Active BY <2>0 DEF Operator!Active
  <2>4. Operator!NoServerCallLeaks' BY <1>1, <2>0, <2>3 DEF Operator!NoServerCallLeaks
  <2>5. reply'.kind # "none" BY <2>0
  <2> QED BY <2>0, <2>1, <2>2, <2>4, <2>5 DEF OperatorInv
<1>2. CASE Operator!Complete
  <2>0. turn = "model" /\ UNCHANGED <<configured, choice, lastRole>> BY <1>2 DEF Operator!Complete
  <2>1. PICK d \in Operator!Replies :
          \/ Operator!Usable(d) /\ Operator!Take(d)
          \/ ~Operator!Usable(d) /\ Operator!TryAgain
          \/ ~Operator!Usable(d) /\ tried /\ Operator!End([kind |-> "fallback", calls |-> <<>>])
    BY <1>2 DEF Operator!Complete
  <2>2. d.calls \in Operator!CallLists BY DEF Operator!Replies, Operator!Reply
  <2>a. Operator!Active' = Operator!Active BY <2>0 DEF Operator!Active
  <2> DEFINE Served == Operator!Valid(d) /\ \E n \in Operator!Active : n \in Operator!ToSet(d.calls)
  <2>3. CASE Operator!Take(d) /\ Served
    <3>1. PICK mine \in Operator!CallLists :
            /\ turn' = "tools" /\ pending' = mine
            /\ talk' = Append(talk, [calls |-> mine])
            /\ UNCHANGED <<round, tried, reply>>
      BY <2>3 DEF Operator!Take
    <3>2. round < MaxRounds
      <4> SUFFICES ASSUME ~(round < MaxRounds) PROVE FALSE OBVIOUS
      <4>1. Operator!Allowed = Operator!Tools \ Operator!Active BY DEF Operator!Allowed
      <4> QED BY <2>3, <4>1 DEF Operator!Valid
    <3>3. [calls |-> mine] \in Talks BY DEF Talks
    <3>4. talk' \in Seq(Talks) /\ Len(talk') = Len(talk) + 1 BY <1>a, <3>1, <3>3, AppendProperties
    <3>5. Operator!TypeOK' BY <1>a, <2>0, <3>1, <3>4 DEF Operator!TypeOK, Talks
    <3>6. ResultsCome'
      <4> SUFFICES ASSUME NEW k \in DOMAIN talk', "calls" \in DOMAIN talk'[k]
                   PROVE  Came(talk', mine, k, talk'[k].calls)
        BY <3>1 DEF ResultsCome
      <4>1. k \in 1 .. Len(talk) + 1 BY <3>4, LenProperties
      <4>2. CASE k = Len(talk) + 1
        <5>1. talk'[k] = [calls |-> mine] BY <1>a, <3>1, <3>3, <4>2, AppendProperties
        <5>2. mine \in Seq(Operator!ToolNames) BY CallListsAreSeqs
        <5> QED BY <1>a, <3>1, <3>3, <4>2, <5>1, <5>2, NewMessage
      <4>3. CASE k \in 1 .. Len(talk)
        <5>1. talk'[k] = talk[k] /\ k \in DOMAIN talk BY <1>a, <3>1, <3>3, <4>3, AppendProperties, LenProperties
        <5>2. talk[k].calls \in Seq(Operator!ToolNames) BY <1>a, <5>1, TalkTypes
        <5>3. Came(talk, <<>>, k, talk[k].calls) BY <1>b, <2>0, <5>1 DEF ResultsCome
        <5>4. "calls" \in DOMAIN [calls |-> mine] OBVIOUS
        <5> QED BY <1>a, <3>1, <3>3, <4>3, <5>1, <5>2, <5>3, <5>4, MessageAfterResults
      <4> QED BY <1>a, <4>1, <4>2, <4>3, LenProperties
    <3>7. reply' = reply /\ turn' # "done" /\ reply.kind = "none" /\ turn' # "model" BY <1>b, <2>0, <3>1
    <3>8. Operator!NoServerCallLeaks' BY <3>7 DEF Operator!NoServerCallLeaks
    <3> QED BY <3>1, <3>2, <3>5, <3>6, <3>7, <3>8 DEF OperatorInv
  <2>4. CASE Operator!Take(d) /\ ~Served
    <3>1. CASE Operator!Valid(d)
      <4>1. Operator!End([kind |-> "calls", calls |-> d.calls]) BY <2>4, <3>1 DEF Operator!Take
      <4>2. Operator!ToSet(d.calls) \subseteq Operator!Tools
        BY <3>1 DEF Operator!Valid, Operator!Allowed
      <4>3. Operator!Tools \ Operator!Active \subseteq (ClientTools \cup {StartCall}) \ Operator!Active
        BY DEF Operator!Tools
      <4>4. Operator!ToSet(d.calls) \subseteq (ClientTools \cup {StartCall}) \ Operator!Active BY <2>4, <3>1, <4>2, <4>3
      <4>5. [kind |-> "calls", calls |-> d.calls]
              \in [kind : {"error", "calls", "text", "fallback"}, calls : Operator!CallLists] BY <2>2
      <4> QED BY <1>1, <2>0, <4>1, <4>4, <4>5
    <3>2. CASE ~Operator!Valid(d)
      <4>1. Operator!End([kind |-> "text", calls |-> <<>>]) BY <2>4, <3>2 DEF Operator!Take
      <4> QED BY <1>1, <1>c, <2>0, <4>1
    <3> QED BY <3>1, <3>2
  <2>5. CASE Operator!TryAgain
    <3>1. tried' = TRUE /\ UNCHANGED <<round, turn, pending, talk, reply>> BY <2>5 DEF Operator!TryAgain
    <3>2. Operator!TypeOK' BY <1>a, <2>0, <3>1 DEF Operator!TypeOK, Talks
    <3>3. ResultsCome' BY <1>b, <3>1 DEF ResultsCome
    <3>4. Operator!NoServerCallLeaks' BY <1>b, <2>a, <3>1 DEF Operator!NoServerCallLeaks
    <3> QED BY <1>b, <3>1, <3>2, <3>3, <3>4 DEF OperatorInv
  <2>6. CASE Operator!End([kind |-> "fallback", calls |-> <<>>]) BY <1>1, <1>c, <2>0, <2>6
  <2> QED BY <2>1, <2>3, <2>4, <2>5, <2>6
<1>3. CASE Operator!CompletionFails
  <2>1. turn = "model" /\ Operator!End([kind |-> "error", calls |-> <<>>]) /\ UNCHANGED <<configured, choice, lastRole>>
    BY <1>3 DEF Operator!CompletionFails
  <2> QED BY <1>1, <1>c, <2>1
<1>4. CASE Operator!RunTool
  <2>0. /\ turn = "tools" /\ pending # <<>>
        /\ talk' = Append(talk, [result |-> Head(pending)]) /\ pending' = Tail(pending)
        /\ UNCHANGED <<configured, choice, lastRole, round, tried, turn, reply>>
    BY <1>4 DEF Operator!RunTool
  <2>1. pending' \in Operator!CallLists /\ [result |-> Head(pending)] \in Talks
    BY <1>a, <2>0, CallListsAreSeqs DEF Talks
  <2>2. talk' \in Seq(Talks) /\ Len(talk') = Len(talk) + 1 BY <1>a, <2>0, <2>1, AppendProperties
  <2>3. Operator!TypeOK' BY <1>a, <2>0, <2>1, <2>2 DEF Operator!TypeOK, Talks
  <2>4. ResultsCome'
    <3> SUFFICES ASSUME NEW k \in DOMAIN talk', "calls" \in DOMAIN talk'[k]
                 PROVE  Came(talk', pending', k, talk'[k].calls)
      BY DEF ResultsCome
    <3>1. k # Len(talk) + 1 BY <1>a, <2>0, <2>1, AppendProperties
    <3>2. k \in 1 .. Len(talk) BY <1>a, <2>2, <3>1, LenProperties
    <3>3. talk'[k] = talk[k] /\ k \in DOMAIN talk BY <1>a, <2>0, <2>1, <3>2, AppendProperties, LenProperties
    <3>4. talk[k].calls \in Seq(Operator!ToolNames) BY <1>a, <3>3, TalkTypes
    <3>5. Came(talk, pending, k, talk[k].calls) BY <1>b, <3>3 DEF ResultsCome
    <3> QED BY <1>a, <2>0, <2>1, <3>2, <3>3, <3>4, <3>5, ResultAfterResults
  <2>5. Operator!Active' = Operator!Active BY <2>0 DEF Operator!Active
  <2>6. Operator!NoServerCallLeaks' BY <1>b, <2>0, <2>5 DEF Operator!NoServerCallLeaks
  <2> QED BY <1>b, <2>0, <2>3, <2>4, <2>6 DEF OperatorInv
<1>5. CASE Operator!NextRound
  <2>0. /\ turn = "tools" /\ pending = <<>> /\ round' = round + 1 /\ tried' = FALSE /\ turn' = "model"
        /\ UNCHANGED <<configured, choice, lastRole, pending, talk, reply>>
    BY <1>5 DEF Operator!NextRound
  <2>1. round' \in 0 .. MaxRounds BY <1>a, <1>b, <2>0
  <2>2. Operator!TypeOK' BY <1>a, <2>0, <2>1 DEF Operator!TypeOK, Talks
  <2>3. ResultsCome' BY <1>b, <2>0 DEF ResultsCome
  <2>4. Operator!Active' = Operator!Active BY <2>0 DEF Operator!Active
  <2>5. Operator!NoServerCallLeaks' BY <1>b, <2>0, <2>4 DEF Operator!NoServerCallLeaks
  <2> QED BY <1>b, <2>0, <2>2, <2>3, <2>5 DEF OperatorInv
<1>6. CASE UNCHANGED Operator!vars
  <2>0. UNCHANGED <<configured, choice, lastRole, round, tried, turn, pending, talk, reply>>
    BY <1>6 DEF Operator!vars
  <2>1. Operator!TypeOK' BY <1>a, <2>0 DEF Operator!TypeOK, Talks
  <2>2. ResultsCome' BY <1>b, <2>0 DEF ResultsCome
  <2>3. Operator!Active' = Operator!Active BY <2>0 DEF Operator!Active
  <2>4. Operator!NoServerCallLeaks' BY <1>b, <2>0, <2>3 DEF Operator!NoServerCallLeaks
  <2> QED BY <1>b, <2>0, <2>1, <2>2, <2>4 DEF OperatorInv
<1>7. CASE Operator!ToolBreaks
  <2>1. turn = "tools" /\ Operator!End([kind |-> "error", calls |-> <<>>]) /\ UNCHANGED <<configured, choice, lastRole>>
    BY <1>7 DEF Operator!ToolBreaks
  <2> QED BY <1>1, <1>c, <2>1
<1> QED BY <1>2, <1>3, <1>4, <1>5, <1>6, <1>7 DEF Operator!Next, Operator!Done

LEMMA OperatorHolds == OperatorInv => Operator!ResultsFollowCalls
<1> SUFFICES ASSUME OperatorInv, turn = "model", NEW k \in DOMAIN talk, "calls" \in DOMAIN talk[k]
             PROVE  LET n == Len(talk[k].calls)
                    IN  /\ k + n <= Len(talk)
                        /\ \A j \in 1 .. n : talk[k + j] = [result |-> talk[k].calls[j]]
                        /\ k + n < Len(talk) => "calls" \in DOMAIN talk[k + n + 1]
  BY DEF Operator!ResultsFollowCalls
<1>1. talk \in Seq(Talks) /\ pending = <<>> BY DEF OperatorInv, Operator!TypeOK, Talks
<1>2. k \in 1 .. Len(talk) /\ talk[k].calls \in Seq(Operator!ToolNames) BY <1>1, TalkTypes
<1> DEFINE c == talk[k].calls
<1>3. Came(talk, <<>>, k, c) BY <1>1 DEF OperatorInv, ResultsCome
<1>4. k + Len(c) <= Len(talk) BY <1>1, <1>2, <1>3, AllCame
<1>5. Len(c) \in Nat /\ Len(talk) \in Nat BY <1>1, <1>2, LenProperties
<1>6. \A j \in 1 .. Len(c) : k + j <= Len(talk) BY <1>2, <1>4, <1>5
<1> QED BY <1>3, <1>4, <1>6 DEF Came

\* A turn of the operator, for any tools and any number of rounds: the conversation is one the model
\* accepts, and no call of a tool of the server reaches the application.
THEOREM OperatorIsSound ==
  Operator!Spec => [](OperatorInv /\ Operator!ResultsFollowCalls)
<1>1. OperatorInv => OperatorInv /\ Operator!ResultsFollowCalls BY OperatorHolds
<1> QED BY OperatorStarts, OperatorSteps, <1>1, PTL DEF Operator!Spec

-----------------------------------------------------------------------------
(* The tools of the catalog. *)

Upto(n, l) == IF n < l THEN n ELSE l

\* As long as nothing changed, the infos of a product are the first pages of its stock, and no page
\* is left when it has been read.
ReadSoFar ==
  changes = 0 => \A p \in Products :
    /\ read[p].infos = SubSeq(stock[p], 1, Upto(read[p].page * PageSize, Len(stock[p])))
    /\ read[p].state = "pages" /\ read[p].page # 0 => read[p].page * PageSize < Len(stock[p])
    /\ read[p].state = "ok" => Len(stock[p]) <= read[p].page * PageSize \/ read[p].page = MaxPages

\* Products are shown as they were read.
ShownAsRead ==
  /\ answer.kind # "none" <=> asking = "done"
  /\ answer.kind = "products" =>
       /\ answer.of = [p \in Products |-> Tools!Trim(read[p])]
       /\ \A p \in Products : read[p].state # "pages"

ToolsTypes ==
  /\ tool \in Tools!Tools /\ phone \in Phones /\ wanted \in Orders \cup {NoOrder}
  /\ phoneOf \in [Orders -> Phones]
  /\ stock \in [Products -> Tools!Stocks] /\ changes \in 0 .. MaxChanges
  /\ asking \in {"ask", "stock", "done"}
  /\ read \in [Products -> Tools!Read]
  /\ reason \in {"ok"} \cup Tools!Lost \cup Tools!NotThere
  /\ answer.kind \in {"none", "unavailable", "unknown", "missing", "orders", "products"}

ToolsInv ==
  /\ Tools!TypeOK
  /\ \A p \in Products : read[p].state = "pages" => read[p].page < MaxPages
  /\ ReadSoFar /\ ShownAsRead /\ Tools!OwnOrders /\ Tools!NotDenied

LEMMA ToolsTypesAgree == Tools!TypeOK <=> ToolsTypes
BY DEF Tools!TypeOK, ToolsTypes

LEMMA StockIsSeq ==
  /\ <<>> \in Tools!Stocks
  /\ \A s \in Tools!Stocks : s \in Seq(Infos)
  /\ \A s \in Tools!Stocks : s # <<>> => Tail(s) \in Tools!Stocks
  /\ \A s \in Tools!Stocks, i \in Infos : Len(s) < MaxInfos => Append(s, i) \in Tools!Stocks
<1>0. Tools!Stocks = BoundedSeq(Infos, MaxInfos)
  BY DEF Tools!Stocks, Tools!BoundedSeq, Tools!SeqOf, BoundedSeq, SeqOf
<1>1. MaxInfos \in Nat BY RequestsAssumption DEF Tools!CatalogAssumption
<1>2. ASSUME NEW s \in Tools!Stocks, s # <<>> PROVE Tail(s) \in Tools!Stocks
  <2>1. s \in Seq(Infos) /\ Len(s) <= MaxInfos BY <1>0, <1>1, BoundedIsSeq
  <2>2. Tail(s) \in Seq(Infos) /\ Len(Tail(s)) = Len(s) - 1 BY <1>2, <2>1, HeadTailProperties
  <2>3. Len(Tail(s)) <= MaxInfos BY <1>1, <2>1, <2>2, LenProperties
  <2> QED BY <1>0, <1>1, <2>2, <2>3, BoundedIsSeq
<1>3. ASSUME NEW s \in Tools!Stocks, NEW i \in Infos, Len(s) < MaxInfos PROVE Append(s, i) \in Tools!Stocks
  <2>1. s \in Seq(Infos) BY <1>0, <1>1, BoundedIsSeq
  <2>2. Append(s, i) \in Seq(Infos) /\ Len(Append(s, i)) = Len(s) + 1 BY <2>1, AppendProperties
  <2>3. Len(Append(s, i)) <= MaxInfos BY <1>1, <1>3, <2>1, <2>2, LenProperties
  <2> QED BY <1>0, <1>1, <2>2, <2>3, BoundedIsSeq
<1> QED BY <1>0, <1>1, <1>2, <1>3, BoundedIsSeq

\* The pages before and one page are the pages up to the next.
LEMMA OnePageMore ==
  ASSUME NEW S, NEW s \in Seq(S), NEW z \in Nat \ {0}, NEW n \in Nat, n = 0 \/ n * z < Len(s)
  PROVE  SubSeq(s, 1, Upto(n * z, Len(s))) \o SubSeq(s, n * z + 1, Upto((n + 1) * z, Len(s)))
           = SubSeq(s, 1, Upto((n + 1) * z, Len(s)))
<1>1. n * z \in Nat /\ (n + 1) * z = n * z + z /\ Len(s) \in Nat BY LenProperties
<1>2. n = 0 => n * z = 0 OBVIOUS
<1> DEFINE a == n * z
<1>3. a \in 0 .. Len(s) /\ Upto(a, Len(s)) = a BY <1>1, <1>2 DEF Upto
<1>4. Upto((n + 1) * z, Len(s)) \in a .. Len(s)
  <2> HIDE DEF a
  <2>1. a + z \in Nat /\ a <= a + z BY <1>3, <1>1
  <2> QED BY <1>1, <1>3, <2>1 DEF Upto, a
<1> DEFINE b == Upto((n + 1) * z, Len(s))
<1>5. 1 \in 1 .. Len(s) + 1 /\ a \in 1 - 1 .. Len(s) /\ b \in a .. Len(s) BY <1>1, <1>3, <1>4
<1>6. SubSeq(s, 1, Upto(n * z, Len(s))) = SubSeq(s, 1, a) BY <1>3
<1> HIDE DEF a, b
<1>7. SubSeq(s, 1, a) \o SubSeq(s, a + 1, b) = SubSeq(s, 1, b) BY <1>5, ConcatAdjacentSubSeq
<1> QED BY <1>6, <1>7 DEF a, b

LEMMA ProductIsNat == ASSUME NEW x \in Nat, NEW y \in Nat PROVE x * y \in Nat
OBVIOUS

LEMMA ToolsStart == Tools!Init => ToolsInv
<1> SUFFICES ASSUME Tools!Init PROVE ToolsInv OBVIOUS
<1> USE RequestsAssumption DEF Tools!CatalogAssumption
<1>0. /\ tool \in Tools!Tools /\ phone \in Phones /\ wanted \in Orders \cup {NoOrder}
      /\ changes = 0 /\ asking = "ask" /\ read = [p \in Products |-> Tools!Unread]
      /\ reason = "ok" /\ answer = [kind |-> "none"]
  BY DEF Tools!Init
<1>1. phoneOf \in [Orders -> Phones] /\ stock \in [Products -> Tools!Stocks]
  BY <1>0, StockIsSeq DEF Tools!Init
<1>2. Tools!Unread \in Tools!Read
  BY EmptySeq DEF Tools!Unread, Tools!Read
<1>3. ToolsTypes BY <1>0, <1>1, <1>2 DEF ToolsTypes
<1>4. \A p \in Products : read[p].page = 0 /\ read[p].infos = <<>> /\ read[p].state = "pages" /\ 0 < MaxPages
  BY <1>0 DEF Tools!Unread
<1>5. ReadSoFar
  <2> SUFFICES ASSUME NEW p \in Products PROVE <<>> = SubSeq(stock[p], 1, Upto(0 * PageSize, Len(stock[p])))
    BY <1>4 DEF ReadSoFar
  <2>1. stock[p] \in Seq(Infos) /\ Len(stock[p]) \in Nat BY <1>1, StockIsSeq, LenProperties
  <2>2. Upto(0 * PageSize, Len(stock[p])) = 0 BY <2>1 DEF Upto
  <2> QED BY <2>2, SubSeqEmpty
<1>6. ShownAsRead /\ Tools!OwnOrders /\ Tools!NotDenied
  BY <1>0 DEF ShownAsRead, Tools!OwnOrders, Tools!NotDenied
<1> QED BY <1>3, <1>4, <1>5, <1>6, ToolsTypesAgree DEF ToolsInv

LEMMA ToolsSteps == ToolsInv /\ [Tools!Next]_(Tools!vars) => ToolsInv'
<1> SUFFICES ASSUME ToolsInv, [Tools!Next]_(Tools!vars) PROVE ToolsInv' OBVIOUS
<1> USE RequestsAssumption DEF Tools!CatalogAssumption
<1>a. ToolsTypes BY ToolsTypesAgree DEF ToolsInv
<1>b. /\ \A p \in Products : read[p].state = "pages" => read[p].page < MaxPages
      /\ ReadSoFar /\ ShownAsRead /\ Tools!OwnOrders /\ Tools!NotDenied
  BY DEF ToolsInv
<1>p. PageSize \in Nat \ {0} /\ MaxPages \in Nat \ {0} OBVIOUS
<1>c. ToolsTypes' => Tools!TypeOK' BY DEF Tools!TypeOK, ToolsTypes
\* An answer that is no list of products ends the call.
<1>1. ASSUME NEW a, asking = "ask", Tools!End(a),
             a.kind \in {"unavailable", "unknown", "missing", "orders"},
             reason' \in {"ok"} \cup Tools!Lost \cup Tools!NotThere,
             tool \in {"my_orders", "order_status"} /\ a.kind = "orders" =>
               \A o \in a.of : NumberOf[phone] # NoNumber /\ NumberOf[phoneOf[o]] = NumberOf[phone],
             tool = "order_status" /\ a.kind = "missing" =>
               \/ reason' \in Tools!NotThere
               \/ NumberOf[phone] = NoNumber \/ wanted = NoOrder
               \/ NumberOf[phoneOf[wanted]] # NumberOf[phone],
             a.kind = "missing" => reason' \notin Tools!Lost
      PROVE  ToolsInv'
  <2>0. /\ asking' = "done" /\ answer' = a /\ UNCHANGED <<tool, phone, wanted, phoneOf, stock, changes, read>>
    BY <1>1 DEF Tools!End, Tools!call
  <2>1. ToolsTypes' BY <1>a, <1>1, <2>0 DEF ToolsTypes
  <2>2. ReadSoFar' BY <1>b, <2>0 DEF ReadSoFar
  <2>3. ShownAsRead' BY <1>1, <2>0 DEF ShownAsRead
  <2>4. Tools!OwnOrders' BY <1>1, <2>0 DEF Tools!OwnOrders
  <2>5. Tools!NotDenied' BY <1>1, <2>0 DEF Tools!NotDenied
  <2> QED BY <1>b, <1>c, <2>0, <2>1, <2>2, <2>3, <2>4, <2>5 DEF ToolsInv
\* What changes only the stock or what was read of it leaves the rest as it is.
<1>2. ASSUME UNCHANGED <<tool, phone, wanted, phoneOf, asking, reason, answer>>, asking = "stock",
             ToolsTypes', ReadSoFar',
             \A p \in Products : read'[p].state = "pages" => read'[p].page < MaxPages
      PROVE  ToolsInv'
  <2>1. answer.kind = "none" BY <1>b, <1>2 DEF ShownAsRead
  <2>2. ShownAsRead' BY <1>2, <2>1 DEF ShownAsRead
  <2>3. Tools!OwnOrders' /\ Tools!NotDenied' BY <1>2, <2>1 DEF Tools!OwnOrders, Tools!NotDenied
  <2> QED BY <1>c, <1>2, <2>2, <2>3 DEF ToolsInv
<1>3. CASE Tools!MyOrders
  <2>1. PICK page \in SUBSET Orders :
          Tools!End(Tools!OrdersAnswer({o \in page : Tools!SamePhone(phoneOf[o], phone)}))
    BY <1>3 DEF Tools!MyOrders, Tools!FirstPages
  <2>2. asking = "ask" /\ tool = "my_orders" /\ reason' = "ok" BY <1>3 DEF Tools!MyOrders
  <2> DEFINE os == {o \in page : Tools!SamePhone(phoneOf[o], phone)}
  <2>3. \A o \in os : NumberOf[phone] # NoNumber /\ NumberOf[phoneOf[o]] = NumberOf[phone] BY DEF Tools!SamePhone
  <2>4. "ok" \notin Tools!Lost BY DEF Tools!Lost
  <2> HIDE DEF os
  <2>5. CASE os = {}
    <3>1. Tools!End([kind |-> "missing"]) BY <2>1, <2>5 DEF Tools!OrdersAnswer, os
    <3> QED BY <1>1, <2>2, <2>4, <3>1
  <2>6. CASE os # {}
    <3>1. Tools!End([kind |-> "orders", of |-> os, shown |-> MaxOrders])
      BY <2>1, <2>6 DEF Tools!OrdersAnswer, os
    <3> QED BY <1>1, <2>2, <2>3, <3>1
  <2> QED BY <2>5, <2>6
<1>4. CASE Tools!NothingToAsk
  <2>1. /\ asking = "ask" /\ tool \in {"my_orders", "order_status"}
        /\ NumberOf[phone] = NoNumber \/ wanted = NoOrder
        /\ Tools!End([kind |-> IF tool = "my_orders" THEN "unknown" ELSE "missing"]) /\ reason' = "ok"
    BY <1>4 DEF Tools!NothingToAsk, Tools!Asks
  <2>2. "ok" \notin Tools!Lost BY DEF Tools!Lost
  <2>3. CASE tool = "my_orders"
    <3>1. Tools!End([kind |-> "unknown"]) BY <2>1, <2>3
    <3> QED BY <1>1, <2>1, <3>1
  <2>4. CASE tool # "my_orders"
    <3>1. Tools!End([kind |-> "missing"]) BY <2>1, <2>4
    <3> QED BY <1>1, <2>1, <2>2, <3>1
  <2> QED BY <2>3, <2>4
<1>5. CASE Tools!OrderStatus
  <2>1. /\ asking = "ask" /\ tool = "order_status" /\ NumberOf[phone] # NoNumber /\ reason' = "ok"
        /\ Tools!End(IF Tools!Owns(wanted) THEN Tools!OrdersAnswer({wanted}) ELSE [kind |-> "missing"])
    BY <1>5 DEF Tools!OrderStatus, Tools!Asks
  <2>2. "ok" \notin Tools!Lost BY DEF Tools!Lost
  <2>3. CASE Tools!Owns(wanted)
    <3>1. Tools!End([kind |-> "orders", of |-> {wanted}, shown |-> MaxOrders])
      BY <2>1, <2>3 DEF Tools!OrdersAnswer
    <3>2. NumberOf[phone] # NoNumber /\ NumberOf[phoneOf[wanted]] = NumberOf[phone]
      BY <2>3 DEF Tools!Owns, Tools!SamePhone
    <3> QED BY <1>1, <2>1, <3>1, <3>2
  <2>4. CASE ~Tools!Owns(wanted)
    <3>1. Tools!End([kind |-> "missing"]) BY <2>1, <2>4
    <3>2. NumberOf[phone] = NoNumber \/ NumberOf[phoneOf[wanted]] # NumberOf[phone]
      <4>1. NumberOf[phoneOf[wanted]] = NoNumber \/ NumberOf[phoneOf[wanted]] # NumberOf[phone]
        BY <2>4 DEF Tools!Owns, Tools!SamePhone
      <4> QED BY <2>1, <4>1
    <3> QED BY <1>1, <2>1, <2>2, <3>1, <3>2
  <2> QED BY <2>3, <2>4
<1>6. CASE Tools!StaffOrders
  <2>1. asking = "ask" /\ reason' = "ok" /\ tool \in {"staff_order", "staff_orders"} BY <1>6 DEF Tools!StaffOrders
  <2>2. PICK os : Tools!End(Tools!OrdersAnswer(os)) BY <1>6 DEF Tools!StaffOrders
  <2>3. "ok" \notin Tools!Lost BY DEF Tools!Lost
  <2>4. CASE os = {}
    <3>1. Tools!End([kind |-> "missing"]) BY <2>2, <2>4 DEF Tools!OrdersAnswer
    <3> QED BY <1>1, <2>1, <2>3, <3>1
  <2>5. CASE os # {}
    <3>1. Tools!End([kind |-> "orders", of |-> os, shown |-> MaxOrders]) BY <2>2, <2>5 DEF Tools!OrdersAnswer
    <3> QED BY <1>1, <2>1, <3>1
  <2> QED BY <2>4, <2>5
<1>7. ASSUME NEW r \in Tools!Lost \cup Tools!NotThere, Tools!MainFails(r) PROVE ToolsInv'
  <2>1. asking = "ask" /\ reason' = r /\ Tools!End(Tools!FailureAnswer(r)) BY <1>7 DEF Tools!MainFails
  <2>2. Tools!Lost \cap Tools!NotThere = {} BY DEF Tools!Lost, Tools!NotThere
  <2>3. CASE r \in Tools!NotThere /\ tool \in {"order_status", "staff_order"}
    <3>1. Tools!End([kind |-> "missing"]) BY <2>1, <2>3 DEF Tools!FailureAnswer
    <3> QED BY <1>1, <2>1, <2>2, <2>3, <3>1
  <2>4. CASE ~(r \in Tools!NotThere /\ tool \in {"order_status", "staff_order"})
    <3>1. Tools!End([kind |-> "unavailable"]) BY <2>1, <2>4 DEF Tools!FailureAnswer
    <3> QED BY <1>1, <1>7, <2>1, <3>1
  <2> QED BY <2>3, <2>4
<1>8. CASE Tools!SearchProducts
  <2>0. /\ asking = "ask" /\ asking' = "stock"
        /\ UNCHANGED <<tool, phone, wanted, phoneOf, stock, changes, read, reason, answer>>
    BY <1>8 DEF Tools!SearchProducts, Tools!call
  <2>1. ToolsTypes' BY <1>a, <2>0 DEF ToolsTypes
  <2>2. answer.kind = "none" BY <1>b, <2>0 DEF ShownAsRead
  <2>3. ReadSoFar' /\ ShownAsRead' BY <1>b, <2>0, <2>2 DEF ReadSoFar, ShownAsRead
  <2>4. Tools!OwnOrders' /\ Tools!NotDenied' BY <2>0, <2>2 DEF Tools!OwnOrders, Tools!NotDenied
  <2> QED BY <1>b, <1>c, <2>0, <2>1, <2>3, <2>4 DEF ToolsInv
<1>9. CASE Tools!SearchAnswers
  <2>0. /\ asking = "stock" /\ asking' = "done" /\ \A p \in Products : read[p].state # "pages"
        /\ answer' = [kind |-> "products", of |-> [p \in Products |-> Tools!Trim(read[p])]]
        /\ UNCHANGED <<tool, phone, wanted, phoneOf, stock, changes, read, reason>>
    BY <1>9 DEF Tools!SearchAnswers, Tools!call
  <2>1. ToolsTypes' BY <1>a, <2>0 DEF ToolsTypes
  <2>2. ReadSoFar' BY <1>b, <2>0 DEF ReadSoFar
  <2>3. ShownAsRead'
    <3>1. answer'.of = [p \in Products |-> Tools!Trim(read'[p])] BY <2>0
    <3> QED BY <2>0, <3>1 DEF ShownAsRead
  <2>4. Tools!OwnOrders' /\ Tools!NotDenied' BY <2>0 DEF Tools!OwnOrders, Tools!NotDenied
  <2> QED BY <1>b, <1>c, <2>0, <2>1, <2>2, <2>3, <2>4 DEF ToolsInv
<1>10. ASSUME NEW p \in Products, Tools!Change(p) PROVE ToolsInv'
  <2>0. /\ asking = "stock" /\ changes < MaxChanges /\ changes' = changes + 1
        /\ UNCHANGED <<tool, phone, wanted, phoneOf, asking, read, reason, answer>>
    BY <1>10 DEF Tools!Change, Tools!call
  <2>1. PICK s \in Tools!Stocks : stock' = [stock EXCEPT ![p] = s]
    <3>1. stock[p] \in Tools!Stocks BY <1>a DEF ToolsTypes
    <3> QED BY <1>10, <3>1, StockIsSeq DEF Tools!Change
  <2>2. changes' \in 1 .. MaxChanges BY <1>a, <2>0 DEF ToolsTypes
  <2>3. ToolsTypes' BY <1>a, <2>0, <2>1, <2>2 DEF ToolsTypes
  <2>4. ReadSoFar' BY <2>2 DEF ReadSoFar
  <2> QED BY <1>b, <1>2, <2>0, <2>3, <2>4
<1>11. ASSUME NEW p \in Products, Tools!ReadPage(p) PROVE ToolsInv'
  <2> DEFINE n == read[p].page
             s == stock[p]
  <2>0. /\ asking = "stock" /\ read[p].state = "pages"
        /\ read' = [read EXCEPT ![p] = [page |-> n + 1, infos |-> read[p].infos \o Tools!Page(p, n),
                                        state |-> IF Tools!More(p, n) THEN "pages" ELSE "ok"]]
        /\ UNCHANGED <<tool, phone, wanted, phoneOf, stock, changes, asking, reason, answer>>
    BY <1>11 DEF Tools!ReadPage, Tools!call
  <2>1. /\ n \in 0 .. MaxPages - 1 /\ s \in Seq(Infos) /\ Len(s) \in Nat /\ read[p].infos \in Seq(Infos)
    BY <1>a, <1>b, <2>0, StockIsSeq, LenProperties DEF ToolsTypes, Tools!Read
  <2>n. n \in Nat /\ n + 1 \in Nat /\ n < MaxPages BY <1>p, <2>1
  <2>2. n * PageSize \in Nat /\ (n + 1) * PageSize \in Nat BY <1>p, <2>n, ProductIsNat
  <2>3. Tools!Page(p, n) = SubSeq(s, n * PageSize + 1, Upto((n + 1) * PageSize, Len(s)))
    BY DEF Tools!Page, Upto
  <2>4. Tools!Page(p, n) \in Seq(Infos)
    <3>1. Upto((n + 1) * PageSize, Len(s)) \in Nat /\ Upto((n + 1) * PageSize, Len(s)) <= Len(s)
      BY <2>1, <2>2 DEF Upto
    <3>2. \A i \in (n * PageSize + 1) .. Upto((n + 1) * PageSize, Len(s)) : s[i] \in Infos
      <4> TAKE i \in (n * PageSize + 1) .. Upto((n + 1) * PageSize, Len(s))
      <4>1. i \in 1 .. Len(s)
        <5> DEFINE a == n * PageSize
                   b == Upto((n + 1) * PageSize, Len(s))
        <5>1. a \in Nat /\ b \in Nat /\ b <= Len(s) /\ i \in (a + 1) .. b BY <2>2, <3>1
        <5> HIDE DEF a, b, n, s
        <5> QED BY <2>1, <5>1
      <4> QED BY <2>1, <4>1, ElementOfSeq
    <3> HIDE DEF n, s
    <3> QED BY <2>2, <2>3, <3>1, <3>2, SubSeqProperties
  <2>5. read[p].infos \o Tools!Page(p, n) \in Seq(Infos) BY <2>1, <2>4, ConcatProperties
  <2>6. ToolsTypes'
    <3>1. [page |-> n + 1, infos |-> read[p].infos \o Tools!Page(p, n),
           state |-> IF Tools!More(p, n) THEN "pages" ELSE "ok"] \in Tools!Read
      BY <2>1, <2>5 DEF Tools!Read
    <3> QED BY <1>a, <2>0, <3>1 DEF ToolsTypes
  <2>7. /\ read'[p] = [page |-> n + 1, infos |-> read[p].infos \o Tools!Page(p, n),
                       state |-> IF Tools!More(p, n) THEN "pages" ELSE "ok"]
        /\ \A q \in Products \ {p} : read'[q] = read[q]
    BY <1>a, <2>0 DEF ToolsTypes
  <2>8. \A q \in Products : read'[q].state = "pages" => read'[q].page < MaxPages
    <3> SUFFICES ASSUME NEW q \in Products, read'[q].state = "pages" PROVE read'[q].page < MaxPages OBVIOUS
    <3>1. CASE q # p BY <1>b, <2>7, <3>1
    <3>2. CASE q = p
      <4>1. Tools!More(p, n) /\ read'[p].page = n + 1 BY <2>7, <3>2
      <4>2. n + 1 < MaxPages BY <4>1 DEF Tools!More
      <4> QED BY <3>2, <4>1, <4>2
    <3> QED BY <3>1, <3>2
  <2>9. ReadSoFar'
    <3> SUFFICES ASSUME changes = 0, NEW q \in Products
                 PROVE  /\ read'[q].infos = SubSeq(stock[q], 1, Upto(read'[q].page * PageSize, Len(stock[q])))
                        /\ read'[q].state = "pages" /\ read'[q].page # 0 =>
                             read'[q].page * PageSize < Len(stock[q])
                        /\ read'[q].state = "ok" =>
                             Len(stock[q]) <= read'[q].page * PageSize \/ read'[q].page = MaxPages
      BY <2>0 DEF ReadSoFar
    <3>1. CASE q # p BY <1>b, <2>7, <3>1 DEF ReadSoFar
    <3>2. CASE q = p
      <4>1. read[p].infos = SubSeq(s, 1, Upto(n * PageSize, Len(s))) /\ (n # 0 => n * PageSize < Len(s))
        BY <1>b, <2>0 DEF ReadSoFar
      <4>2. read'[p].infos = SubSeq(s, 1, Upto((n + 1) * PageSize, Len(s)))
        <5> HIDE DEF n, s
        <5>1. read'[p].infos = read[p].infos \o Tools!Page(p, n) BY <2>7
        <5>2. n = 0 \/ n * PageSize < Len(s) BY <4>1
        <5> QED BY <1>p, <2>n, <2>1, <2>3, <4>1, <5>1, <5>2, OnePageMore
      <4>3. read'[p].page = n + 1 BY <2>7
      <4>4. read'[p].state = "pages" => (n + 1) * PageSize < Len(s) BY <2>7 DEF Tools!More, Tools!HasNext
      <4>5. read'[p].state = "ok" => Len(s) <= (n + 1) * PageSize \/ n + 1 = MaxPages
        <5> SUFFICES ASSUME ~Tools!More(p, n) PROVE Len(s) <= (n + 1) * PageSize \/ n + 1 = MaxPages BY <2>7
        <5>1. ~((n + 1) * PageSize < Len(s)) \/ ~(n + 1 < MaxPages) BY DEF Tools!More, Tools!HasNext
        <5> DEFINE b == (n + 1) * PageSize
        <5>2. b \in Nat BY <2>2
        <5> HIDE DEF b, n, s
        <5>3. ~(b < Len(s)) => Len(s) <= b BY <2>1, <5>2
        <5>4. ~(n + 1 < MaxPages) => n + 1 = MaxPages BY <1>p, <2>n
        <5> QED BY <5>1, <5>3, <5>4 DEF b
      <4> QED BY <3>2, <4>2, <4>3, <4>4, <4>5
    <3> QED BY <3>1, <3>2
  <2> QED BY <1>2, <2>0, <2>6, <2>8, <2>9
<1>12. ASSUME NEW p \in Products, Tools!ReadFails(p) PROVE ToolsInv'
  <2>0. /\ asking = "stock" /\ read' = [read EXCEPT ![p].state = "failed"]
        /\ UNCHANGED <<tool, phone, wanted, phoneOf, stock, changes, asking, reason, answer>>
    BY <1>12 DEF Tools!ReadFails, Tools!call
  <2>1. /\ read'[p].page = read[p].page /\ read'[p].infos = read[p].infos /\ read'[p].state = "failed"
        /\ \A q \in Products \ {p} : read'[q] = read[q]
    BY <1>a, <2>0 DEF ToolsTypes, Tools!Read
  <2>2. ToolsTypes' BY <1>a, <2>0 DEF ToolsTypes, Tools!Read
  <2>3. \A q \in Products : read'[q].state = "pages" => read'[q].page < MaxPages BY <1>b, <2>1
  <2>4. ReadSoFar' BY <1>b, <2>0, <2>1 DEF ReadSoFar
  <2> QED BY <1>2, <2>0, <2>2, <2>3, <2>4
<1>13. CASE UNCHANGED Tools!vars
  <2>0. UNCHANGED <<tool, phone, wanted, phoneOf, stock, changes, asking, read, reason, answer>>
    BY <1>13 DEF Tools!vars, Tools!call
  <2>1. ToolsTypes' BY <1>a, <2>0 DEF ToolsTypes
  <2>2. ReadSoFar' /\ Tools!OwnOrders' /\ Tools!NotDenied'
    BY <1>b, <2>0 DEF ReadSoFar, Tools!OwnOrders, Tools!NotDenied
  <2>3. ShownAsRead' BY <1>b, <2>0 DEF ShownAsRead
  <2> QED BY <1>b, <1>c, <2>0, <2>1, <2>2, <2>3 DEF ToolsInv
<1> QED BY <1>3, <1>4, <1>5, <1>6, <1>7, <1>8, <1>9, <1>10, <1>11, <1>12, <1>13 DEF Tools!Next, Tools!Done

LEMMA ToolsHold == ToolsInv => Tools!StockComplete /\ Tools!FailureIsUnknown
<1> SUFFICES ASSUME ToolsInv PROVE Tools!StockComplete /\ Tools!FailureIsUnknown OBVIOUS
<1> USE RequestsAssumption DEF Tools!CatalogAssumption
<1>a. ToolsTypes BY ToolsTypesAgree DEF ToolsInv
<1>b. ReadSoFar /\ ShownAsRead BY DEF ToolsInv
<1>1. Tools!FailureIsUnknown
  <2> SUFFICES ASSUME answer.kind = "products", NEW p \in Products
               PROVE  (read[p].state = "failed") <=> (answer.of[p].stock = "unknown")
    BY DEF Tools!FailureIsUnknown
  <2>1. answer.of[p] = Tools!Trim(read[p]) BY <1>b DEF ShownAsRead
  <2> QED BY <2>1 DEF Tools!Trim
<1>2. Tools!StockComplete
  <2> SUFFICES ASSUME answer.kind = "products", changes = 0, NEW p \in Products,
                      answer.of[p].stock # "unknown", Len(stock[p]) <= PageSize * MaxPages
               PROVE  LET mine == {i \in Tools!ToSet(stock[p]) : i.storage = Storage}
                      IN  /\ answer.of[p].stock = "in" <=> \E i \in mine : i.quantity > 0
                          /\ answer.of[p].prices = {i.price : i \in mine} \ {0}
    BY DEF Tools!StockComplete
  <2>1. answer.of[p] = Tools!Trim(read[p]) /\ read[p].state # "pages" BY <1>b DEF ShownAsRead
  <2>2. read[p].state # "failed" BY <2>1 DEF Tools!Trim
  <2>3. read[p] \in Tools!Read /\ stock[p] \in Seq(Infos) /\ Len(stock[p]) \in Nat
    BY <1>a, StockIsSeq, LenProperties DEF ToolsTypes
  <2>4. read[p].state = "ok" /\ read[p].page \in Nat BY <2>1, <2>2, <2>3 DEF Tools!Read
  <2>5. Len(stock[p]) <= read[p].page * PageSize
    <3>1. Len(stock[p]) <= read[p].page * PageSize \/ read[p].page = MaxPages BY <1>b, <2>4 DEF ReadSoFar
    <3>2. MaxPages * PageSize = PageSize * MaxPages OBVIOUS
    <3> QED BY <3>1, <3>2
  <2>6. Upto(read[p].page * PageSize, Len(stock[p])) = Len(stock[p])
    <3>1. read[p].page * PageSize \in Nat BY <2>4
    <3> QED BY <2>3, <2>5, <3>1 DEF Upto
  <2>7. read[p].infos = stock[p] BY <1>b, <2>3, <2>6, SubSeqFull DEF ReadSoFar
  <2> DEFINE shown == {stock[p][k] : k \in {k \in DOMAIN stock[p] : stock[p][k].storage = Storage}}
             mine == {i \in Tools!ToSet(stock[p]) : i.storage = Storage}
  <2>8. shown = mine BY DEF Tools!ToSet
  <2>9. answer.of[p] = [stock |-> IF \E i \in shown : i.quantity > 0 THEN "in" ELSE "out",
                        prices |-> {i.price : i \in shown} \ {0}]
    BY <2>1, <2>2, <2>7 DEF Tools!Trim
  <2> HIDE DEF shown, mine
  <2>10. /\ answer.of[p].stock = "in" <=> \E i \in mine : i.quantity > 0
         /\ answer.of[p].prices = {i.price : i \in mine} \ {0}
    BY <2>8, <2>9
  <2> QED BY <2>10 DEF mine
<1> QED BY <1>1, <1>2

\* The tools, for any orders, phones, products and pages: a customer hears of the orders of the same
\* number only, none is denied by a catalog that failed, and the stock shown is all that was read.
THEOREM ToolsAreSound ==
  Tools!Spec => [](ToolsInv /\ Tools!StockComplete /\ Tools!FailureIsUnknown)
<1>1. ToolsInv => ToolsInv /\ Tools!StockComplete /\ Tools!FailureIsUnknown BY ToolsHold
<1> QED BY ToolsStart, ToolsSteps, <1>1, PTL DEF Tools!Spec

-----------------------------------------------------------------------------
(* A turn of the chat. *)

\* How far the handler has come: what was asked so far, and why it asks again.
ChatPath ==
  /\ phase \in {"check", "first"} => asked = <<>>
  /\ phase = "force" => Len(asked) = 1 /\ tools /\ toolChoice # "none" /\ role = "user"
  /\ phase = "retry" => Len(asked) \in 1 .. 2
  /\ phase = "answer" /\ Chat!EmptyReply(data) /\ route # "sales" => Len(asked) >= 2
  /\ response.kind # "none" => phase = "done"

ChatInv ==
  Chat!TypeOK /\ ChatPath /\ Chat!ChoiceRespected /\ Chat!CallsMatchable /\ Chat!ExcusedAfterRetry

\* What TypeOK says, with the length of `asked`.
ChatTypes ==
  /\ route \in Chat!Routes /\ toolChoice \in Chat!ToolChoices /\ tools \in BOOLEAN
  /\ role \in {"user", "tool"}
  /\ phase \in {"check", "first", "force", "retry", "answer", "done"}
  /\ asked \in Seq(Chat!ToolChoices) /\ Len(asked) <= 3
  /\ data \in Chat!Message \cup {Chat!Malformed}
  /\ response.kind \in {"none", "error", "calls", "text", "fallback"}

LEMMA ChatTypesAgree == Chat!TypeOK <=> ChatTypes
<1>1. \A S, n : Chat!BoundedSeq(S, n) = BoundedSeq(S, n) BY DEF Chat!BoundedSeq, Chat!SeqOf, BoundedSeq, SeqOf
<1>2. asked \in Chat!BoundedSeq(Chat!ToolChoices, 3) <=> asked \in Seq(Chat!ToolChoices) /\ Len(asked) <= 3
  BY <1>1, BoundedIsSeq
<1> QED BY <1>2 DEF Chat!TypeOK, ChatTypes

LEMMA ChatStarts == Chat!Init => ChatInv
<1> SUFFICES ASSUME Chat!Init PROVE ChatInv OBVIOUS
<1>0. /\ route \in Chat!Routes /\ toolChoice \in Chat!ToolChoices /\ tools \in BOOLEAN
      /\ role \in {"user", "tool"} /\ phase \in {"check", "first"}
      /\ asked = <<>> /\ data = Chat!Malformed /\ response = [kind |-> "none"]
  BY DEF Chat!Init, Chat!NoAnswer
<1>1. asked \in Seq(Chat!ToolChoices) /\ Len(asked) = 0 BY <1>0, EmptySeq
<1>2. ChatTypes BY <1>0, <1>1 DEF ChatTypes
<1>3. ChatPath BY <1>0 DEF ChatPath
<1>4. Chat!ChoiceRespected BY <1>1 DEF Chat!ChoiceRespected
<1>5. response.kind # "calls" /\ response # Chat!Fallback BY <1>0 DEF Chat!Fallback
<1> QED BY <1>2, <1>3, <1>4, <1>5, ChatTypesAgree DEF ChatInv, Chat!CallsMatchable, Chat!ExcusedAfterRetry

\* The ids of an answer are those of good calls, each unlike all before it, or new ones.
LEMMA IdsDiffer ==
  ASSUME NEW calls \in Seq([good : BOOLEAN, id : Ids]), NEW j \in 1 .. Len(calls), NEW k \in 1 .. Len(calls),
         Chat!IdOf(calls, j) = Chat!IdOf(calls, k)
  PROVE  j = k
<1> USE RequestsAssumption DEF Chat!ChatAssumption
<1>1. SUFFICES ASSUME NEW a \in 1 .. Len(calls), NEW b \in 1 .. Len(calls), a < b,
                      Chat!IdOf(calls, a) = Chat!IdOf(calls, b)
               PROVE  FALSE
  BY LenProperties
<1>2. \A i \in 1 .. Len(calls) : calls[i].id \in Ids /\ calls[i].id # <<"new", a>> /\ calls[i].id # <<"new", b>>
  <2> TAKE i \in 1 .. Len(calls)
  <2>1. calls[i] \in [good : BOOLEAN, id : Ids] BY ElementOfSeq
  <2>2. <<"new", a>> \in {"new"} \X Nat /\ <<"new", b>> \in {"new"} \X Nat BY LenProperties
  <2> QED BY <2>1, <2>2
<1>3. CASE Chat!IdOf(calls, b) = calls[b].id /\ \A i \in 1 .. (b - 1) : calls[i].id # calls[b].id
  <2>1. a \in 1 .. (b - 1) BY <1>1, LenProperties
  <2>2. Chat!IdOf(calls, a) # calls[a].id BY <1>1, <1>3, <2>1
  <2>3. Chat!IdOf(calls, a) = <<"new", a>> BY <2>2 DEF Chat!IdOf
  <2> QED BY <1>1, <1>2, <1>3, <2>3
<1>4. CASE Chat!IdOf(calls, b) = <<"new", b>>
  <2>1. Chat!IdOf(calls, a) = calls[a].id \/ Chat!IdOf(calls, a) = <<"new", a>> BY DEF Chat!IdOf
  <2>2. <<"new", a>> # <<"new", b>> BY <1>1
  <2> QED BY <1>1, <1>2, <1>4, <2>1, <2>2
<1> QED BY <1>3, <1>4 DEF Chat!IdOf

LEMMA AnswerIsWhole ==
  ASSUME NEW d \in Chat!Message \cup {Chat!Malformed}, NEW a, a = Chat!ToAnswer(d), a.kind = "calls"
  PROVE  /\ Len(a.ids) = Len(d.calls)
         /\ \A j, k \in DOMAIN a.ids : a.ids[j] = a.ids[k] => j = k
<1>1. d.calls \in Seq([good : BOOLEAN, id : Ids])
  <2>1. CASE d \in Chat!Message BY <2>1, RequestsAssumption DEF Chat!ChatAssumption, Chat!Message
  <2>2. CASE d = Chat!Malformed BY <2>2, EmptySeq DEF Chat!Malformed
  <2> QED BY <2>1, <2>2
<1>2. a = [kind |-> "calls", ids |-> Chat!Normalized(d.calls)] /\ Chat!Normalized(d.calls) # <<>>
  BY DEF Chat!ToAnswer, Chat!Fallback
<1>3. Chat!Normalized(d.calls) = [k \in 1 .. Len(d.calls) |-> Chat!IdOf(d.calls, k)]
  BY <1>2 DEF Chat!Normalized
<1>4. Len(d.calls) \in Nat BY <1>1, LenProperties
<1>5. Len(a.ids) = Len(d.calls) /\ DOMAIN a.ids = 1 .. Len(d.calls) BY <1>2, <1>3, <1>4
<1>6. \A k \in 1 .. Len(d.calls) : a.ids[k] = Chat!IdOf(d.calls, k) BY <1>2, <1>3
<1>7. ASSUME NEW j \in DOMAIN a.ids, NEW k \in DOMAIN a.ids, a.ids[j] = a.ids[k] PROVE j = k
  <2>1. j \in 1 .. Len(d.calls) /\ k \in 1 .. Len(d.calls) BY <1>5
  <2>2. Chat!IdOf(d.calls, j) = Chat!IdOf(d.calls, k) BY <1>6, <1>7, <2>1
  <2> QED BY <1>1, <2>1, <2>2, IdsDiffer
<1> QED BY <1>5, <1>7

LEMMA ChatSteps == ChatInv /\ [Chat!Next]_(Chat!vars) => ChatInv'
<1> SUFFICES ASSUME ChatInv, [Chat!Next]_(Chat!vars) PROVE ChatInv' OBVIOUS
<1>a. ChatTypes BY ChatTypesAgree DEF ChatInv
<1>b. ChatPath /\ Chat!ChoiceRespected /\ Chat!CallsMatchable /\ Chat!ExcusedAfterRetry BY DEF ChatInv
<1>c. ASSUME ChatTypes' PROVE Chat!TypeOK'
  <2>1. \A S, n : Chat!BoundedSeq(S, n) = BoundedSeq(S, n) BY DEF Chat!BoundedSeq, Chat!SeqOf, BoundedSeq, SeqOf
  <2>2. asked' \in Chat!BoundedSeq(Chat!ToolChoices, 3) <=> asked' \in Seq(Chat!ToolChoices) /\ Len(asked') <= 3
    BY <2>1, BoundedIsSeq
  <2> QED BY <1>c, <2>2 DEF Chat!TypeOK, ChatTypes
<1>1. ASSUME NEW e, phase # "done", Chat!Fail(e) PROVE ChatInv'
  <2>0. /\ phase' = "done" /\ response' = [kind |-> "error", code |-> e]
        /\ UNCHANGED <<route, toolChoice, tools, role, asked, data>>
    BY <1>1 DEF Chat!Fail, Chat!request
  <2>1. ChatTypes' BY <1>a, <2>0 DEF ChatTypes
  <2>2. ChatPath' BY <2>0 DEF ChatPath
  <2>3. Chat!ChoiceRespected' BY <1>b, <2>0 DEF Chat!ChoiceRespected
  <2>4. response'.kind = "error" /\ response' # Chat!Fallback BY <2>0 DEF Chat!Fallback
  <2> QED BY <1>c, <2>1, <2>2, <2>3, <2>4 DEF ChatInv, Chat!CallsMatchable, Chat!ExcusedAfterRetry
<1>2. CASE Chat!CheckPasses
  <2>0. phase = "check" /\ phase' = "first" /\ UNCHANGED <<route, toolChoice, tools, role, asked, data, response>>
    BY <1>2 DEF Chat!CheckPasses, Chat!request
  <2>1. ChatTypes' BY <1>a, <2>0 DEF ChatTypes
  <2>2. ChatPath' BY <1>b, <2>0 DEF ChatPath
  <2>3. Chat!ChoiceRespected' BY <1>b, <2>0 DEF Chat!ChoiceRespected
  <2>4. response'.kind # "calls" /\ response' # Chat!Fallback
    BY <1>a, <1>b, <2>0 DEF ChatPath, ChatTypes, Chat!Fallback
  <2> QED BY <1>c, <2>1, <2>2, <2>3, <2>4 DEF ChatInv, Chat!CallsMatchable, Chat!ExcusedAfterRetry
<1>3. CASE Chat!CheckRefuses BY <1>1, <1>3 DEF Chat!CheckRefuses
<1>4. CASE Chat!GenerationFails BY <1>1, <1>4 DEF Chat!GenerationFails, Chat!Generating
<1>5. CASE Chat!Generate
  <2>0. phase \in {"first", "force", "retry"} BY <1>5 DEF Chat!Generate, Chat!Generating
  <2>1. PICK d \in Chat!Replies : data' = d /\ phase' = Chat!After(d) BY <1>5 DEF Chat!Generate
  <2>2. asked' = Append(asked, Chat!ChoiceNow) /\ UNCHANGED <<route, toolChoice, tools, role, response>>
    BY <1>5 DEF Chat!Generate, Chat!request
  <2>3. Chat!ChoiceNow \in Chat!ToolChoices
    BY <1>a, <2>0 DEF ChatTypes, Chat!ChoiceNow, Chat!RetryChoice, Chat!ToolChoices
  <2>4. /\ asked' \in Seq(Chat!ToolChoices) /\ Len(asked') = Len(asked) + 1
        /\ asked'[Len(asked) + 1] = Chat!ChoiceNow /\ \A k \in 1 .. Len(asked) : asked'[k] = asked[k]
    BY <1>a, <2>2, <2>3, AppendProperties DEF ChatTypes
  <2>5. Len(asked) \in 0 .. 2 /\ (phase # "first" => Len(asked) >= 1) /\ (phase = "first" => Len(asked) = 0)
    BY <1>b, <2>0 DEF ChatPath
  <2>6. /\ phase' \in {"force", "retry", "answer"}
        /\ phase' = "force" => /\ phase = "first" /\ tools /\ toolChoice # "none" /\ role = "user"
        /\ phase' = "retry" => phase # "retry"
        /\ phase' = "answer" /\ Chat!EmptyReply(d) /\ route # "sales" => phase = "retry"
    BY <2>0, <2>1 DEF Chat!After, Chat!Described, Chat!Retries
  <2>7. ChatTypes'
    <3>1. data' \in Chat!Message \cup {Chat!Malformed} BY <2>1 DEF Chat!Replies
    <3> QED BY <1>a, <2>2, <2>4, <2>5, <2>6, <3>1 DEF ChatTypes
  <2>8. Chat!EmptyReply(data)' <=> Chat!EmptyReply(d)
    BY <2>1
  <2>9. response.kind = "none" BY <1>a, <1>b, <2>0 DEF ChatPath, ChatTypes
  <2>10. ChatPath'
    <3>1. phase = "force" => Len(asked) = 1 BY <1>b DEF ChatPath
    <3> QED BY <2>0, <2>1, <2>2, <2>4, <2>5, <2>6, <2>8, <2>9, <3>1 DEF ChatPath
  <2>11. Chat!ChoiceRespected'
    <3> SUFFICES ASSUME NEW k \in 1 .. Len(asked')
                 PROVE  /\ toolChoice = "none" => asked'[k] = "none"
                        /\ asked'[k] = "required" => toolChoice = "required" \/ (role = "user" /\ tools)
                        /\ k > 1 /\ role = "tool" => asked'[k] = "none"
      BY <2>2 DEF Chat!ChoiceRespected
    <3>1. CASE k \in 1 .. Len(asked) BY <1>b, <2>4, <3>1 DEF Chat!ChoiceRespected
    <3>2. CASE k = Len(asked) + 1
      <4>1. asked'[k] = Chat!ChoiceNow BY <2>4, <3>2
      <4>2. CASE phase = "first" BY <2>5, <3>2, <4>1, <4>2 DEF Chat!ChoiceNow
      <4>3. CASE phase = "force" BY <1>a, <1>b, <4>1, <4>3 DEF Chat!ChoiceNow, ChatPath, ChatTypes
      <4>4. CASE phase = "retry" BY <1>a, <4>1, <4>4 DEF Chat!ChoiceNow, Chat!RetryChoice, ChatTypes
      <4> QED BY <2>0, <4>2, <4>3, <4>4
    <3> QED BY <2>4, <2>5, <3>1, <3>2
  <2>12. response'.kind # "calls" /\ response' # Chat!Fallback BY <2>2, <2>9 DEF Chat!Fallback
  <2> QED BY <1>c, <2>7, <2>10, <2>11, <2>12 DEF ChatInv, Chat!CallsMatchable, Chat!ExcusedAfterRetry
<1>6. CASE Chat!Respond
  <2>0. /\ phase = "answer" /\ phase' = "done" /\ response' = Chat!ToAnswer(data)
        /\ UNCHANGED <<route, toolChoice, tools, role, asked, data>>
    BY <1>6 DEF Chat!Respond, Chat!request
  <2>1. response'.kind \in {"calls", "text", "fallback"} BY <2>0 DEF Chat!ToAnswer, Chat!Fallback
  <2>2. ChatTypes' BY <1>a, <2>0, <2>1 DEF ChatTypes
  <2>3. ChatPath' BY <2>0 DEF ChatPath
  <2>4. Chat!ChoiceRespected' BY <1>b, <2>0 DEF Chat!ChoiceRespected
  <2>5. Chat!CallsMatchable' BY <1>a, <2>0, AnswerIsWhole DEF Chat!CallsMatchable, ChatTypes
  <2>6. Chat!EmptyReply(data)' <=> Chat!EmptyReply(data)
    BY <2>0 DEF Chat!EmptyReply, Chat!Malformed
  <2>7. Chat!ExcusedAfterRetry' BY <1>b, <2>0, <2>6 DEF Chat!ExcusedAfterRetry, ChatPath
  <2> QED BY <1>c, <2>2, <2>3, <2>4, <2>5, <2>7 DEF ChatInv
<1>7. CASE UNCHANGED Chat!vars
  <2>0. UNCHANGED <<route, toolChoice, tools, role, phase, asked, data, response>>
    BY <1>7 DEF Chat!vars, Chat!request
  <2>1. ChatTypes' BY <1>a, <2>0 DEF ChatTypes
  <2>2. Chat!EmptyReply(data)' <=> Chat!EmptyReply(data)
    BY <2>0 DEF Chat!EmptyReply, Chat!Malformed
  <2>3. ChatPath' /\ Chat!ExcusedAfterRetry' BY <1>b, <2>0, <2>2 DEF ChatPath, Chat!ExcusedAfterRetry
  <2>4. Chat!ChoiceRespected' /\ Chat!CallsMatchable' BY <1>b, <2>0 DEF Chat!ChoiceRespected, Chat!CallsMatchable
  <2> QED BY <1>c, <2>1, <2>3, <2>4 DEF ChatInv
<1> QED BY <1>2, <1>3, <1>4, <1>5, <1>6, <1>7 DEF Chat!Next, Chat!Done

\* A turn of the chat, for any texts and calls of the model: the caller's choice holds over every
\* generation, ids tell calls apart, and the excuse comes only after a second try.
THEOREM ChatIsSound == Chat!Spec => []ChatInv
BY ChatStarts, ChatSteps, PTL DEF Chat!Spec

-----------------------------------------------------------------------------
(* All parts. *)

\* The run moves one part at a time; each part then behaves as its own specification says.
LEMMA TurnsAreTogether == InTurns => Together
<1>1. TurnInit => /\ Init /\ Files!Init /\ Import!Init /\ Intake!Init
                  /\ Audio!Init /\ Tools!Init /\ Operator!Init /\ Chat!Init
  BY DEF TurnInit
<1>2. ASSUME [TurnNext]_allVars
      PROVE  /\ [Next]_vars /\ [Files!Next]_(Files!vars) /\ [Import!Next]_(Import!vars)
             /\ [Intake!Next]_(Intake!vars) /\ [Audio!Next]_(Audio!vars) /\ [Tools!Next]_(Tools!vars)
             /\ [Operator!Next]_(Operator!vars) /\ [Chat!Next]_(Chat!vars)
  <2>2. CASE UNCHANGED allVars
    BY <2>2 DEF allVars, vars, outcomeVars, importVars, orderVars, audioVars, toolVars, operatorVars, chatVars,
                Files!vars, Import!vars, Import!disk, Intake!vars, Intake!request, Audio!vars,
                Tools!vars, Tools!call, Operator!vars, Chat!vars, Chat!request
  <2>3. CASE TurnNext
    <3>1. Next \/ UNCHANGED vars BY <2>3 DEF TurnNext
    <3>2. Files!Next \/ UNCHANGED outcomeVars BY <2>3 DEF TurnNext
    <3>3. Import!Next \/ UNCHANGED importVars BY <2>3 DEF TurnNext
    <3>4. Intake!Next \/ UNCHANGED orderVars BY <2>3 DEF TurnNext
    <3>5. Audio!Next \/ UNCHANGED audioVars BY <2>3 DEF TurnNext
    <3>6. Tools!Next \/ UNCHANGED toolVars BY <2>3 DEF TurnNext
    <3>7. Operator!Next \/ UNCHANGED operatorVars BY <2>3 DEF TurnNext
    <3>8. Chat!Next \/ UNCHANGED chatVars BY <2>3 DEF TurnNext
    <3>9. /\ outcomeVars' = outcomeVars => UNCHANGED Files!vars
          /\ importVars' = importVars => UNCHANGED Import!vars
          /\ orderVars' = orderVars => UNCHANGED Intake!vars
          /\ audioVars' = audioVars => UNCHANGED Audio!vars
          /\ toolVars' = toolVars => UNCHANGED Tools!vars
          /\ operatorVars' = operatorVars => UNCHANGED Operator!vars
          /\ chatVars' = chatVars => UNCHANGED Chat!vars
      BY DEF outcomeVars, importVars, orderVars, audioVars, toolVars, operatorVars, chatVars,
             Files!vars, Import!vars, Import!disk, Intake!vars, Intake!request, Audio!vars,
             Tools!vars, Tools!call, Operator!vars, Chat!vars, Chat!request
    <3> QED BY <3>1, <3>2, <3>3, <3>4, <3>5, <3>6, <3>7, <3>8, <3>9
  <2> QED BY <1>2, <2>2, <2>3
<1> QED BY <1>1, <1>2, PTL DEF InTurns, Together, Spec, Files!Spec, Import!Spec, Intake!Spec, Audio!Spec,
                               Tools!Spec, Operator!Spec, Chat!Spec

\* The tools tell customer and operator the truth, whatever the other parts do meanwhile
\* (call_tools.py:261-289, catalog.py:178-307, operator.py:278-286).
THEOREM ToolsTellTheTruth == Together => []ToolsAreTrue
<1>1. ToolsInv /\ Tools!StockComplete /\ Tools!FailureIsUnknown /\ OperatorInv => ToolsAreTrue
  BY DEF ToolsInv, OperatorInv, ToolsAreTrue
<1> QED BY ToolsAreSound, OperatorIsSound, <1>1, PTL DEF Together

\* A conversation is one that model and caller accept (operator.py:278-286,
\* openai_compat/router.py:209-314).
THEOREM ConversationStaysValid == Together => []ConversationIsValid
<1>1. Operator!ResultsFollowCalls /\ ChatInv => ConversationIsValid
  BY DEF ChatInv, ConversationIsValid
<1> QED BY ChatIsSound, OperatorIsSound, <1>1, PTL DEF Together
=============================================================================
