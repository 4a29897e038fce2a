------------------------------- MODULE Splitter -------------------------------
(***************************************************************************)
(* SentenceSplitter (app/features/voice_followup/stream.py): the text of   *)
(* the model comes in tokens of any length and is cut into phrases that    *)
(* are spoken one by one.  A phrase is told by the place of its end; the   *)
(* blanks around it are not spoken.  The limits of the code are constants  *)
(* here, because what matters is their order.                              *)
(***************************************************************************)
EXTENDS Naturals, Sequences, SequencesExt

CONSTANTS
  MinChars, MaxChars,  \* min_chars, max_chars
  FirstChars,          \* first_chars, for the first phrase
  Intro,               \* max(min_chars, 24): no clause before it is a first phrase
  MaxText              \* bound of the run: characters of a reply

SplitterAssumption ==
  /\ {MinChars, MaxChars, FirstChars, Intro, MaxText} \subseteq Nat \ {0}
  /\ MinChars <= Intro /\ Intro <= FirstChars /\ FirstChars < MaxChars

\* What the signs of the text are to the code; a mark is any other sign that ends a sentence.
Chars == {"letter", "digit", "stop", "comma", "blank", "mark"}
Tokens == UNION {[1..n -> Chars] : n \in 1..2}

VARIABLES
  text,     \* what has been fed
  cuts,     \* where phrases end; the buffer is the text after the last
  first,    \* _first is set: no phrase has been said
  flushed

vars == <<text, cuts, first, flushed>>

From(k) == IF k = 1 THEN 1 ELSE cuts[k - 1] + 1
Start == From(Len(cuts) + 1)
Buf == SubSeq(text, Start, Len(text))
Raw(k) == SubSeq(text, From(k), cuts[k])
IsBlank(s) == ToSet(s) \subseteq {"blank"}
Inked(s) == {i \in DOMAIN s : s[i] # "blank"}

\* s.strip()
Strip(s) == IF IsBlank(s) THEN <<>>
            ELSE LET on == Inked(s) IN SubSeq(s, CHOOSE i \in on : \A j \in on : i <= j,
                                                 CHOOSE i \in on : \A j \in on : j <= i)

TypeOK ==
  /\ text \in Seq(Chars) /\ Len(text) <= MaxText /\ {first, flushed} \subseteq BOOLEAN
  /\ \A k \in DOMAIN cuts : cuts[k] \in From(k)..Len(text)
  /\ first => \A k \in DOMAIN cuts : flushed \/ IsBlank(Raw(k))

Init == text = <<>> /\ cuts = <<>> /\ first = TRUE /\ flushed = FALSE

-----------------------------------------------------------------------------
Limit == IF first THEN FirstChars ELSE MaxChars
AtMost(S, n) == {i \in S : i <= n}
Smallest(S) == CHOOSE i \in S : \A j \in S : i <= j
Greatest(S) == CHOOSE i \in S : \A j \in S : j <= i
Blanks == {i \in DOMAIN Buf : Buf[i] = "blank"}

\* The first clause, if it is long enough to be worth a phrase of its own.
Clauses == IF first THEN {i \in Intro..Limit : i \in DOMAIN Buf /\ Buf[i] = "comma"} ELSE {}

\* Ends of sentences; after a digit at the end of the buffer a full stop may be a decimal point.
Sentences ==
  {i \in DOMAIN Buf : /\ \/ Buf[i] = "mark" /\ (i < Len(Buf) => Buf[i + 1] # "mark")
                         \/ /\ Buf[i] = "stop" /\ (i < Len(Buf) => Buf[i + 1] # "digit")
                            /\ ~(i = Len(Buf) /\ i > 1 /\ Buf[i - 1] = "digit")
                      /\ i <= Limit /\ Len(Strip(SubSeq(Buf, 1, i))) >= MinChars}

\* A buffer over the limit: the last blank before it, else the next one, else the hard cap.
Forced ==
  IF Len(Buf) <= Limit THEN 0
  ELSE IF AtMost(Blanks, Limit + 1) # {} THEN Greatest(AtMost(Blanks, Limit + 1))
  ELSE IF AtMost(Blanks, MaxChars) # {} THEN Smallest(AtMost(Blanks, MaxChars))
  ELSE IF Len(Buf) > MaxChars THEN MaxChars ELSE 0

\* Where the buffer is cut next; 0 is nowhere.
Cut == IF Clauses # {} THEN Smallest(Clauses) ELSE IF Sentences # {} THEN Smallest(Sentences) ELSE Forced

-----------------------------------------------------------------------------
Feed ==
  /\ ~flushed /\ Cut = 0
  /\ \E token \in Tokens : Len(text) + Len(token) <= MaxText /\ text' = text \o token
  /\ UNCHANGED <<cuts, first, flushed>>

\* One round of the loop in feed.
Split ==
  /\ ~flushed /\ Cut # 0 /\ cuts' = Append(cuts, Start + Cut - 1)
  /\ first' = (first /\ IsBlank(SubSeq(Buf, 1, Cut)))
  /\ UNCHANGED <<text, flushed>>

Flush ==
  /\ ~flushed /\ Cut = 0 /\ flushed' = TRUE
  /\ cuts' = (IF IsBlank(Buf) THEN cuts ELSE Append(cuts, Len(text)))
  /\ UNCHANGED <<text, first>>

Next == Feed \/ Split \/ Flush

Spec == Init /\ [][Next]_vars

-----------------------------------------------------------------------------
\* A word without a blank that is longer than the hard cap.
IsHard(k) == Len(Raw(k)) = MaxChars /\ "blank" \notin ToSet(Raw(k))
IsWhole(k) == cuts[k] = Len(text) /\ flushed

\* However the tokens fall, a phrase does not end in the middle of a word or of a
\* decimal: neither is spoken in halves, unless it is longer than the hard cap. A
\* comma in a number is no such thing: it ends a first phrase (stream.py:204-223).
NothingIsHalved ==
  \A k \in DOMAIN cuts :
    \/ IsHard(k) \/ IsWhole(k)
    \/ text[cuts[k]] \in {"blank", "mark"}
    \/ text[cuts[k]] = "comma" /\ IsBlank(SubSeq(text, 1, From(k) - 1))
    \/ text[cuts[k]] = "stop" /\ ~(cuts[k] > From(k) /\ text[cuts[k] - 1] = "digit"
                                 /\ cuts[k] < Len(text) /\ text[cuts[k] + 1] = "digit")

\* No phrase is longer than the longest that the speech model takes, and the first
\* none longer than its limit, or it is one word (stream.py:200, 215-223).
PhrasesFit ==
  \A k \in DOMAIN cuts :
    /\ Len(Strip(Raw(k))) <= MaxChars
    /\ IsBlank(SubSeq(text, 1, From(k) - 1)) /\ Len(Strip(Raw(k))) > FirstChars
         => "blank" \notin ToSet(Strip(Raw(k)))

\* At the end of the reply each of its characters has been in a phrase
\* (stream.py:226-227, 232-234).
AllIsSaid == flushed => IsBlank(Buf)
=============================================================================
