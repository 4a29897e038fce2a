------------------------------- MODULE Matching -------------------------------
(***************************************************************************)
(* The rules that match the text of a customer with the catalog of a       *)
(* governorate: match_case and _match_text of                              *)
(* app/features/district_correction/matching.py, tier after tier until one *)
(* answers, and once more for the text after a governorate's center.       *)
(*                                                                         *)
(* A text and a name are sequences of words; a word stands for all its     *)
(* spellings that word_key, compact_key, loose_key and ordinal_key fold    *)
(* into one.  Typing mistakes are the constant Edits.  How similar two     *)
(* phrases are in their letters is not computed: any phrase that is alike  *)
(* word by word may be the closest, be one of several, or be too far.      *)
(* The governorate is known and its names are words.                       *)
(***************************************************************************)
EXTENDS Naturals, Sequences, FiniteSets, SequencesExt

CONSTANTS
  Labels, Hay,              \* GENERIC_LABELS; the one that _place_key drops
  GovLabel, StateNames,     \* GOVERNORATE_LABEL; the names of the case's governorate
  Centers, AllCenters,      \* _own_centers; _CENTERS
  Honorifics, Sides, AddressWords, Other,  \* ADDRESS_WORDS; _PLACEHOLDERS
  Edits,                    \* cost in tenths of each <<typed, catalog>> within the typo budget
  Alike,                    \* other <<typed, catalog>> whose letters are close
  PlaceNames, Swapped,      \* names; the other order of a name of two parts, or <<>>
  MaxNames,                 \* bound of the run: names in a catalog
  Texts, Addresses          \* the texts and the addresses of the run

NoneFound == <<>>
AllWords == UNION {ToSet(s) : s \in PlaceNames \cup Texts \cup Addresses}

\* The label of a governorate, the labels of places and the centers are lists of different words.
MatchingAssumption ==
  /\ Hay \in Labels /\ Centers \subseteq AllCenters
  /\ GovLabel \notin StateNames \cup Labels \cup Centers /\ Labels \cap Centers = {}
  /\ PlaceNames \cup Texts \cup Addresses \subseteq Seq(AllWords)
  /\ IsFiniteSet(PlaceNames) /\ NoneFound \notin PlaceNames
  /\ DOMAIN Swapped = PlaceNames
  /\ \A n \in PlaceNames : Swapped[n] # <<>> =>
       Swapped[n] \in Seq(AllWords) /\ ToSet(Swapped[n]) \subseteq ToSet(n) /\ ToSet(n) \subseteq ToSet(Swapped[n]) \cup Labels

VARIABLES
  catalog,   \* the names of the company in the governorate
  text,      \* case.district, as words
  address,   \* case.address
  lo, hi,    \* the part of text that _match_text works on
  stage,     \* the tier that is next
  outer,     \* answers with a center, while the text after it is matched
  verdict    \* the answer

case == <<catalog, text, address>>
matchVars == <<case, lo, hi, stage, outer, verdict>>

Tiers == {"start", "spelling", "window", "prefix", "typo", "whole", "fuzzy", "answered"}
Statuses == {"EXACT_MATCH", "NORMALIZED_MATCH", "FUZZY_MATCH", "SPLIT_ADDRESS", "UNRESOLVED"}

\* span: which words of text the name was read from, and the centers before it.
Answer(name, details, confidence, status, reason, span) ==
  [name |-> name, details |-> details, confidence |-> confidence, status |-> status,
   reason |-> reason, span |-> span]
Unresolved(reason) == Answer(NoneFound, <<>>, 20, "UNRESOLVED", reason, {})
Resolved == verdict.status # "UNRESOLVED"
Done == stage = "answered" /\ outer = <<>>

MatchTypeOK ==
  /\ catalog \subseteq PlaceNames /\ stage \in Tiers
  /\ lo \in 1..(Len(text) + 1) /\ hi \in 0..Len(text)
  /\ verdict.status \in Statuses /\ verdict.confidence \in {20, 80, 90, 93, 94, 95, 100}
  /\ verdict.name \in catalog \cup {NoneFound} /\ (Resolved <=> verdict.name # NoneFound)
  /\ verdict.span \subseteq 1..Len(text)
  /\ outer # <<>> => stage # "start"

MatchInit ==
  /\ catalog \in {c \in SUBSET PlaceNames : Cardinality(c) \in 1..MaxNames}
  /\ text \in Texts /\ address \in Addresses
  /\ lo = 1 /\ hi = Len(text) /\ stage = "start" /\ outer = <<>>
  /\ verdict = Unresolved("none yet")

-----------------------------------------------------------------------------
(* Words, names and their places *)

Words(a, b) == SubSeq(text, a, b)
WithoutLabel(w) == IF Len(w) > 1 /\ w[1] \in Labels THEN Tail(w) ELSE <<>>
Forms(n) == {n, WithoutLabel(n)} \ {<<>>}
IsState(w) == Len(w) = 1 /\ w[1] \in StateNames
IsCenter(n) == \A i \in DOMAIN n : n[i] \in Centers
Place(n) == IF Len(n) > 1 /\ n[1] = Hay THEN Tail(n) ELSE n
SamePlace(names) == \A m, n \in names : Place(m) = Place(n)
Largest(S) == CHOOSE x \in S : \A y \in S : y <= x
Least(S) == CHOOSE x \in S : \A y \in S : x <= y
MaxWords == Largest({Len(n) : n \in catalog})

\* _choose: the one name; of several spellings of one place the closest, if one is closer.
Chosen(names) ==
  IF Cardinality(names) = 1 THEN names
  ELSE IF names # {} /\ SamePlace(names) THEN names \cup {NoneFound} ELSE {NoneFound}

GovernorateLength(p, h) ==
  LET q == IF p <= h /\ text[p] = GovLabel THEN p + 1 ELSE p
  IN  IF q <= h /\ text[q] \in StateNames THEN q + 1 - p ELSE 0

\* One round of _clean_remainder on a part of text: a governorate at its left edge goes,
\* else one at its right edge; "near <governorate>" names a landmark.
Trimmed(piece) ==
  LET from == piece[1]
      to == piece[2]
      leading == GovernorateLength(from, to)
      trailing == {s \in 1..(to + 1 - from) : GovernorateLength(to + 1 - s, to) = s}
      left == to - Least(trailing)
  IN  IF from > to THEN piece
      ELSE IF leading > 0 THEN <<from + leading, to>>
      ELSE IF trailing = {} \/ (left >= from /\ text[left] \in AddressWords) THEN piece
      ELSE <<from, left>>

Clean(l, h) ==
  LET c[piece \in (1..(Len(text) + 1)) \X (0..Len(text))] ==
        IF Trimmed(piece) = piece THEN piece ELSE c[Trimmed(piece)]
  IN  c[<<l, h>>]

PartOf(w, v) == \E i \in 1..(Len(v) + 1 - Len(w)) : SubSeq(v, i, i + Len(w) - 1) = w
AddressWithout(name) ==
  IF IsPrefix(name, address) THEN SubSeq(address, Len(name) + 1, Len(address)) ELSE address

\* _details: the text after the district, then the address, unless one holds the other.
Details(name, moved) ==
  LET kept == AddressWithout(name)
  IN  IF moved # <<>> /\ kept # <<>> /\ PartOf(kept, moved) THEN moved
      ELSE IF moved # <<>> /\ kept # <<>> /\ PartOf(moved, kept) THEN kept ELSE moved \o kept

-----------------------------------------------------------------------------
(* Names written in the text *)

Unlabelled(w) ==
  LET u[i \in 0..Len(w)] == IF i = 0 THEN <<>> ELSE IF w[i] \in Labels THEN u[i - 1] ELSE Append(u[i - 1], w[i])
  IN  u[Len(w)]

\* _full_name
FullName(w) ==
  LET spelled == {n \in catalog : n = w}
      core == {n \in catalog : WithoutLabel(n) = w}
      swapped == {n \in catalog : Swapped[n] = w}
      inner == {n \in catalog : Len(w) > 1 /\ n = <<w[1]>> \o Unlabelled(SubSeq(w, 2, Len(w) - 1)) \o <<w[Len(w)]>>}
  IN  IF spelled # {} \/ IsState(w) THEN spelled
      ELSE IF core # {} THEN core
      ELSE IF swapped # {} THEN swapped
      ELSE IF w[1] \in StateNames \cup AllCenters THEN {} ELSE inner

Window(end, start, names, words) == [end |-> end, start |-> start, names |-> names, words |-> words]
NoWindow == Window(0, 0, {}, <<>>)

\* mutant: the lengths are tried from one word up.
ShortestFirst(s, dropped) ==
  LET word(e) == IF dropped THEN WithoutLabel(Words(s, e)) ELSE Words(s, e)
      ends == {e \in s..(s + MaxWords) : e <= hi /\ word(e) # <<>> /\ ~(dropped /\ IsState(word(e)))
                                         /\ FullName(word(e)) # {}}
  IN  IF ends = {} THEN NoWindow
      ELSE Window(Least(ends), s, FullName(word(Least(ends))), word(Least(ends)))

\* _longest: the longest name at a start, with the text's own label or without it.
Longest(s, dropped) ==
  LET word(e) == IF dropped THEN WithoutLabel(Words(s, e)) ELSE Words(s, e)
      ends == {e \in s..(s + MaxWords) : e <= hi /\ word(e) # <<>> /\ ~(dropped /\ IsState(word(e)))
                                         /\ FullName(word(e)) # {}}
  IN  IF ends = {} THEN NoWindow
      ELSE Window(Largest(ends), s, FullName(word(Largest(ends))), word(Largest(ends)))

WindowAt(s) ==
  LET with == Longest(s, FALSE)
      without == Longest(s, TRUE)
  IN  IF with # NoWindow /\ without.end > with.end /\ without.names # with.names
      THEN [without EXCEPT !.names = @ \cup with.names]
      ELSE IF with # NoWindow THEN with ELSE without

\* The window that reaches furthest, and of those the one that starts first.
Furthest(windows) ==
  CHOOSE w \in windows : \A v \in windows : v.end < w.end \/ (v.end = w.end /\ w.start <= v.start)

\* Where a district may begin: after the governorate, its center, an honorific or a bank.
Before(p) == IF GovernorateLength(p, hi) > 0 THEN GovernorateLength(p, hi)
             ELSE IF text[p] \in Centers \cup Sides \cup Honorifics THEN 1 ELSE 0
Starts ==
  LET s[p \in lo..hi] == IF Before(p) = 0 \/ p + Before(p) > hi THEN {p} ELSE {p} \cup s[p + Before(p)]
  IN  s[lo]

Written == {WindowAt(s) : s \in Starts} \ {NoWindow}

\* The forms of names that begin with these words, and have more.
NamesAndForms == UNION {{n} \X Forms(n) : n \in catalog}
Longer(w) == {x \in NamesAndForms : IsStrictPrefix(w, x[2])}

WordEdits(typed, word) == IF typed = word THEN 0
                          ELSE IF <<typed, word>> \in DOMAIN Edits THEN Edits[<<typed, word>>] ELSE 1000
Resembles(w, f) ==
  Len(w) = Len(f) /\ \A i \in DOMAIN w : WordEdits(w[i], f[i]) < 1000 \/ <<w[i], f[i]>> \in Alike

\* _extension: a longer name whose further words resemble the text that follows.
Extensions(matched, end) ==
  LET last(f) == end + Len(f) - Len(matched)
      fit == {x \in Longer(matched) : /\ last(x[2]) <= hi
                                      /\ Resembles(Words(end + 1, last(x[2])),
                                                   SubSeq(x[2], Len(matched) + 1, Len(x[2])))}
  IN  {<<x[1], last(x[2])>> : x \in fit}

-----------------------------------------------------------------------------
(* How a tier ends *)

Gives(answer) == verdict' = answer /\ stage' = "answered" /\ UNCHANGED <<case, lo, hi, outer>>
GoesOn(next) == stage' = next /\ UNCHANGED <<case, lo, hi, outer, verdict>>

\* _split
Split(start, end, name, confidence, reason, fuzzy) ==
  LET c == Clean(end + 1, hi)
      moved == Words(c[1], c[2])
  IN  IF moved # <<>> THEN Answer(name, Details(name, moved), confidence, "SPLIT_ADDRESS", reason, start..end)
      ELSE IF fuzzy THEN Answer(name, Details(name, <<>>), confidence, "FUZZY_MATCH", reason, start..end)
      ELSE Answer(name, Details(name, <<>>), 93, "NORMALIZED_MATCH", "ignored", start..end)

\* After a center, first the text that follows it is matched: _inside_center.
ReadAs(start, end, name, confidence, reason, fuzzy) ==
  LET begin == Least({p \in (end + 1)..(hi + 1) : p > hi \/ text[p] \notin Honorifics})
      rest == Clean(begin, hi)
      base == Split(start, end, name, confidence, reason, fuzzy)
  IN  IF IsCenter(name) /\ rest[1] <= rest[2]
      THEN /\ outer' = Append(outer, [base |-> base, lo |-> rest[1], hi |-> rest[2]])
           /\ lo' = rest[1] /\ hi' = rest[2] /\ stage' = "spelling" /\ UNCHANGED <<case, verdict>>
      ELSE Gives(base)

-----------------------------------------------------------------------------
(* The tiers *)

Empty == stage = "start" /\ text = <<>> /\ Gives(Unresolved("empty"))

\* A district that names no place: the address is matched instead.
Placeholder ==
  /\ stage = "start" /\ text = <<Other>>
  /\ IF address = <<>> THEN Gives(Unresolved("placeholder"))
     ELSE /\ text' = address /\ address' = <<>> /\ lo' = 1 /\ hi' = Len(address)
          /\ UNCHANGED <<catalog, stage, outer, verdict>>

\* The text is a name letter for letter.
Exact ==
  /\ stage = "start" /\ text \in catalog
  /\ LET rest == AddressWithout(text)
     IN  Gives(Answer(text, rest, 100, IF rest # address THEN "SPLIT_ADDRESS" ELSE "EXACT_MATCH",
                        "exact", 1..Len(text)))

MatchText == stage = "start" /\ text \notin {<<>>, <<Other>>} /\ GoesOn("spelling")

Spelling ==
  /\ stage = "spelling"
  /\ LET raw == Words(lo, hi)
     IN  IF raw \in catalog THEN Gives(Answer(raw, Details(raw, <<>>), 95, "NORMALIZED_MATCH", "spelling", lo..hi))
         ELSE GoesOn("window")

\* A name and what may be longer than it: no extension, one of them, or several that fit equally.
Extended(start, end, names, matched, confidence, reason, fuzzy) ==
  LET more == Extensions(matched, end)
  IN  \/ \E name \in Chosen(names) :
           IF name = NoneFound THEN Gives(Unresolved("ambiguous")) ELSE ReadAs(start, end, name, confidence, reason, fuzzy)
      \/ ~SamePlace({x[1] : x \in more}) /\ Gives(Unresolved("ambiguous"))
      \/ \E x \in more : Chosen(names) # {NoneFound} /\ ReadAs(start, x[2], x[1], 90, "longer", TRUE)

WindowMatch ==
  /\ stage = "window"
  /\ IF Written = {} THEN GoesOn("prefix")
     ELSE LET w == Furthest(Written)
          IN  Extended(w.start, w.end, w.names, w.words, 94, "window", FALSE)

\* _unique_prefix: the one place whose name begins with the words and has at most as many more.
UniquePrefix ==
  LET names(s) == {x[1] : x \in {y \in Longer(Words(s, hi)) : Len(y[2]) <= 2 * (hi + 1 - s)}}
      bare(s) == IsState(Words(s, hi)) \/ (s = hi /\ text[s] \in AllCenters)
      fit == {s \in Starts : ~bare(s) /\ names(s) # {} /\ SamePlace(names(s))}
  IN  /\ stage = "prefix"
      /\ \/ \E s \in fit : \E name \in Chosen(names(s)) \ {NoneFound} :
              /\ \A r \in fit : r < s => NoneFound \in Chosen(names(r))
              /\ Gives(Answer(name, Details(name, <<>>), 90, "FUZZY_MATCH", "prefix", s..hi))
         \/ (\A s \in fit : NoneFound \in Chosen(names(s))) /\ GoesOn("typo")

Cost(w, f) == LET c[i \in 0..Len(w)] == IF i = 0 THEN 0 ELSE c[i - 1] + WordEdits(w[i], f[i]) IN c[Len(w)]

\* _window_typo at one start: the longest window with names, and of those the fewest edits.
TypoAt(s, strict) ==
  LET forms(n, e) == {f \in Forms(n) : Len(f) = e + 1 - s}
      all(e) == UNION {{n} \X {Cost(Words(s, e), f) : f \in forms(n, e)} : n \in catalog}
      costs(e) == {x \in all(e) : x[2] < (IF strict THEN 10 ELSE 1000)}
      fewest(e) == {x[1] : x \in {y \in costs(e) : \A z \in costs(e) : y[2] <= z[2]}}
      ends == {e \in s..(s + MaxWords - 1) : e <= hi /\ ~IsState(Words(s, e))
                                             /\ ToSet(Words(s, e)) \cap Sides = {} /\ costs(e) # {}}
  IN  IF ends = {} THEN NoWindow ELSE Window(Largest(ends), s, fewest(Largest(ends)), <<>>)

WindowTypo ==
  LET after == {s + 1 : s \in {p \in Starts : p < hi /\ text[p] \in Labels}} \ Starts
      windows == {TypoAt(s, s \in after) : s \in Starts \cup after} \ {NoWindow}
  IN  /\ stage = "typo"
      /\ IF windows = {} THEN GoesOn("whole")
         ELSE IF \E w \in windows : ~SamePlace(w.names) THEN Gives(Unresolved("ambiguous"))
         ELSE LET w == Furthest(windows)
              IN  \E name \in Chosen(w.names) :
                    IF name = NoneFound THEN GoesOn("whole") ELSE ReadAs(w.start, w.end, name, 90, "typo", TRUE)

\* _whole_fuzzy: the names that the text resembles; one may be closest by far.
WholeFuzzy ==
  /\ stage = "whole"
  /\ \/ \E name \in catalog : /\ Resembles(Words(lo, hi), name)
                              /\ Gives(Answer(name, Details(name, <<>>), 90, "FUZZY_MATCH", "similar", lo..hi))
     \/ GoesOn("fuzzy")

\* _window_fuzzy: the same for a part of the text.
WindowFuzzy ==
  LET whole(s, e) == s = lo /\ e = hi
      close(x) == \E w \in {Words(x[1], x[2]), WithoutLabel(Words(x[1], x[2]))} : Resembles(w, x[3][2])
      parts == {x \in Starts \X (lo..hi) \X NamesAndForms :
                  x[1] <= x[2] /\ ~whole(x[1], x[2]) /\ ~IsState(Words(x[1], x[2])) /\ close(x)}
  IN  /\ stage = "fuzzy"
      /\ \/ Gives(Unresolved("no match"))
         \/ parts # {} /\ Gives(Unresolved("ambiguous"))
         \/ \E x \in parts : Extended(x[1], x[2], {x[3][1]}, x[3][2], 90, "misspelled", TRUE)

-----------------------------------------------------------------------------
(* The text after a center *)

Review(base) == [base EXCEPT !.confidence = IF @ > 80 THEN 80 ELSE @, !.reason = "review"]

\* The words of the center were read too.
Within(base, reason) == [verdict EXCEPT !.reason = reason, !.span = @ \cup base.span]

\* The words after the center begin several names, or are all in more than one.
Several(from, to) ==
  LET words == ToSet(Words(from, to)) \ (Sides \cup Labels)
  IN  \/ verdict.reason = "ambiguous"
      \/ Longer(Words(from, to)) # {}
      \/ words # {} /\ Cardinality({n \in catalog : words \subseteq ToSet(n)}) > 1

\* The inner answer stands if it is no guess, or a typo or a prefix; else the center, perhaps for review.
Return ==
  LET top == outer[Len(outer)]
      sure == verdict.status \in {"NORMALIZED_MATCH", "SPLIT_ADDRESS"} /\ verdict.confidence >= 93
  IN  /\ stage = "answered" /\ outer # <<>> /\ outer' = SubSeq(outer, 1, Len(outer) - 1)
      /\ verdict' = IF ~Resolved THEN (IF Several(top.lo, top.hi) THEN Review(top.base) ELSE top.base)
                   ELSE IF verdict.name = top.base.name THEN top.base
                   ELSE IF sure THEN Within(top.base, "inside")
                   ELSE IF verdict.reason \in {"typo", "prefix"} THEN Within(top.base, "inside, a guess")
                   ELSE Review(top.base)
      /\ UNCHANGED <<case, lo, hi, stage>>

MatchNext ==
  \/ Empty \/ Placeholder \/ Exact \/ MatchText
  \/ Spelling \/ WindowMatch \/ UniquePrefix \/ WindowTypo \/ WholeFuzzy \/ WindowFuzzy
  \/ Return

MatchSpec == MatchInit /\ [][MatchNext]_matchVars

-----------------------------------------------------------------------------
Context == StateNames \cup {GovLabel} \cup Centers \cup Honorifics \cup Sides

\* No location is lost: each word of the text is one the name was read from, says
\* only where the governorate is or labels the name, or is in the details, and
\* so is each word of the address (matching.py:390-400, 641-649, 652-687).
NothingLost ==
  Done /\ Resolved =>
    /\ \A i \in DOMAIN text \ verdict.span :
         text[i] \in Context \cup ToSet(verdict.details) \/ (text[i] \in Labels /\ i + 1 \in verdict.span)
    /\ ToSet(address) \subseteq ToSet(verdict.details) \cup ToSet(verdict.name)

\* A shorter name never wins over a longer one that is written at the same place,
\* whichever tier answers and also when the answer is read after a center
\* (matching.py:420-451, 534-575).
FurthestNameWins ==
  Done /\ Resolved =>
    \A n \in catalog : IsPrefix(n, text) => \E i \in verdict.span : i >= Len(n)

\* An answer for which no other method is asked involves no guess: the name is
\* written word for word, and nothing else is in the text but the governorate,
\* its center and labels (matching.py:50-52, 649).
CertainIsWritten ==
  Done /\ verdict.reason \in {"spelling", "ignored"} =>
    /\ ToSet(verdict.name) \subseteq ToSet(text) \cup Labels
    /\ ToSet(text) \subseteq ToSet(verdict.name) \cup Labels \cup Context

\* Of a center and a district after it the district is the answer, unless the two
\* together are read as a name too: not when they only resemble one (matching.py:414-416,
\* 652-687, 791-803).
CenterGivesWay ==
  Done =>
    \A n \in catalog : \A i \in 1..(Len(text) - 1) :
      /\ \A j \in 1..i : text[j] \in Centers /\ FullName(Words(j, Len(text))) = {}
      /\ Words(i + 1, Len(text)) = n /\ ~IsCenter(n)
      => Resolved /\ Place(verdict.name) = Place(n)

\* A name that has a label of its own is not certain for a text with another
\* label: "mujamma X" may be another place than "hay X" (matching.py:50-51, 211).
\* The code does not keep this: README, section 6.
CertainHasItsLabel ==
  Done /\ verdict.reason \in {"spelling", "ignored"} =>
    ~(verdict.name[1] \in Labels /\ \E i \in verdict.span : text[i] \in Labels \ ToSet(verdict.name))

\* Of a governorate at the end of the text nothing is left in the details
\* (matching.py:351).
\* The code does not keep this: README, section 6.
EdgesAreClean ==
  Done /\ Resolved =>
    \A i \in 2..(Len(text) - 1) :
      text[i] = GovLabel /\ i + 1 = Len(text) /\ text[i + 1] \in StateNames /\ text[i - 1] \notin AddressWords
        => GovLabel \notin ToSet(verdict.details)
=============================================================================
