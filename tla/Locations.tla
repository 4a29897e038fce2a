------------------------------ MODULE Locations ------------------------------
(***************************************************************************)
(* The index of governorates and districts (app/rag/locations.py).         *)
(*                                                                         *)
(* A name or a text is the sequence of its normalised words.  Spelling is  *)
(* kept to what decides a match: the word left when a prefix of place is   *)
(* taken off, which words are too short to guess from, and which wrong     *)
(* spellings difflib finds close enough to a name.  Words below three      *)
(* letters, which stand for nothing alone, are left out.                   *)
(***************************************************************************)
EXTENDS Naturals, FiniteSets, SequencesExt

CONSTANTS
  StateName,    \* name of each governorate's code
  StateOrder,   \* the codes in the order of locations.json
  Districts,    \* pairs <<name, code>>
  Bare,         \* a word without its prefix of place, for the words that have one
  TooShort,     \* words below five letters, never guessed from
  NearState,    \* close spelling -> part of a governorate's name
  NearDistrict, \* close spelling -> name of a district
  MaxWords,     \* _MAX_NGRAM
  None

States == DOMAIN StateName
PartsOf(name) == {SubSeq(name, i, j) : i, j \in 1 .. Len(name)} \ {<<>>}

LocationsAssumption ==
  /\ IsFiniteSet(States) /\ StateOrder \in Seq(States) /\ Range(StateOrder) = States /\ MaxWords \in Nat \ {0}
  /\ \A d \in Districts : d[2] \in States /\ [name |-> d[1], state |-> d[2]] # None
  /\ None \notin States
  /\ \A k \in DOMAIN NearState : \E s \in States : NearState[k] \in PartsOf(StateName[s])
  /\ \A k \in DOMAIN NearDistrict : /\ Len(NearDistrict[k]) = Len(k)
                                    /\ \E s \in States : <<NearDistrict[k], s>> \in Districts

\* A name, then the name without the prefix of its first word.
Variants(key) ==
  IF key # <<>> /\ Head(key) \in DOMAIN Bare THEN <<key, <<Bare[Head(key)]>> \o Tail(key)>>
                                             ELSE <<key>>

Least(places) == CHOOSE i \in places : \A j \in places : i <= j

\* A part of a name stands for the first governorate that has it.
StateOf(key) ==
  LET at == {i \in 1 .. Len(StateOrder) : key \in PartsOf(StateName[StateOrder[i]])}
  IN  IF at = {} THEN None ELSE StateOrder[Least(at)]

\* No name is a part of that of a governorate before it (locations.json).
NamesApart == \A s \in States : StateOf(StateName[s]) = s

StatesWith(key) == {s \in States : <<key, s>> \in Districts}

CanonicalState(text) ==
  LET v == Variants(text)
      exact == {i \in DOMAIN v : StateOf(v[i]) # None}
  IN  IF exact # {} THEN StateOf(v[Least(exact)])
      ELSE IF text \in DOMAIN NearState /\ text \notin {<<w>> : w \in TooShort}
      THEN StateOf(NearState[text])
      ELSE None

\* The governorate of a known district that lies in one only.
StateForDistrict(text) ==
  LET key == IF StatesWith(text) = {} /\ text \in DOMAIN NearDistrict THEN NearDistrict[text] ELSE text
  IN  IF Cardinality(StatesWith(key)) = 1
      THEN [name |-> key, state |-> CHOOSE s \in StatesWith(key) : TRUE]
      ELSE None

-----------------------------------------------------------------------------
(* What a free text names.  A hit covers the words `from .. to`; `district` *)
(* is None when it names a governorate, and `in` are the governorates that  *)
(* have such a district.                                                    *)

DistrictHit(key) == [district |-> key, in |-> StatesWith(key)]
StateHit(state) == [district |-> None, in |-> {state}]

MatchExact(key) ==
  LET v == Variants(key)
      named(name) == IF StatesWith(name) # {} THEN DistrictHit(name)
                     ELSE IF StateOf(name) # None THEN StateHit(StateOf(name)) ELSE DistrictHit(name)
      known == {i \in DOMAIN v : named(v[i]).in # {}}
  IN  IF known = {} THEN None ELSE named(v[Least(known)])

MatchFuzzy(key) ==
  IF key \in DOMAIN NearState THEN StateHit(StateOf(NearState[key]))
  ELSE IF Len(key) > 1 /\ key \in DOMAIN NearDistrict THEN DistrictHit(NearDistrict[key])
  ELSE None

Hit(text, w) ==
  LET key == SubSeq(text, w.from, w.to)
  IN  IF ~w.fuzzy THEN MatchExact(key)
      ELSE IF Len(key) = 1 /\ key[1] \in TooShort THEN None ELSE MatchFuzzy(key)

\* The order of the scan: exact names before guesses, long before short, left before right.
Before(v, w) ==
  IF v.fuzzy # w.fuzzy THEN ~v.fuzzy
  ELSE IF v.to - v.from # w.to - w.from THEN v.to - v.from > w.to - w.from
  ELSE v.from < w.from

Apart(v, w) == v.to < w.from \/ w.to < v.from

Windows(text) ==
  {w \in [fuzzy : BOOLEAN, from : 1 .. Len(text), to : 1 .. Len(text)] :
     w.from <= w.to /\ w.to - w.from < MaxWords /\ Hit(text, w) # None}

\* The scan takes a window unless one of its words was taken before, n at most.
Scanned(windows, n) ==
  LET first(open) == CHOOSE w \in open : \A v \in open \ {w} : Before(w, v)
      found[k \in 0 .. n] ==
        IF k = 0 THEN <<>>
        ELSE LET taken == found[k - 1]
                 open == {w \in windows : \A i \in 1 .. Len(taken) : Apart(w, taken[i])}
             IN  IF open = {} THEN taken ELSE Append(taken, first(open))
  IN  found[n]

Search(text, topK) == Scanned(Windows(text), topK)
=============================================================================
