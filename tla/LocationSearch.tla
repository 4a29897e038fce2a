--------------------------- MODULE LocationSearch ---------------------------
(***************************************************************************)
(* search_locations (app/rag/locations.py) over every text of a few words: *)
(* what is put into the prompt of an order, and what the correction of its *)
(* place reads out of a free address.                                      *)
(***************************************************************************)
EXTENDS Locations

CONSTANTS
  TextWords, \* the words of the texts
  MaxText,  \* bound of the run: words in a text
  TopK      \* top_k

SearchAssumption ==
  /\ MaxText \in Nat /\ TopK \in Nat \ {0}
  /\ \A d \in Districts : d[1] # <<>> /\ DistrictHit(d[1]) # None

VARIABLES
  text,  \* the customer's text
  hits   \* what it names, None before the scan

vars == <<text, hits>>

TypeOK ==
  /\ text \in BoundedSeq(TextWords, MaxText)
  /\ hits # None =>
       /\ Len(hits) <= TopK
       /\ \A i \in 1 .. Len(hits) : 1 <= hits[i].from /\ hits[i].from <= hits[i].to /\ hits[i].to <= Len(text)

Init == text \in BoundedSeq(TextWords, MaxText) /\ hits = None

Scan == hits = None /\ hits' = Search(text, TopK) /\ UNCHANGED text

Next == Scan

Spec == Init /\ [][Next]_vars

-----------------------------------------------------------------------------
Found == hits # None
HitAt(i) == Hit(text, hits[i])
Exact(i, j) == [fuzzy |-> FALSE, from |-> i, to |-> j]

\* A word is read once: no part of a name that was found is found again as another
\* place (locations.py 142-160, "hay" of "hay al-jumhuri").
WordsReadOnce ==
  Found => \A i, j \in 1 .. Len(hits) : i # j => hits[i].to < hits[j].from \/ hits[j].to < hits[i].from

\* A guess never takes the words of a name written in full: unless the list is full, what
\* a customer wrote letter by letter is among the hits, or a longer name around it is
\* (locations.py 142-164).
ExactNotLost ==
  Found /\ Len(hits) < TopK =>
    \A i, j \in 1 .. Len(text) :
      i <= j /\ j - i < MaxWords /\ Hit(text, Exact(i, j)) # None =>
        \E h \in Range(hits) : ~h.fuzzy /\ h.from <= j /\ i <= h.to /\ h.to - h.from >= j - i

\* A full list holds no guess while a name written in full is left out (locations.py 147, 162).
ExactComeFirst ==
  Found /\ Len(hits) = TopK /\ (\E h \in Range(hits) : h.fuzzy) =>
    \A i, j \in 1 .. Len(text) :
      i <= j /\ j - i < MaxWords /\ Hit(text, Exact(i, j)) # None =>
        \E h \in Range(hits) : ~h.fuzzy /\ h.from <= j /\ i <= h.to

\* The two ways in which the place of an order is corrected agree: a text that is the name
\* of a district is given the same governorate by the scan of a free address as by the
\* district field, also when it is a governorate's name as well (locations.py 113-129,
\* 177-191; app/orders/extraction.py 31-42).  The scan reads names of _MAX_NGRAM words at
\* most, and locations.json has some that are longer: README, section 6.
SameGovernorate ==
  Found /\ StatesWith(text) # {} /\ Len(text) <= MaxWords =>
    /\ Len(hits) = 1 /\ HitAt(1).district = text
    /\ StateForDistrict(text) = IF Cardinality(HitAt(1).in) = 1
                                THEN [name |-> text, state |-> CHOOSE s \in HitAt(1).in : TRUE]
                                ELSE None
=============================================================================
