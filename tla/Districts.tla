----------------------------- MODULE Districts -----------------------------
(***************************************************************************)
(* The correction of districts and the names of places: the stages of a    *)
(* request, the index of meanings, the matching of one case and the search *)
(* for places.                                                             *)
(*                                                                         *)
(* The parts share no state: together they are the conjunction of their    *)
(* specifications.  InTurns is what the run checks: `part` is the one that *)
(* moves, the others stay in an initial state.                             *)
(***************************************************************************)
EXTENDS CorrectionFlow, SemanticIndex, Matching, Integers, TLC

CONSTANTS
  Governorates, GovernorateOrder, AllDistricts, Bare, TooShort, NearState, NearDistrict, NGram,
  MessageWords, MaxMessage, TopK  \* of LocationSearch

VARIABLES
  part,
  message, hits  \* of LocationSearch

searchVars == <<message, hits>>

Searching == INSTANCE LocationSearch WITH
  StateName <- Governorates, StateOrder <- GovernorateOrder, Districts <- AllDistricts,
  MaxWords <- NGram, TextWords <- MessageWords, MaxText <- MaxMessage, text <- message

ASSUME DistrictsAssumption == MatchingAssumption /\ Searching!SearchAssumption /\ Searching!LocationsAssumption

-----------------------------------------------------------------------------
\* A step of one part is no step of another.
Together == Spec /\ IndexSpec /\ MatchSpec /\ Searching!Spec

Parts == {"flow", "index", "match", "search"}

TurnInit == part \in Parts /\ Init /\ IndexInit /\ MatchInit /\ Searching!Init

TurnNext ==
  /\ part' = part
  /\ IF part = "flow" THEN Next ELSE UNCHANGED vars
  /\ IF part = "index" THEN IndexNext ELSE UNCHANGED indexVars
  /\ IF part = "match" THEN MatchNext ELSE UNCHANGED matchVars
  /\ IF part = "search" THEN Searching!Next ELSE UNCHANGED searchVars

\* A task that has the lock of a key, or waits for a free one, goes on.
TurnFairness == \A r \in Requests : WF_indexVars(part = "index" /\ Work(r))

InTurns == TurnInit /\ [][TurnNext]_<<part, vars, indexVars, matchVars, searchVars>> /\ TurnFairness

-----------------------------------------------------------------------------
(* Properties: those of the parts, which say more of themselves in their modules. *)

\* Of the words of a location none is lost or read twice, the longest name wins, and certain is
\* only what is written, by every tier and in every order of center, district and details
\* (matching.py:384-687); a guess never takes the place of a name written in full, and the scan of a
\* text agrees with the district field (locations.py:113-191).
PlacesReadRight ==
  /\ MatchTypeOK /\ NothingLost /\ FurthestNameWins /\ CertainIsWritten /\ CenterGivesWay
  /\ Searching!TypeOK /\ Searching!WordsReadOnce /\ Searching!ExactNotLost /\ Searching!ExactComeFirst
  /\ Searching!SameGovernorate
=============================================================================
