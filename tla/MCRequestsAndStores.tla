------------------------- MODULE MCRequestsAndStores -------------------------
(***************************************************************************)
(* Values of the constants of RequestsAndStores for its run, and an        *)
(* initial state for the parts that stay in one.                           *)
(***************************************************************************)
EXTENDS RequestsAndStores

CONSTANTS i1, i2  \* ids of calls

\* Governorates: a good file, and a second that knows one more and redefines the first.  Districts:
\* one twice and a row without a name; one of the second governorate.
MCGovernorateFiles ==
  {<<[code |-> "g1", name |-> "n1"]>>,
   <<[code |-> "g1", name |-> "n2"], [code |-> "g2", name |-> "n1"], [code |-> "g2", name |-> Blank]>>}
MCDistrictFiles ==
  {<<[code |-> "g1", name |-> "m1"], [code |-> "g1", name |-> "m1"], [code |-> "g1", name |-> Blank]>>,
   <<[code |-> "g2", name |-> "m1"]>>}

\* "karrada" lies in one governorate, "hay jumhuri" in both, and "salah din" is a governorate and a
\* district of the other.  The texts are in the right spelling and not, unknown and absent; the
\* streets name a district of one governorate, of both, and a governorate.
MCGovernorates == [BAS |-> <<"basra">>, SAH |-> <<"salah", "din">>]
MCGovernorateOrder == <<"BAS", "SAH">>
MCDistricts == {<<<<"hay", "jumhuri">>, "BAS">>, <<<<"hay", "jumhuri">>, "SAH">>,
                <<<<"karrada">>, "SAH">>, <<<<"salah", "din">>, "BAS">>}
MCBare == "tothe" :> "basra"
MCNearState == <<"basrah">> :> <<"basra">>
MCNearDistrict == <<"hay", "basrah">> :> <<"hay", "jumhuri">>
MCCities == {<<>>, <<"basrah">>, <<"tothe">>, <<"din">>, <<"street">>}
MCAreas == {<<>>, <<"karrada">>, <<"hay", "basrah">>, <<"salah", "din">>, <<"street">>}
MCStreets == {<<>>, <<"street", "karrada">>, <<"hay", "jumhuri", "salah", "din">>, <<"tothe", "street">>}

\* Three ways to write numbers: two of the same number, one of another, and none.  Stock here and
\* elsewhere: what is only elsewhere is sold out.
MCNumberOf == [p \in Phones |-> CASE p \in {"local", "international"} -> "number1"
                                  [] p = "stranger" -> "number2"
                                  [] p = "anonymous" -> "none"]
MCInfos == {[storage |-> "here", quantity |-> 1, price |-> 2], [storage |-> "other", quantity |-> 1, price |-> 3]}

\* Texts of up to two tokens, and some of three around a closing tag; up to two calls, good or not,
\* with an id, the other id, or none.
MCContents ==
  BoundedSeq({"close", "tag", "word", "name"}, 2)
    \cup {<<a, "close", b>> : a, b \in {"tag", "word", "name"}}
MCRawCalls == BoundedSeq([good : BOOLEAN, id : Ids], 2)

\* What is bound first is not enumerated again.
MCInit ==
  /\ part \in Parts
  /\ part # "aliases" => catalog = {} /\ file = [k \in Keys |-> NoEntry]
  /\ IF part = "import"
     THEN /\ book \in [Import!Files -> GovernorateFiles \cup DistrictFiles]
          /\ book[<<"cities", 1>>] = CHOOSE c \in DistrictFiles : TRUE
     ELSE book = [f \in Import!Files |-> CHOOSE c \in IF f[1] = "gov" THEN GovernorateFiles
                                                                     ELSE DistrictFiles : TRUE]
  /\ part # "intake" => ready = FALSE
  /\ part # "audio" => recording = <<>>
  /\ part # "tools" => /\ tool = "search_products" /\ wanted = CHOOSE o \in Orders : TRUE
                       /\ stock = [p \in Products |-> <<>>]
  /\ part # "operator" => configured = TRUE /\ choice = "auto" /\ lastRole = "user"
  /\ part # "chat" => route = "v1" /\ toolChoice = "auto" /\ tools = TRUE /\ role = "user"
  /\ TurnInit

\* InTurns, from these states.
MCSpec == MCInit /\ [][TurnNext]_allVars /\ TurnFairness
=============================================================================
