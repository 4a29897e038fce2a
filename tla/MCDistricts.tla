----------------------------- MODULE MCDistricts -----------------------------
(***************************************************************************)
(* Values of the constants of Districts for its run, and an initial state  *)
(* for the parts that stay in one.                                         *)
(***************************************************************************)
EXTENDS Districts

\* The cases are of two governorates.
Governorate == [c \in Cases |-> IF c = 2 THEN "g2" ELSE "g1"]

\* Two labels, a governorate with its center, an honorific, a bank, an address word, two words of
\* names and two typing mistakes, one of both.
MCPlaceNames == {<<"a">>, <<"hay", "a">>, <<"mujamma", "a">>, <<"a", "b">>, <<"hay", "a", "b">>,
                 <<"kut">>, <<"kut", "a">>}
MCSwapped == [n \in MCPlaceNames |-> IF n = <<"a", "b">> THEN <<"b", "a">> ELSE <<>>]
MCEdits == [p \in {<<"a1", "a">>, <<"b1", "b">>, <<"ab", "a">>, <<"ab", "b">>} |->
              IF p[1] = "ab" THEN 10 ELSE 8]
MCAlike == {<<"b", "a1">>, <<"a2", "a">>}

Openings == {<<>>, <<"wasit">>, <<"mohafaza", "wasit">>, <<"kut">>, <<"kut", "ashraf">>}
CoreWords == {"hay", "mujamma", "a", "b", "ab", "a2"}
Core == {<<x>> : x \in CoreWords} \cup (CoreWords \X CoreWords)
Rests == {<<>>, <<"near", "mulk", "mohafaza", "wasit">>, <<"b">>}
MCTexts ==
  {x \o y \o z : x \in Openings, y \in Core, z \in Rests}
    \cup {<<"rusafa", x>> : x \in CoreWords} \cup {<<>>, <<"other">>}
MCAddresses == {<<>>, <<"a", "near">>}

\* Two governorates; the name of one is also a district of the other.  "hay jumhuri" is longer than
\* "hay", "karrada" lies in both governorates, two names are misspelt, and one is longer than a window.
MCGovernorates == [BAS |-> <<"basra">>, SAH |-> <<"salah", "din">>]
MCGovernorateOrder == <<"BAS", "SAH">>
MCDistrictNames ==
  {<<<<"hay">>, "SAH">>, <<<<"hay", "jumhuri">>, "BAS">>, <<<<"karrada">>, "BAS">>, <<<<"karrada">>, "SAH">>,
   <<<<"salah", "din">>, "BAS">>, <<<<"karrada", "hay">>, "SAH">>, <<<<"hay", "salah", "din">>, "BAS">>}
MCBare == "tothe" :> "basra"
MCNearState == (<<"basrah">> :> <<"basra">>) @@ (<<"salah", "jumhury">> :> <<"salah", "din">>)
MCNearDistrict == (<<"hay", "jumhury">> :> <<"hay", "jumhuri">>) @@ (<<"basra", "hay">> :> <<"karrada", "hay">>)

\* What is bound first is not enumerated again.
MCInit ==
  /\ part \in Parts
  /\ (part = "flow" \/ (mode = "off" /\ rule = [c \in Cases |-> [name |-> NoName, sure |-> "none"]]))
  /\ (part = "index" \/ key = [r \in Requests |-> CHOOSE k \in Keys : TRUE])
  /\ (part = "match" \/ (catalog = {<<"a">>} /\ text = <<>> /\ address = <<>>))
  /\ (part = "search" \/ message = <<>>)
  /\ TurnInit

\* InTurns, from these states.
MCSpec == MCInit /\ [][TurnNext]_<<part, vars, indexVars, matchVars, searchVars>> /\ TurnFairness
=============================================================================
