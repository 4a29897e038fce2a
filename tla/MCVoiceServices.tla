--------------------------- MODULE MCVoiceServices ---------------------------
(***************************************************************************)
(* An initial state for the parts of VoiceServices that stay in one.       *)
(***************************************************************************)
EXTENDS VoiceServices

\* What is bound first is not enumerated again.
MCInit ==
  /\ part \in Parts
  /\ part # "engine" => server = "down"
  /\ part # "status" => model = "down"
  /\ TurnInit

\* InTurns, from these states.
MCSpec == MCInit /\ [][TurnNext]_allVars /\ TurnFairness
=============================================================================
