---------------------------- MODULE CallOutcome ----------------------------
(***************************************************************************)
(* What the application that polls GET /calls/{room}/outcome may count on  *)
(* while a call's outcome is kept: "pending" until something is known,     *)
(* perhaps the fallback of a call that ended without a result, and for     *)
(* good the result the agent saved.                                        *)
(***************************************************************************)
VARIABLE status

Statuses == {"pending", "fallback", "agent"}

TypeOK == status \in Statuses

Init == status = "pending"

\* The call ended without a result.
GiveUp == status = "pending" /\ status' = "fallback"

\* The agent's result; it also replaces a fallback written while it was being saved.
Result == status # "agent" /\ status' = "agent"

Next == GiveUp \/ Result

Safety == Init /\ [][Next]_status

\* The application does not wait forever.
Spec == Safety /\ WF_status(GiveUp)
============================================================================
