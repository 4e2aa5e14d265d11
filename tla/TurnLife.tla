------------------------------ MODULE TurnLife ------------------------------
(***************************************************************************)
(* What Chat promises about turns, without processes, leases or calls: a   *)
(* conversation has one turn in processing at most, all conversations      *)
(* together MaxActive, and every turn that was admitted ends exactly once. *)
(***************************************************************************)
EXTENDS Naturals, FiniteSets

CONSTANTS
  Turns,     \* turn ids
  Conv,      \* the conversation of each turn
  MaxActive, \* CHAT_MAX_ACTIVE
  None       \* the turn was not admitted

VARIABLE status

Endings == {"COMPLETED", "CANCELLED", "FAILED"}

Processing == {t \in Turns : status[t] = "PROCESSING"}

Init == status = [t \in Turns |-> None]

Admit(t) ==
  /\ status[t] = None
  /\ \A u \in Processing : Conv[u] # Conv[t]
  /\ Cardinality(Processing) < MaxActive
  /\ status' = [status EXCEPT ![t] = "PROCESSING"]

(* Turns end one by one, or all at once when a dead owner is recovered. *)
End(ts) ==
  /\ ts # {} /\ ts \subseteq Processing
  /\ \E e \in Endings :
       status' = [t \in Turns |-> IF t \in ts THEN e ELSE status[t]]

EndTurn(t) == \E ts \in SUBSET Turns : t \in ts /\ End(ts)

Next == \E t \in Turns : Admit(t) \/ EndTurn(t)

Spec == Init /\ [][Next]_status

FairSpec == Spec /\ \A t \in Turns : WF_status(EndTurn(t))

=============================================================================
