-------------------------- MODULE TransactionOutcome --------------------------
(***************************************************************************)
(* What a transaction across partitions promises: one outcome, decided     *)
(* once, and effects on a partition only after the outcome is to commit.   *)
(***************************************************************************)
CONSTANTS Transactions, Participants

VARIABLES
  outcome,   \* "open", "commit" or "abort"
  applied    \* the partitions each transaction has changed

vars == <<outcome, applied>>

Init ==
  /\ outcome = [t \in Transactions |-> "open"]
  /\ applied = [t \in Transactions |-> {}]

\* One write of the coordinator's file may settle several transactions.
Decide ==
  /\ outcome' \in [Transactions -> {"open", "commit", "abort"}]
  /\ \A t \in Transactions : outcome[t] # "open" => outcome'[t] = outcome[t]
  /\ UNCHANGED applied

Apply(t, p) ==
  /\ outcome[t] = "commit"
  /\ applied' = [applied EXCEPT ![t] = @ \cup {p}]
  /\ UNCHANGED outcome

Next == Decide \/ \E t \in Transactions, p \in Participants : Apply(t, p)

Spec == Init /\ [][Next]_vars
=============================================================================
