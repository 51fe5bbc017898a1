----------------------------- MODULE RunLedger -----------------------------
(***************************************************************************)
(* What the rest of the system relies on in the table of engine runs, for  *)
(* those who run the engines and for those who only wait for a result: a   *)
(* row is added as running and never removed, it is ended at most once,    *)
(* and a result can be withdrawn, but neither replaced nor brought back.   *)
(***************************************************************************)
EXTENDS Naturals, Sequences

VARIABLE ledger  \* the statuses of the rows, in id order

Result == {"completed", "not_applicable"}

Init == ledger = <<>>

Open == ledger' = Append(ledger, "running")

End(i) == /\ ledger[i] = "running"
          /\ \E status \in Result \cup {"failed"} : ledger' = [ledger EXCEPT ![i] = status]

(* The row is failed after all. *)
Withdraw(i) == /\ ledger[i] \in Result
               /\ ledger' = [ledger EXCEPT ![i] = "withdrawn"]

Next == Open \/ \E i \in 1..Len(ledger) : End(i) \/ Withdraw(i)

Spec == Init /\ [][Next]_ledger
=============================================================================
