----------------------------- MODULE JobService -----------------------------
(***************************************************************************)
(* What a client of the analysis API relies on: a submitted job is open    *)
(* until it is done or has failed, a failed job may be taken up again, a   *)
(* done job stays done, and no submission stores more than one completed   *)
(* result, however often it is attempted.                                  *)
(***************************************************************************)
EXTENDS Naturals

CONSTANT Jobs

VARIABLES phase,    \* "absent", "open", "done" or "failed"
          results   \* completed results stored since the job was submitted

vars == <<phase, results>>

Init == /\ phase = [j \in Jobs |-> "absent"]
        /\ results = [j \in Jobs |-> 0]

Submit(j) == /\ phase[j] = "absent"
             /\ phase' = [phase EXCEPT ![j] = "open"]
             /\ UNCHANGED results

Store(j) == /\ phase[j] = "open"
            /\ results[j] = 0
            /\ results' = [results EXCEPT ![j] = 1]
            /\ UNCHANGED phase

Settle(j) == /\ phase[j] = "open"
             /\ phase' \in {[phase EXCEPT ![j] = "done"], [phase EXCEPT ![j] = "failed"]}
             /\ UNCHANGED results

(* A failed job is attempted again. *)
Reopen(j) == /\ phase[j] = "failed"
             /\ phase' = [phase EXCEPT ![j] = "open"]
             /\ UNCHANGED results

Next == \E j \in Jobs : Submit(j) \/ Store(j) \/ Settle(j) \/ Reopen(j)

Spec == Init /\ [][Next]_vars
=============================================================================
