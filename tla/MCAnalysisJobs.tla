--------------------------- MODULE MCAnalysisJobs ---------------------------
(* Instances of AnalysisJobs for TLC. The workers differ in nothing but     *)
(* their name; the runs of liveness properties do not use the symmetry.     *)
EXTENDS AnalysisJobs, TLC

WorkerSymmetry == Permutations(Worker)

(* Two jobs under two faults are too much for TLC. Here what has begun goes *)
(* on as it may; a request, a delivery, a round of Beat or a fault is only  *)
(* added where one of two pictures is kept: one job of a request, handed    *)
(* over by that request, or, next to it, a second job, of which one is      *)
(* published and one executed at a time, none failed or reset, one fault.   *)
OneAtATime(S) == \A x, y \in S : x = y

OneRequest == Cardinality(Unborn) >= MaxJobs - 1 /\ \A b \in Beat : pub[b].pc = "idle"
Rerun == /\ Unborn = {} /\ faults <= 1
         /\ \A j \in Job : job[j].status # "FAILED" /\ job[j].requeued = 0
         /\ OneAtATime({p \in Publisher : pub[p].pc \notin {"idle", "select"}})
         /\ OneAtATime({w \in Worker : ~At(w, {"idle"})})

Begun ==
  \/ \E a \in Api : RequestRead(a) \/ ApiStep(a)
  \/ \E p \in Publisher : PublisherStep(p)
  \/ \E w \in Worker : WorkerStep(w) \/ HandlerDbError(w) \/ PublishRetryFails(w)
  \/ \E j \in Job : BackoffElapsed(j)
Added ==
  /\ \/ \E a \in Api, force \in BOOLEAN : QueueNew(a, force)
     \/ \E b \in Beat : SelectPending(b)
     \/ \E p \in Publisher : PublisherFault(p)
     \/ \E w \in Worker : WorkerFault(w) \/ \E m \in Message : Deliver(w, m)
  /\ (OneRequest \/ Rerun)'

FewerNext == Begun \/ Added
FewerSpec == Init /\ [][FewerNext]_vars
=============================================================================
