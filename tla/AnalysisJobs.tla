---------------------------- MODULE AnalysisJobs ----------------------------
(***************************************************************************)
(* The asynchronous analysis pipeline of the backend for one evidence file *)
(* and one analysis type: API threads that queue a job together with a     *)
(* transactional outbox row, publishers that move outbox rows to the       *)
(* Celery broker, workers that run the forensic engine under at-least-once *)
(* delivery, and the periodic reconciler that fails abandoned jobs.        *)
(*                                                                         *)
(* One action is one database transaction (or one call to the broker);     *)
(* what a handler does between two of them is interleaved with all others. *)
(***************************************************************************)
EXTENDS Naturals, Sequences, FiniteSets

CONSTANTS
  Api,          \* request threads running queue_analysis_job
  Batch,        \* request threads running queue_batch_analysis
  Beat,         \* runs of dispatch_pending_analysis_jobs
  Worker,       \* Celery worker processes
  MaxRetries,   \* max_retries of run_analysis
  Faults,       \* the kinds of fault the environment may inject
  MaxJobs,      \* bound: AnalysisJob rows ever created
  MaxRequeues,  \* bound: times one FAILED job is queued again by a user
  MaxFaults     \* bound: faults in one behaviour (expired leases are free)

Publisher == Api \cup Batch \cup Beat

FaultKinds == {"db",       \* OperationalError or InterfaceError of the database
               "soft",     \* SoftTimeLimitExceeded or another exception in the task
               "kill",     \* hard time limit: process killed, delivery acknowledged
               "lost",     \* worker process lost: delivery put back, redelivered
               "publish",  \* the broker refuses a message or its answer is lost
               "crash",    \* an API thread or a publisher dies
               "expire"}   \* the 900 s of a lease elapse

ASSUME ThreadsAssumption ==
  Api \cap Batch = {} /\ Api \cap Beat = {} /\ Batch \cap Beat = {}
ASSUME BoundsAssumption ==
  /\ MaxRetries \in Nat /\ MaxJobs \in Nat /\ MaxRequeues \in Nat /\ MaxFaults \in Nat
  /\ Faults \subseteq FaultKinds

Job == 1..MaxJobs
Message == [job : Job, retries : 0..MaxRetries, redelivered : BOOLEAN]
NoMessage == [job |-> 0, retries |-> 0, redelivered |-> FALSE]
(* "running": the engine raised a ValueError, which run_engine passes on    *)
(* without ending the row.                                                 *)
EngineOutcome == {"completed", "failed", "not_applicable", "running"}
(* "withdrawn": a row that had a result when its handler set it to failed. *)
RowStatus == {"withdrawn"} \cup EngineOutcome

VARIABLES
  job,        \* the AnalysisJob rows; status "none" before the INSERT
  canonical,  \* the job whose request_hash is the unforced one, 0 if none
  outbox,     \* each job's outbox row: "none", "due", "backoff", "dispatched"
  rows,       \* the statuses of the Analysis rows, in id order
  queue,      \* the broker: how many copies of each message it holds
  pub,        \* API threads and publishers
  work,       \* the workers
  stale,      \* the jobs a reconciler run has read and not yet failed
  faults      \* faults so far

jobDb == <<job, canonical, outbox>>
vars == <<job, canonical, outbox, rows, queue, pub, work, stale, faults>>

JobRow == [status : {"none", "QUEUED", "RUNNING", "RETRYING", "COMPLETED", "FAILED"},
           queuedAt : Nat,        \* queued_at: how many Analysis rows existed then
           queuedOld : BOOLEAN,   \* queued_at lies before the reconciler's cutoff
           startedAt : {"null", "fresh", "old"},   \* started_at, old before the cutoff
           analysisId : Nat,      \* 0 for NULL
           requeued : Nat]        \* how often it was reset from FAILED
NoJob == [status |-> "none", queuedAt |-> 0, queuedOld |-> FALSE,
          startedAt |-> "null", analysisId |-> 0, requeued |-> 0]

Snapshot == [analysis : BOOLEAN, started : BOOLEAN, dispatched : BOOLEAN]
Unseen == [analysis |-> FALSE, started |-> FALSE, dispatched |-> FALSE]
PubState == [pc : {"idle", "reset", "select", "insert", "delay", "send", "mark", "bump"},
             job : Job \cup {0}, rest : SUBSET Job, seen : Snapshot]
IdlePub == [pc |-> "idle", job |-> 0, rest |-> {}, seen |-> Unseen]

WorkState == [pc : {"idle", "claim", "prepare", "start", "engine", "finish", "audit", "fail",
                    "failAudit", "inner", "outer", "outerFail", "retryInner", "retryOuter",
                    "return"},
              msg : Message \cup {NoMessage}, row : Nat]
IdleWork == [pc |-> "idle", msg |-> NoMessage, row |-> 0]

PubTypeOK == /\ pub \in [Publisher -> PubState]
             /\ \A p \in Publisher : pub[p].pc \notin {"idle", "insert"} => pub[p].job \in Job
WorkTypeOK == /\ work \in [Worker -> WorkState]
              /\ \A w \in Worker : work[w].pc # "idle" => work[w].msg \in Message
TypeOK ==
  /\ job \in [Job -> JobRow]
  /\ canonical \in Job \cup {0}
  /\ outbox \in [Job -> {"none", "due", "backoff", "dispatched"}]
  /\ rows \in Seq(RowStatus)
  /\ queue \in [Message -> Nat]
  /\ PubTypeOK
  /\ WorkTypeOK
  /\ stale \subseteq Job
  /\ faults \in Nat

Init ==
  /\ job = [j \in Job |-> NoJob]
  /\ canonical = 0
  /\ outbox = [j \in Job |-> "none"]
  /\ rows = << >>
  /\ queue = [m \in Message |-> 0]
  /\ pub = [p \in Publisher |-> IdlePub]
  /\ work = [w \in Worker |-> IdleWork]
  /\ stale = {}
  /\ faults = 0

Fault(kind) == kind \in Faults /\ faults < MaxFaults /\ faults' = faults + 1

Least(S) == CHOOSE j \in S : \A k \in S : j <= k
Greatest(S) == CHOOSE j \in S : \A k \in S : k <= j

-----------------------------------------------------------------------------
(* queue_analysis_job and queue_batch_analysis *)

Unborn == {j \in Job : job[j].status = "none"}
ApiJobs == {j \in Job : outbox[j] # "none"}

(* The job an unforced request is answered with: the one holding its hash, *)
(* else the newest job with the API's engine version; 0 if there is none.  *)
ExistingJob == IF canonical # 0 THEN canonical
               ELSE IF ApiJobs # {} THEN Greatest(ApiJobs) ELSE 0

(* The advisory lock on the request hash is held until the commit. *)
HashLockFree == \A a \in Api : pub[a].pc # "reset"

InsertJob(j) == job' = [job EXCEPT ![j] = [NoJob EXCEPT !.status = "QUEUED",
                                                        !.queuedAt = Len(rows)]]

(* A new job and its outbox row, committed together. *)
QueueNew(a, force) ==
  /\ pub[a].pc = "idle"
  /\ Unborn # {}
  /\ force \/ (HashLockFree /\ ExistingJob = 0)
  /\ LET j == Least(Unborn) IN
       /\ InsertJob(j)
       /\ outbox' = [outbox EXCEPT ![j] = "due"]
       /\ canonical' = IF force THEN canonical ELSE j
       /\ pub' = [pub EXCEPT ![a] = [IdlePub EXCEPT !.pc = "select", !.job = j]]
  /\ UNCHANGED <<rows, queue, work, stale, faults>>

(* A request finds its job FAILED and will reset it. What it read of the   *)
(* rows decides which columns its UPDATE mentions.                         *)
RequestRead(a) ==
  /\ pub[a].pc = "idle"
  /\ HashLockFree
  /\ ExistingJob # 0
  /\ LET j == ExistingJob IN
       /\ job[j].status = "FAILED"
       /\ job[j].requeued < MaxRequeues
       /\ pub' = [pub EXCEPT ![a] = [pc |-> "reset", job |-> j, rest |-> {},
                    seen |-> [analysis |-> job[j].analysisId # 0,
                              started |-> job[j].startedAt # "null",
                              dispatched |-> outbox[j] = "dispatched"]]]
  /\ UNCHANGED <<jobDb, rows, queue, work, stale, faults>>

(* The commit of the reset: a column that was read as NULL already is not  *)
(* written, so a value stored since then survives.                         *)
RequestReset(a) ==
  /\ pub[a].pc = "reset"
  /\ LET j == pub[a].job
         seen == pub[a].seen
     IN  /\ job' = [job EXCEPT ![j] =
              [status |-> "QUEUED", queuedAt |-> Len(rows), queuedOld |-> FALSE,
               startedAt |-> IF seen.started THEN "null" ELSE job[j].startedAt,
               analysisId |-> IF seen.analysis THEN 0 ELSE job[j].analysisId,
               requeued |-> job[j].requeued + 1]]
         /\ outbox' = [outbox EXCEPT ![j] =
              IF @ = "dispatched" /\ ~seen.dispatched THEN @ ELSE "due"]
         /\ canonical' = j
  /\ pub' = [pub EXCEPT ![a].pc = "select", ![a].seen = Unseen]
  /\ UNCHANGED <<rows, queue, work, stale, faults>>

(* A batch call looks for a job to skip, without any lock. *)
BatchCheck(b) ==
  /\ pub[b].pc = "idle"
  /\ \A j \in Job : job[j].status \notin {"QUEUED", "RUNNING", "COMPLETED"}
  /\ pub' = [pub EXCEPT ![b].pc = "insert"]
  /\ UNCHANGED <<jobDb, rows, queue, work, stale, faults>>

(* Its job has no outbox row: after the commit it is sent directly. *)
BatchInsert(b) ==
  /\ pub[b].pc = "insert"
  /\ Unborn # {}
  /\ InsertJob(Least(Unborn))
  /\ pub' = [pub EXCEPT ![b].pc = "delay", ![b].job = Least(Unborn)]
  /\ UNCHANGED <<canonical, outbox, rows, queue, work, stale, faults>>

FreshMessage(j) == [job |-> j, retries |-> 0, redelivered |-> FALSE]
Put(m) == queue' = [queue EXCEPT ![m] = @ + 1]

BatchDelay(b) ==
  /\ pub[b].pc = "delay"
  /\ Put(FreshMessage(pub[b].job))
  /\ pub' = [pub EXCEPT ![b] = IdlePub]
  /\ UNCHANGED <<jobDb, rows, work, stale, faults>>

(* The call fails, with or without the message in the queue: the job is    *)
(* failed whatever its status has become.                                  *)
BatchDelayFails(b) ==
  /\ pub[b].pc = "delay"
  /\ Fault("publish")
  /\ UNCHANGED queue \/ Put(FreshMessage(pub[b].job))
  /\ job' = [job EXCEPT ![pub[b].job].status = "FAILED"]
  /\ pub' = [pub EXCEPT ![b] = IdlePub]
  /\ UNCHANGED <<canonical, outbox, rows, work, stale>>

-----------------------------------------------------------------------------
(* publish_pending_analysis_jobs *)

Due == {j \in Job : outbox[j] = "due"}

(* Mutant: dispatched_at is stored with the attempt, before the message is sent. *)
BumpMarksDispatched(j) == outbox' = [outbox EXCEPT ![j] = "dispatched"]

(* The attempt is committed before the message is sent, which releases the *)
(* locks on all selected rows.                                             *)
Bump(j) == outbox' = [outbox EXCEPT ![j] = IF @ = "dispatched" THEN @ ELSE "backoff"]

NextRow(p) ==
  LET rest == pub[p].rest IN
  pub' = [pub EXCEPT ![p] =
    IF rest = {} THEN IdlePub
    ELSE [@ EXCEPT !.pc = "bump", !.job = Least(rest), !.rest = rest \ {Least(rest)}]]

(* The API thread publishes its own row, if that is still due. *)
SelectOwn(a) ==
  /\ pub[a].pc = "select"
  /\ IF pub[a].job \in Due
     THEN Bump(pub[a].job) /\ pub' = [pub EXCEPT ![a].pc = "send"]
     ELSE UNCHANGED outbox /\ pub' = [pub EXCEPT ![a] = IdlePub]
  /\ UNCHANGED <<job, canonical, rows, queue, work, stale, faults>>

(* Celery Beat publishes every due row, in id order. *)
SelectPending(b) ==
  /\ pub[b].pc = "idle"
  /\ Due # {}
  /\ Bump(Least(Due))
  /\ pub' = [pub EXCEPT ![b] = [IdlePub EXCEPT !.pc = "send", !.job = Least(Due),
                                               !.rest = Due \ {Least(Due)}]]
  /\ UNCHANGED <<job, canonical, rows, queue, work, stale, faults>>

(* The next row of the batch; its dispatched_at is not looked at again. *)
BumpNext(p) ==
  /\ pub[p].pc = "bump"
  /\ Bump(pub[p].job)
  /\ pub' = [pub EXCEPT ![p].pc = "send"]
  /\ UNCHANGED <<job, canonical, rows, queue, work, stale, faults>>

Send(p) ==
  /\ pub[p].pc = "send"
  /\ Put(FreshMessage(pub[p].job))
  /\ pub' = [pub EXCEPT ![p].pc = "mark"]
  /\ UNCHANGED <<jobDb, rows, work, stale, faults>>

SendFails(p) ==
  /\ pub[p].pc = "send"
  /\ Fault("publish")
  /\ UNCHANGED queue \/ Put(FreshMessage(pub[p].job))
  /\ NextRow(p)
  /\ UNCHANGED <<jobDb, rows, work, stale>>

Mark(p) ==
  /\ pub[p].pc = "mark"
  /\ outbox' = [outbox EXCEPT ![pub[p].job] = "dispatched"]
  /\ NextRow(p)
  /\ UNCHANGED <<job, canonical, rows, queue, work, stale, faults>>

MarkFails(p) ==
  /\ pub[p].pc = "mark"
  /\ Fault("db")
  /\ NextRow(p)
  /\ UNCHANGED <<jobDb, rows, queue, work, stale>>

(* A thread dies, or the audit append before the publication raises. *)
PublisherCrash(p) ==
  /\ pub[p].pc # "idle"
  /\ Fault("crash")
  /\ pub' = [pub EXCEPT ![p] = IdlePub]
  /\ UNCHANGED <<jobDb, rows, queue, work, stale>>

BackoffElapsed(j) ==
  /\ outbox[j] = "backoff"
  /\ outbox' = [outbox EXCEPT ![j] = "due"]
  /\ UNCHANGED <<job, canonical, rows, queue, pub, work, stale, faults>>

-----------------------------------------------------------------------------
(* run_analysis_task *)

outside == <<canonical, outbox, pub, stale>>   \* what no worker writes

At(w, pcs) == work[w].pc \in pcs
Goto(w, pc) == work' = [work EXCEPT ![w].pc = pc]
Return(w) == work' = [work EXCEPT ![w] = [IdleWork EXCEPT !.pc = "return", !.msg = work[w].msg]]
Ack(w) == work' = [work EXCEPT ![w] = IdleWork]   \* the delivery is acknowledged
SetStatus(w, s) == job' = [job EXCEPT ![work[w].msg.job].status = s]

Deliver(w, m) ==
  /\ At(w, {"idle"})
  /\ queue[m] > 0
  /\ queue' = [queue EXCEPT ![m] = @ - 1]
  /\ work' = [work EXCEPT ![w] = [pc |-> "claim", msg |-> m, row |-> 0]]
  /\ UNCHANGED <<job, rows, outside, faults>>

(* Mutants: the duplicate check sees completed, or only running jobs. *)
IsDuplicateCompletedOnly(m) == job[m.job].status = "COMPLETED"
IsDuplicateRunningOnly(m) ==
  job[m.job].status = "RUNNING" /\ ~m.redelivered /\ job[m.job].startedAt = "fresh"

IsDuplicate(m) ==
  \/ job[m.job].status = "COMPLETED"
  \/ job[m.job].status = "RUNNING" /\ ~m.redelivered /\ job[m.job].startedAt = "fresh"

DropDuplicate(w) ==
  /\ At(w, {"claim"})
  /\ IsDuplicate(work[w].msg)
  /\ Return(w)
  /\ UNCHANGED <<job, rows, queue, outside, faults>>

(* Mutant: started_at is only set by the first attempt and by a redelivery. *)
ClaimKeepsStart(w) ==
  LET m == work[w].msg IN
  /\ At(w, {"claim"})
  /\ ~IsDuplicate(m)
  /\ job' = [job EXCEPT ![m.job].status = "RUNNING",
                        ![m.job].startedAt = IF job[m.job].requeued = 0 \/ m.redelivered
                                             THEN "fresh" ELSE @]
  /\ Goto(w, "prepare")
  /\ UNCHANGED <<rows, queue, outside, faults>>

(* Any other status is taken over: QUEUED, RETRYING, FAILED, an old RUNNING. *)
Claim(w) ==
  /\ At(w, {"claim"})
  /\ ~IsDuplicate(work[w].msg)
  /\ job' = [job EXCEPT ![work[w].msg.job].status = "RUNNING",
                        ![work[w].msg.job].startedAt = "fresh"]
  /\ Goto(w, "prepare")
  /\ UNCHANGED <<rows, queue, outside, faults>>

(* Mutant: without the filter created_at >= queued_at. *)
ResultsEver(j) == {i \in 1..Len(rows) : j \in Job /\ rows[i] = "completed"}

(* The completed results created since the job was queued. *)
ResultsSince(j) == {i \in 1..Len(rows) : i > job[j].queuedAt /\ rows[i] = "completed"}

(* A later attempt adopts the newest result an earlier one has stored. *)
Recover(w) ==
  LET j == work[w].msg.job IN
  /\ At(w, {"prepare"})
  /\ ResultsSince(j) # {}
  /\ job' = [job EXCEPT ![j].status = "COMPLETED",
                        ![j].analysisId = Greatest(ResultsSince(j))]
  /\ Return(w)
  /\ UNCHANGED <<rows, queue, outside, faults>>

(* Mutant: the engine runs whatever is stored already. *)
NoRecovery(w) ==
  /\ At(w, {"prepare"})
  /\ Goto(w, "start")
  /\ UNCHANGED <<job, rows, queue, outside, faults>>

(* There is none: the ANALYSIS_STARTED event is appended and committed. *)
NoResult(w) ==
  /\ At(w, {"prepare"})
  /\ ResultsSince(work[w].msg.job) = {}
  /\ Goto(w, "start")
  /\ UNCHANGED <<job, rows, queue, outside, faults>>

(* The engine inserts its Analysis row, or refuses before it has one. *)
EngineStart(w) ==
  /\ At(w, {"start"})
  /\ \/ /\ rows' = Append(rows, "running")
        /\ work' = [work EXCEPT ![w].pc = "engine", ![w].row = Len(rows) + 1]
     \/ /\ Goto(w, "fail")
        /\ UNCHANGED rows
  /\ UNCHANGED <<job, queue, outside, faults>>

(* Mutant: a failed engine result is not raised as an error. *)
EngineEndNoRaise(w) ==
  /\ At(w, {"engine"})
  /\ \E r \in EngineOutcome :
       /\ rows' = [rows EXCEPT ![work[w].row] = r]
       /\ Goto(w, IF r = "running" THEN "fail" ELSE "finish")
  /\ UNCHANGED <<job, queue, outside, faults>>

EngineEnd(w) ==
  /\ At(w, {"engine"})
  /\ \E r \in EngineOutcome :
       /\ rows' = [rows EXCEPT ![work[w].row] = r]
       /\ Goto(w, IF r \in {"failed", "running"} THEN "fail" ELSE "finish")
  /\ UNCHANGED <<job, queue, outside, faults>>

(* The result is stored whatever the job's status has become. *)
Finish(w) ==
  /\ At(w, {"finish"})
  /\ job' = [job EXCEPT ![work[w].msg.job].status = "COMPLETED",
                        ![work[w].msg.job].analysisId = work[w].row]
  /\ Goto(w, "audit")
  /\ UNCHANGED <<rows, queue, outside, faults>>

(* A job that fails without an analysis_id is given the newest row. *)
FailJob(w) ==
  /\ At(w, {"fail"})
  /\ job' = [job EXCEPT ![work[w].msg.job].status = "FAILED",
                        ![work[w].msg.job].analysisId = IF @ = 0 THEN Len(rows) ELSE @]
  /\ Goto(w, "failAudit")
  /\ UNCHANGED <<rows, queue, outside, faults>>

(* The final audit event is appended and the task returns. *)
FinalAudit(w) ==
  /\ At(w, {"audit", "failAudit"})
  /\ Return(w)
  /\ UNCHANGED <<job, rows, queue, outside, faults>>

-----------------------------------------------------------------------------
(* The exception handlers of run_analysis_task *)

(* A database error inside the inner try reaches the inner handler, one    *)
(* before it or in a handler the outer one. The engine turns an error of   *)
(* its last commit into an unexpected one, but not that of reading back a  *)
(* row it has just inserted, or has just failed.                           *)
DbHandlers(pc) == CASE pc \in {"claim", "prepare", "failAudit", "inner"} -> {"outer"}
                    [] pc \in {"start", "finish", "audit"} -> {"inner"}
                    [] pc = "engine" -> {"inner", "outerFail"}
                    [] pc = "fail" -> {"inner", "outer"}

DbError(w) ==
  /\ At(w, {"claim", "prepare", "start", "engine", "finish", "audit",
            "fail", "failAudit", "inner"})
  /\ Fault("db")
  /\ \E pc \in DbHandlers(work[w].pc) : Goto(w, pc)
  /\ UNCHANGED <<job, rows, queue, outside>>

(* The database is gone in the last handler too: nothing is written. *)
HandlerDbError(w) ==
  /\ At(w, {"outer", "outerFail"})
  /\ Fault("db")
  /\ Return(w)
  /\ UNCHANGED <<job, rows, queue, outside>>

(* SoftTimeLimitExceeded, an audit collision or any other exception. *)
SoftError(w) ==
  /\ At(w, {"claim", "prepare", "start", "finish", "audit", "fail", "failAudit"})
  /\ Fault("soft")
  /\ Goto(w, IF At(w, {"start", "finish", "audit"}) THEN "fail" ELSE "outerFail")
  /\ UNCHANGED <<job, rows, queue, outside>>

(* The result is committed, and an error strikes before the engine has     *)
(* read its row back: its handler fails the row, which another attempt may *)
(* have adopted by now, or cannot write either.                            *)
RefreshFails(w) ==
  /\ At(w, {"finish"})
  /\ \/ /\ Fault("db") \/ Fault("soft")
        /\ rows' = [rows EXCEPT ![work[w].row] = "withdrawn"]
        /\ Goto(w, "fail")
     \/ /\ Fault("db")
        /\ Goto(w, "outerFail")
        /\ UNCHANGED rows
  /\ UNCHANGED <<job, queue, outside>>

(* The handler of unexpected errors, and a delivery without retries left. *)
GiveUp(w) ==
  /\ \/ At(w, {"outerFail"})
     \/ At(w, {"inner", "outer"}) /\ work[w].msg.retries = MaxRetries
  /\ SetStatus(w, "FAILED")
  /\ Return(w)
  /\ UNCHANGED <<rows, queue, outside, faults>>

(* Mutant: the handler marks the job and does not raise Retry. *)
MarkRetryingUnsent(w) ==
  /\ At(w, {"inner", "outer"})
  /\ work[w].msg.retries < MaxRetries
  /\ SetStatus(w, "RETRYING")
  /\ Return(w)
  /\ UNCHANGED <<rows, queue, outside, faults>>

MarkRetrying(w) ==
  /\ At(w, {"inner", "outer"})
  /\ work[w].msg.retries < MaxRetries
  /\ SetStatus(w, "RETRYING")
  /\ Goto(w, IF At(w, {"inner"}) THEN "retryInner" ELSE "retryOuter")
  /\ UNCHANGED <<rows, queue, outside, faults>>

(* self.retry publishes a new message and ends the task. *)
PublishRetry(w) ==
  /\ At(w, {"retryInner", "retryOuter"})
  /\ Put([FreshMessage(work[w].msg.job) EXCEPT !.retries = work[w].msg.retries + 1])
  /\ Return(w)
  /\ UNCHANGED <<job, rows, outside, faults>>

(* It cannot: from the inner handler the job is failed, in the outer one   *)
(* the error is swallowed.                                                 *)
PublishRetryFails(w) ==
  /\ At(w, {"retryInner", "retryOuter"})
  /\ Fault("publish")
  /\ IF At(w, {"retryInner"}) THEN Goto(w, "outerFail") ELSE Return(w)
  /\ UNCHANGED <<job, rows, queue, outside>>

(* Celery acknowledges late: after the task has returned. *)
Acknowledge(w) ==
  /\ At(w, {"return"})
  /\ Ack(w)
  /\ UNCHANGED <<job, rows, queue, outside, faults>>

HardKill(w) ==
  /\ ~At(w, {"idle"})
  /\ Fault("kill")
  /\ Ack(w)
  /\ UNCHANGED <<job, rows, queue, outside>>

WorkerLost(w) ==
  /\ ~At(w, {"idle"})
  /\ Fault("lost")
  /\ Put([work[w].msg EXCEPT !.redelivered = TRUE])
  /\ Ack(w)
  /\ UNCHANGED <<job, rows, outside>>

-----------------------------------------------------------------------------
(* reconcile_stale_analysis_jobs *)

Idling(w, j) == At(w, {"idle", "claim"}) \/ work[w].msg.job # j

(* 900 s pass. No attempt outlives the time limit of 330 s, so whoever     *)
(* claimed the job before has ended.                                       *)
LeaseExpires(j) ==
  /\ "expire" \in Faults
  /\ \A w \in Worker : Idling(w, j)
  /\ \/ /\ job[j].status = "QUEUED" /\ ~job[j].queuedOld
        /\ job' = [job EXCEPT ![j].queuedOld = TRUE]
     \/ /\ job[j].status \in {"RUNNING", "RETRYING"} /\ job[j].startedAt = "fresh"
        /\ job' = [job EXCEPT ![j].startedAt = "old"]
  /\ UNCHANGED <<canonical, outbox, rows, queue, pub, work, stale, faults>>

(* Mutant: the reconciler overlooks jobs that were never started. *)
IsStaleStartedOnly(j) == job[j].status \in {"RUNNING", "RETRYING"} /\ job[j].startedAt = "old"

IsStale(j) == \/ job[j].status \in {"RUNNING", "RETRYING"} /\ job[j].startedAt = "old"
              \/ job[j].status = "QUEUED" /\ job[j].queuedOld

ReconcileRead ==
  /\ stale = {}
  /\ \E j \in Job : IsStale(j)
  /\ stale' = {j \in Job : IsStale(j)}
  /\ UNCHANGED <<jobDb, rows, queue, pub, work, faults>>

(* One job of the list, committed with its audit event. The UPDATE does    *)
(* not look at the status again.                                           *)
ReconcileFail(j) ==
  /\ j \in stale
  /\ job' = [job EXCEPT ![j].status = "FAILED"]
  /\ stale' = stale \ {j}
  /\ UNCHANGED <<canonical, outbox, rows, queue, pub, work, faults>>

(* An append fails: the rest of the list waits for the next run. *)
ReconcileAborts ==
  /\ stale # {}
  /\ Fault("db")
  /\ stale' = {}
  /\ UNCHANGED <<jobDb, rows, queue, pub, work>>

-----------------------------------------------------------------------------
ApiStep(a) == RequestReset(a) \/ SelectOwn(a)
BatchStep(b) == BatchInsert(b) \/ BatchDelay(b)
PublisherStep(p) == BumpNext(p) \/ Send(p) \/ Mark(p)
PublisherFault(p) == SendFails(p) \/ MarkFails(p) \/ PublisherCrash(p)
WorkerStep(w) ==
  \/ DropDuplicate(w) \/ Claim(w) \/ Recover(w) \/ NoResult(w)
  \/ EngineStart(w) \/ EngineEnd(w) \/ Finish(w) \/ FailJob(w) \/ FinalAudit(w)
  \/ GiveUp(w) \/ MarkRetrying(w) \/ PublishRetry(w) \/ Acknowledge(w)
WorkerFault(w) ==
  \/ DbError(w) \/ HandlerDbError(w) \/ SoftError(w) \/ RefreshFails(w)
  \/ PublishRetryFails(w) \/ HardKill(w) \/ WorkerLost(w)

Next ==
  \/ \E a \in Api : (\E force \in BOOLEAN : QueueNew(a, force)) \/ RequestRead(a) \/ ApiStep(a)
  \/ \E b \in Batch : BatchCheck(b) \/ BatchStep(b) \/ BatchDelayFails(b)
  \/ \E b \in Beat : SelectPending(b)
  \/ \E p \in Publisher : PublisherStep(p) \/ PublisherFault(p)
  \/ \E w \in Worker : WorkerStep(w) \/ WorkerFault(w) \/ \E m \in Message : Deliver(w, m)
  \/ \E j \in Job : BackoffElapsed(j) \/ LeaseExpires(j) \/ ReconcileFail(j)
  \/ ReconcileRead
  \/ ReconcileAborts

Spec == Init /\ [][Next]_vars

(* The scheduling the deployment provides: threads and processes that are  *)
(* not killed go on, Beat runs its tasks, time passes, and the broker,     *)
(* which is a queue, hands every message to a worker in the end.           *)
Fairness ==
  /\ \A p \in Publisher : WF_vars(PublisherStep(p))
  /\ \A a \in Api : WF_vars(ApiStep(a))
  /\ \A b \in Batch : WF_vars(BatchStep(b))
  /\ \A b \in Beat : WF_vars(SelectPending(b))
  /\ \A w \in Worker : WF_vars(WorkerStep(w))
  /\ \A m \in Message : SF_vars(\E w \in Worker : Deliver(w, m))
  /\ \A j \in Job : /\ WF_vars(BackoffElapsed(j))
                    /\ WF_vars(LeaseExpires(j))
                    /\ WF_vars(ReconcileFail(j))
  /\ WF_vars(ReconcileRead)

FairSpec == Spec /\ Fairness

-----------------------------------------------------------------------------
(* A job is COMPLETED only with the row of an engine run that came to a    *)
(* result, however its attempts were duplicated, killed, redelivered or    *)
(* reset in between.                                                       *)
CompletedHasResult ==
  \A j \in Job : job[j].status = "COMPLETED" =>
    /\ job[j].analysisId \in 1..Len(rows)
    /\ rows[job[j].analysisId] \in {"completed", "not_applicable", "withdrawn"}

(* Nor is it taken back: no run fails the row after all once a job has     *)
(* been completed with it.                                                 *)
ResultStands == \A j \in Job :
  job[j].status = "COMPLETED" => rows[job[j].analysisId] # "withdrawn"

(* A RUNNING job always carries the started_at by which the reconciler     *)
(* finds it, also when a reset and a claim overlap.                        *)
RunningHasLease == \A j \in Job : job[j].status = "RUNNING" => job[j].startedAt # "null"

(* A job that was never reset is not answered with a result older than its *)
(* own request: a forced rerun does not adopt what an earlier job stored.  *)
FreshResult == \A j \in Job :
  job[j].status = "COMPLETED" /\ job[j].requeued = 0 => job[j].analysisId > job[j].queuedAt

(* No two workers execute one job at the same time: "the worker ignores    *)
(* duplicate deliveries for completed or currently running jobs"           *)
(* (docs/architecture.md:79).                                              *)
Executing(w, j) == At(w, {"prepare", "start", "engine", "finish"}) /\ work[w].msg.job = j
Exclusive == \A j \in Job, v, w \in Worker : Executing(v, j) /\ Executing(w, j) => v = w

(* A queued job that was accepted through the outbox has a message under   *)
(* way or a row still to be sent; it does not have to wait for the         *)
(* reconciler to give it up (docs/architecture.md:77-79).                  *)
OnItsWay(j) == \/ outbox[j] \in {"due", "backoff"}
               \/ \E m \in Message : m.job = j /\ queue[m] > 0
               \/ \E w \in Worker : At(w, {"claim"}) /\ work[w].msg.job = j
DispatchCovered ==
  \A j \in Job : job[j].status = "QUEUED" /\ outbox[j] # "none" => OnItsWay(j)

(* "Deterministically moves: QUEUED -> RUNNING -> COMPLETED or FAILED"     *)
(* (docs/architecture.md:81): a COMPLETED job stays COMPLETED.             *)
CompletedFinal ==
  [][\A j \in Job : job[j].status = "COMPLETED" => job'[j].status = "COMPLETED"]_vars

(* Every accepted job is settled in the end, by a worker or by the         *)
(* reconciler, which marks "jobs abandoned beyond the configured worker    *)
(* time limit as recoverable failures" (analysis_worker.py:243).           *)
Settles == \A j \in Job :
  job[j].status \in {"QUEUED", "RUNNING"} ~> job[j].status \in {"COMPLETED", "FAILED"}

(* No open job is out of everybody's sight: one without a started_at, which *)
(* the reconciler does not find, has its message under way.                *)
RetryComes(j) ==
  \/ \E m \in Message : m.job = j /\ queue[m] > 0
  \/ \E w \in Worker : At(w, {"claim", "retryInner", "retryOuter"}) /\ work[w].msg.job = j
Findable == \A j \in Job :
  job[j].status \in {"RUNNING", "RETRYING"} /\ job[j].startedAt = "null" => RetryComes(j)

(* The pipeline implements what its clients rely on: phases for statuses,  *)
(* attempts, messages and outbox hidden.                                   *)
Phase(s) == CASE s = "none" -> "absent"
              [] s \in {"QUEUED", "RUNNING", "RETRYING"} -> "open"
              [] s = "COMPLETED" -> "done"
              [] s = "FAILED" -> "failed"
Service == INSTANCE JobService WITH
  Jobs <- Job,
  phase <- [j \in Job |-> Phase(job[j].status)],
  results <- [j \in Job |-> Cardinality(ResultsSince(j))]
ImplementsService == Service!Spec

(* What the pipeline does to the rows of the engine runs, as all that is   *)
(* said about them by the module of the engines (EngineRuns).              *)
Ledger == INSTANCE RunLedger WITH ledger <- rows
ImplementsLedger == Ledger!Spec
=============================================================================
