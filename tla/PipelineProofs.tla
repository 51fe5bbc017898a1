--------------------------- MODULE PipelineProofs ---------------------------
(* Proofs about AnalysisJobs that follow one job through the whole         *)
(* pipeline: how its result, its message and its phase stay true to it.    *)
EXTENDS AnalysisJobsProofs

-----------------------------------------------------------------------------
(* Rows, messages and processes refer to jobs that exist *)

Born(j) == job[j].status # "none"

(* What has been committed, sent, taken up or delivered names a job whose  *)
(* INSERT is committed.                                                    *)
BornOutbox == \A j \in Job : outbox[j] # "none" => Born(j)
BornQueue == \A m \in Message : queue[m] > 0 => Born(m.job)
BornPub == \A p \in Publisher : /\ pub[p].pc \notin {"idle", "insert"} => Born(pub[p].job)
                                /\ \A k \in pub[p].rest : Born(k)
BornWork == \A w \in Worker : work[w].pc # "idle" => Born(work[w].msg.job)
BornInv == BornOutbox /\ BornQueue /\ BornPub /\ BornWork

(* What the later proofs need of the types, as facts about one variable.   *)
LEMMA Shapes ==
  ASSUME TypeOK
  PROVE  /\ job \in [Job -> JobRow] /\ outbox \in [Job -> {"none", "due", "backoff", "dispatched"}]
         /\ queue \in [Message -> Nat] /\ pub \in [Publisher -> PubState]
         /\ work \in [Worker -> WorkState] /\ rows \in Seq(RowStatus) /\ Len(rows) \in Nat
         /\ \A p \in Publisher : pub[p].pc \notin {"idle", "insert"} => pub[p].job \in Job
         /\ \A w \in Worker : work[w].pc # "idle" =>
              work[w].msg \in Message /\ work[w].msg.job \in Job
         /\ Api \subseteq Publisher /\ Batch \subseteq Publisher /\ Beat \subseteq Publisher
BY LenProperties DEF TypeOK, PubTypeOK, WorkTypeOK, Message, Publisher

(* The next free job number is one that is free.                           *)
LEMMA NextUnborn == ASSUME Unborn # {} PROVE Least(Unborn) \in Job /\ ~Born(Least(Unborn))
<1>1. Unborn \subseteq 1..MaxJobs /\ MaxJobs \in Nat
  BY BoundsAssumption DEF Unborn, Job
<1>2. Least(Unborn) \in Unborn
  BY <1>1, LeastIn
<1> QED BY <1>2 DEF Unborn, Born

(* What an INSERT does to the table.                                       *)
LEMMA InsertEffect ==
  ASSUME TypeOK, NEW k \in Job, InsertJob(k)
  PROVE  /\ \A j \in Job : j # k => job'[j] = job[j]
         /\ job'[k].status = "QUEUED" /\ job'[k].queuedAt = Len(rows)
         /\ job'[k].requeued = 0 /\ job'[k].analysisId = 0
         /\ job'[k].startedAt = "null" /\ ~job'[k].queuedOld
BY Shapes DEF InsertJob, NoJob

(* A step that is no INSERT and no reset keeps what was stored when the    *)
(* job was queued, and the job stays in the table.                         *)
QueueingKept ==
  \A j \in Job : /\ job'[j].queuedAt = job[j].queuedAt /\ job'[j].requeued = job[j].requeued
                 /\ Born(j) => Born(j)'

(* The steps of workers keep it.                                           *)
LEMMA WorkerQueueing ==
  ASSUME TypeOK, NEW w \in Worker,
         WorkerStep(w) \/ WorkerFault(w) \/ \E m \in Message : Deliver(w, m)
  PROVE  QueueingKept
<1> USE DEF QueueingKept, Born
<1>0. job \in [Job -> JobRow]
  BY Shapes
<1>1. CASE Claim(w)
  BY <1>0, <1>1 DEF Claim, JobRow
<1>2. CASE Recover(w) \/ Finish(w)
  BY <1>0, <1>2 DEF Recover, Finish, JobRow
<1>3. CASE FailJob(w)
  BY <1>0, <1>3 DEF FailJob, JobRow
<1>4. CASE GiveUp(w) \/ MarkRetrying(w)
  BY <1>0, <1>4 DEF GiveUp, MarkRetrying, SetStatus, JobRow
<1>5. CASE \/ DropDuplicate(w) \/ NoResult(w) \/ EngineStart(w) \/ EngineEnd(w) \/ FinalAudit(w)
           \/ PublishRetry(w) \/ Acknowledge(w) \/ WorkerFault(w) \/ \E m \in Message : Deliver(w, m)
  <2>1. job' = job
    BY <1>5 DEF DropDuplicate, NoResult, EngineStart, EngineEnd, FinalAudit, PublishRetry,
                Acknowledge, WorkerFault, DbError, HandlerDbError, SoftError, RefreshFails,
                PublishRetryFails, HardKill, WorkerLost, Deliver
  <2> QED BY <2>1
<1> QED BY <1>1, <1>2, <1>3, <1>4, <1>5 DEF WorkerStep

(* So do publishers, batch failures, time and the reconciler.              *)
LEMMA OtherQueueing ==
  ASSUME TypeOK, BornPub,
         \/ \E a \in Api : RequestRead(a) \/ SelectOwn(a)
         \/ \E b \in Batch : BatchCheck(b) \/ BatchDelay(b) \/ BatchDelayFails(b)
         \/ \E b \in Beat : SelectPending(b)
         \/ \E p \in Publisher : PublisherStep(p) \/ PublisherFault(p)
         \/ \E j \in Job : BackoffElapsed(j) \/ LeaseExpires(j) \/ ReconcileFail(j)
         \/ ReconcileRead \/ ReconcileAborts
  PROVE  QueueingKept
<1> USE DEF QueueingKept, Born
<1>0. job \in [Job -> JobRow]
  BY Shapes
<1>1. ASSUME NEW b \in Batch, BatchDelayFails(b) PROVE QueueingKept
  BY <1>0, <1>1 DEF BatchDelayFails, JobRow
<1>2. ASSUME NEW j \in Job, LeaseExpires(j) PROVE QueueingKept
  BY <1>0, <1>2 DEF LeaseExpires, JobRow
<1>3. ASSUME NEW j \in Job, ReconcileFail(j) PROVE QueueingKept
  BY <1>0, <1>3 DEF ReconcileFail, JobRow
<1>4. ASSUME \/ \E a \in Api : RequestRead(a) \/ SelectOwn(a)
             \/ \E b \in Batch : BatchCheck(b) \/ BatchDelay(b)
             \/ \E b \in Beat : SelectPending(b)
             \/ \E j \in Job : BackoffElapsed(j)
             \/ ReconcileRead \/ ReconcileAborts
      PROVE  job' = job
  BY <1>4 DEF RequestRead, SelectOwn, BatchCheck, BatchDelay, SelectPending, BackoffElapsed,
              ReconcileRead, ReconcileAborts, jobDb
<1>5. ASSUME NEW p \in Publisher, PublisherStep(p) \/ PublisherFault(p) PROVE job' = job
  BY <1>5 DEF PublisherStep, PublisherFault, BumpNext, Send, Mark, SendFails, MarkFails,
              PublisherCrash, jobDb
<1> QED BY <1>1, <1>2, <1>3, <1>4, <1>5

(* A worker's step inside a delivery keeps its message or drops it, moves  *)
(* no other worker, and sends messages for its own job only.               *)
OwnWork(w) ==
  /\ \A v \in Worker \ {w} : work'[v] = work[v]
  /\ work'[w].pc = "idle" \/ work'[w].msg = work[w].msg
  /\ \A m \in Message : queue'[m] > 0 => queue[m] > 0 \/ m.job = work[w].msg.job
  /\ UNCHANGED <<outbox, pub>>

(* What the three ways to move a worker do.                                *)
LEMMA Moves ==
  ASSUME TypeOK, NEW w \in Worker
  PROVE  /\ \A pc : Goto(w, pc) =>
              /\ work'[w].pc = pc /\ work'[w].msg = work[w].msg /\ work'[w].row = work[w].row
              /\ \A v \in Worker \ {w} : work'[v] = work[v]
         /\ Return(w) => /\ work'[w].pc = "return" /\ work'[w].msg = work[w].msg
                         /\ \A v \in Worker \ {w} : work'[v] = work[v]
         /\ Ack(w) => /\ work'[w].pc = "idle" /\ work'[w].msg = NoMessage
                      /\ \A v \in Worker \ {w} : work'[v] = work[v]
<1> DEFINE s == [IdleWork EXCEPT !.pc = "return", !.msg = work[w].msg]
<1>0. work \in [Worker -> WorkState]
  BY Shapes
<1>1. /\ s.pc = "return" /\ s.msg = work[w].msg
      /\ IdleWork.pc = "idle" /\ IdleWork.msg = NoMessage
  BY DEF IdleWork
<1>2. \A pc : Goto(w, pc) =>
        /\ work'[w].pc = pc /\ work'[w].msg = work[w].msg /\ work'[w].row = work[w].row
        /\ \A v \in Worker \ {w} : work'[v] = work[v]
  BY <1>0 DEF Goto, WorkState
<1>3. Return(w) => work' = [work EXCEPT ![w] = s]
  BY DEF Return
<1> HIDE DEF s
<1> QED BY <1>0, <1>1, <1>2, <1>3 DEF Ack

(* Sending a message leaves the others where they were.                    *)
LEMMA PutEffect ==
  ASSUME TypeOK, NEW m, Put(m)
  PROVE  /\ m \in Message => queue'[m] > 0
         /\ \A n \in Message : queue[n] > 0 => queue'[n] > 0
         /\ \A n \in Message : queue'[n] > 0 => queue[n] > 0 \/ n = m
BY Shapes DEF Put

(* What a lost worker's delivery becomes is about the same job.            *)
LEMMA Redelivered ==
  ASSUME TypeOK, NEW w \in Worker, ~At(w, {"idle"})
  PROVE  /\ [work[w].msg EXCEPT !.redelivered = TRUE] \in Message
         /\ [work[w].msg EXCEPT !.redelivered = TRUE].job = work[w].msg.job
<1>1. work[w].msg \in Message
  BY Shapes DEF At
<1> QED BY <1>1 DEF Message

(* Worker steps are of that form.                                          *)
LEMMA OwnWorkSteps ==
  ASSUME TypeOK, NEW w \in Worker, WorkerStep(w) \/ WorkerFault(w)
  PROVE  OwnWork(w) /\ ~At(w, {"idle"})
<1> USE DEF OwnWork, outside
<1>1. CASE \/ DropDuplicate(w) \/ Claim(w) \/ Recover(w) \/ NoResult(w) \/ EngineEnd(w)
           \/ Finish(w) \/ FailJob(w) \/ FinalAudit(w) \/ GiveUp(w) \/ MarkRetrying(w)
           \/ Acknowledge(w)
  BY <1>1, Moves DEF DropDuplicate, Claim, Recover, NoResult, EngineEnd, Finish, FailJob,
                     FinalAudit, GiveUp, MarkRetrying, Acknowledge, At
<1>2. CASE EngineStart(w)
  BY <1>2, Moves, Shapes DEF EngineStart, WorkState, At
<1>3. CASE \/ DbError(w) \/ HandlerDbError(w) \/ SoftError(w) \/ RefreshFails(w)
           \/ PublishRetryFails(w) \/ HardKill(w)
  BY <1>3, Moves DEF DbError, HandlerDbError, SoftError, RefreshFails, PublishRetryFails,
                     HardKill, At
<1>4. CASE PublishRetry(w)
  <2> DEFINE n == [FreshMessage(work[w].msg.job) EXCEPT !.retries = work[w].msg.retries + 1]
  <2>1. Put(n) /\ Return(w) /\ UNCHANGED outside /\ ~At(w, {"idle"})
    BY <1>4 DEF PublishRetry, At
  <2>2. n.job = work[w].msg.job
    BY DEF FreshMessage
  <2> HIDE DEF n
  <2> QED BY <2>1, <2>2, Moves, PutEffect
<1>5. CASE WorkerLost(w)
  <2> DEFINE n == [work[w].msg EXCEPT !.redelivered = TRUE]
  <2>1. Put(n) /\ Ack(w) /\ UNCHANGED outside /\ ~At(w, {"idle"})
    BY <1>5 DEF WorkerLost
  <2>2. n.job = work[w].msg.job
    BY <2>1, Redelivered
  <2> HIDE DEF n
  <2> QED BY <2>1, <2>2, Moves, PutEffect
<1> QED BY <1>1, <1>2, <1>3, <1>4, <1>5 DEF WorkerStep, WorkerFault

(* A publisher's step inside its batch is about the row at hand, and goes  *)
(* on with that row or with another of the rows it has selected.           *)
OwnRow(p) ==
  /\ \A q \in Publisher \ {p} : pub'[q] = pub[q]
  /\ pub'[p].rest \subseteq pub[p].rest
  /\ pub'[p].pc # "idle" => pub'[p].job \in {pub[p].job} \cup pub[p].rest
  /\ \A m \in Message : queue'[m] > 0 => queue[m] > 0 \/ m.job = pub[p].job
  /\ \A m \in Message : queue[m] > 0 => queue'[m] > 0
  /\ \A j \in Job : outbox'[j] = outbox[j] \/ j = pub[p].job
  /\ UNCHANGED <<job, rows, work>>

(* NextRow takes the next selected row or ends the batch.                  *)
LEMMA NextRowEffect ==
  ASSUME TypeOK, NEW p \in Publisher, NextRow(p)
  PROVE  /\ \A q \in Publisher \ {p} : pub'[q] = pub[q]
         /\ pub'[p].rest \subseteq pub[p].rest
         /\ pub'[p].pc \in {"idle", "bump"}
         /\ pub'[p].pc # "idle" => pub'[p].job \in pub[p].rest
<1>0. pub \in [Publisher -> PubState]
  BY Shapes
<1>1. CASE pub[p].rest = {}
  BY <1>0, <1>1 DEF NextRow, IdlePub
<1>2. CASE pub[p].rest # {}
  <2> DEFINE k == Least(pub[p].rest)
  <2>1. pub' = [pub EXCEPT ![p] =
                  [pub[p] EXCEPT !.pc = "bump", !.job = k, !.rest = pub[p].rest \ {k}]]
    BY <1>0, <1>2 DEF NextRow
  <2>2. k \in pub[p].rest
    <3>1. pub[p].rest \subseteq 1..MaxJobs /\ MaxJobs \in Nat
      BY <1>0, BoundsAssumption DEF PubState, Job
    <3> QED BY <1>2, <3>1, LeastIn
  <2> HIDE DEF k
  <2> QED BY <1>0, <2>1, <2>2 DEF PubState
<1> QED BY <1>1, <1>2

(* The steps of a publisher are of that form.                              *)
LEMMA OwnRowSteps ==
  ASSUME TypeOK, NEW p \in Publisher,
         (p \in Api /\ SelectOwn(p)) \/ PublisherStep(p) \/ PublisherFault(p)
  PROVE  OwnRow(p) /\ pub[p].pc # "idle"
<1> USE DEF OwnRow, jobDb
<1>0. /\ pub \in [Publisher -> PubState] /\ queue \in [Message -> Nat]
      /\ outbox \in [Job -> {"none", "due", "backoff", "dispatched"}]
      /\ IdlePub.pc = "idle" /\ IdlePub.rest = {}
  BY Shapes DEF IdlePub
<1>1. ASSUME NEW pc, pub' = [pub EXCEPT ![p].pc = pc]
      PROVE  /\ \A q \in Publisher \ {p} : pub'[q] = pub[q]
             /\ pub'[p].rest = pub[p].rest /\ pub'[p].job = pub[p].job
  BY <1>0, <1>1 DEF PubState
<1>2. ASSUME pub' = [pub EXCEPT ![p] = IdlePub]
      PROVE  /\ \A q \in Publisher \ {p} : pub'[q] = pub[q]
             /\ pub'[p].rest = {} /\ pub'[p].pc = "idle"
  BY <1>0, <1>2
<1>3. ASSUME Put(FreshMessage(pub[p].job))
      PROVE  /\ \A m \in Message : queue'[m] > 0 => queue[m] > 0 \/ m.job = pub[p].job
             /\ \A m \in Message : queue[m] > 0 => queue'[m] > 0
  <2> DEFINE n == FreshMessage(pub[p].job)
  <2>1. n.job = pub[p].job
    BY DEF FreshMessage
  <2>2. Put(n)
    BY <1>3
  <2> HIDE DEF n
  <2> QED BY <2>1, <2>2, PutEffect
<1>4. CASE SelectOwn(p)
  BY <1>0, <1>1, <1>2, <1>4 DEF SelectOwn, Bump
<1>5. CASE BumpNext(p)
  BY <1>0, <1>1, <1>5 DEF BumpNext, Bump
<1>6. CASE Send(p)
  BY <1>0, <1>1, <1>3, <1>6 DEF Send
<1>7. CASE SendFails(p)
  BY <1>0, <1>3, <1>7, NextRowEffect DEF SendFails
<1>8. CASE Mark(p) \/ MarkFails(p)
  BY <1>0, <1>8, NextRowEffect DEF Mark, MarkFails
<1>9. CASE PublisherCrash(p)
  BY <1>0, <1>2, <1>9 DEF PublisherCrash
<1> QED BY <1>4, <1>5, <1>6, <1>7, <1>8, <1>9 DEF PublisherStep, PublisherFault

-----------------------------------------------------------------------------
(* BornInv is inductive *)

(* A worker keeps BornInv: all its writes concern the job of its message.  *)
LEMMA BornWorkers ==
  ASSUME TypeOK, BornInv, NEW w \in Worker,
         WorkerStep(w) \/ WorkerFault(w) \/ \E m \in Message : Deliver(w, m)
  PROVE  BornInv'
<1>0. QueueingKept
  BY WorkerQueueing
<1>1. CASE WorkerStep(w) \/ WorkerFault(w)
  <2>1. OwnWork(w) /\ ~At(w, {"idle"})
    BY <1>1, OwnWorkSteps
  <2>2. PICK k \in Job : k = work[w].msg.job /\ Born(k)'
    <3>1. work[w].msg.job \in Job /\ Born(work[w].msg.job)
      BY <2>1, Shapes DEF BornInv, BornWork, At
    <3> QED BY <1>0, <3>1 DEF QueueingKept
  <2>3. /\ \A j \in Job : Born(j) => Born(j)'
        /\ \A m \in Message : m.job \in Job
        /\ \A p \in Publisher : pub[p].rest \subseteq Job
    BY <1>0, Shapes DEF QueueingKept, Message, PubState
  <2>4. BornOutbox' /\ BornQueue' /\ BornPub'
    <3>1. BornOutbox'
      BY <2>1, <2>3 DEF OwnWork, BornInv, BornOutbox
    <3>2. BornQueue'
      BY <2>1, <2>2, <2>3 DEF OwnWork, BornInv, BornQueue, Born
    <3>3. BornPub'
      BY <2>1, <2>3, Shapes DEF OwnWork, BornInv, BornPub
    <3> QED BY <3>1, <3>2, <3>3
  <2>5. BornWork'
    BY <2>1, <2>2, <2>3, Shapes DEF OwnWork, BornInv, BornWork, Born
  <2> QED BY <2>4, <2>5 DEF BornInv
<1>2. ASSUME NEW m \in Message, Deliver(w, m) PROVE BornInv'
  <2>1. /\ job' = job /\ outbox' = outbox /\ pub' = pub /\ queue[m] > 0
        /\ \A n \in Message : queue'[n] > 0 => queue[n] > 0
        /\ \A v \in Worker \ {w} : work'[v] = work[v]
        /\ work'[w].msg = m
    BY <1>2, Shapes DEF Deliver, outside
  <2> QED BY <2>1 DEF BornInv, BornOutbox, BornQueue, BornPub, BornWork, Born
<1> QED BY <1>1, <1>2

(* So do publishers.                                                       *)
LEMMA BornPublishers ==
  ASSUME TypeOK, BornInv, NEW p \in Publisher,
         \/ p \in Api /\ SelectOwn(p)
         \/ p \in Beat /\ SelectPending(p)
         \/ PublisherStep(p) \/ PublisherFault(p)
  PROVE  BornInv'
<1>1. CASE (p \in Api /\ SelectOwn(p)) \/ PublisherStep(p) \/ PublisherFault(p)
  <2>1. OwnRow(p) /\ pub[p].pc # "idle"
    BY <1>1, OwnRowSteps
  <2>2. CASE pub[p].pc # "insert"
    <3>1. Born(pub[p].job) /\ \A k \in pub[p].rest : Born(k)
      BY <2>1, <2>2 DEF BornInv, BornPub
    <3> QED BY <2>1, <3>1 DEF OwnRow, BornInv, BornOutbox, BornQueue, BornPub, BornWork, Born
  <2>3. CASE pub[p].pc = "insert"
    <3>1. PublisherCrash(p)
      BY <1>1, <2>3 DEF SelectOwn, PublisherStep, PublisherFault, BumpNext, Send, Mark,
                        SendFails, MarkFails
    <3>2. /\ UNCHANGED <<job, outbox, queue, work>> /\ pub' = [pub EXCEPT ![p] = IdlePub]
          /\ IdlePub.pc = "idle" /\ IdlePub.rest = {}
      BY <3>1 DEF PublisherCrash, IdlePub, jobDb
    <3> QED BY <3>2, Shapes DEF BornInv, BornOutbox, BornQueue, BornPub, BornWork, Born
  <2> QED BY <2>2, <2>3
<1>2. CASE p \in Beat /\ SelectPending(p)
  <2>1. Due \subseteq 1..MaxJobs /\ Due # {} /\ MaxJobs \in Nat
    BY <1>2, BoundsAssumption DEF SelectPending, Due, Job
  <2>2. Least(Due) \in Due
    BY <2>1, LeastIn
  <2>3. \A j \in Due : j \in Job /\ Born(j) /\ outbox[j] # "none"
    BY DEF Due, BornInv, BornOutbox
  <2>4. /\ UNCHANGED <<job, queue, work>>
        /\ \A j \in Job : outbox'[j] = outbox[j] \/ j = Least(Due)
        /\ \A q \in Publisher \ {p} : pub'[q] = pub[q]
        /\ pub'[p].job = Least(Due) /\ pub'[p].rest \subseteq Due
    BY <1>2, Shapes DEF SelectPending, Bump, IdlePub
  <2> QED BY <2>2, <2>3, <2>4 DEF BornInv, BornOutbox, BornQueue, BornPub, BornWork, Born
<1> QED BY <1>1, <1>2

(* A step that inserts a row, or resets one, names that row only.          *)
LEMMA BornFrame ==
  ASSUME TypeOK, BornInv, NEW p \in Publisher, NEW k \in Job, Born(k)',
         \A j \in Job : Born(j) => Born(j)',
         \A j \in Job : outbox'[j] # "none" => outbox[j] # "none" \/ j = k,
         \A m \in Message : queue'[m] > 0 => queue[m] > 0 \/ m.job = k,
         \A q \in Publisher \ {p} : pub'[q] = pub[q],
         pub'[p].pc \notin {"idle", "insert"} => pub'[p].job = k,
         pub'[p].rest \subseteq pub[p].rest,
         work' = work
  PROVE  BornInv'
<1>1. /\ \A m \in Message : m.job \in Job
      /\ \A q \in Publisher : pub[q].rest \subseteq Job
  BY Shapes DEF Message, PubState
<1>2. BornOutbox'
  BY DEF BornInv, BornOutbox
<1>3. BornQueue'
  BY <1>1 DEF BornInv, BornQueue
<1>4. BornPub'
  <2>1. \A q \in Publisher : pub'[q].rest \subseteq pub[q].rest
    OBVIOUS
  <2>2. \A q \in Publisher : \A j \in pub'[q].rest : Born(j)'
    BY <1>1, <2>1 DEF BornInv, BornPub
  <2>3. \A q \in Publisher : pub'[q].pc \notin {"idle", "insert"} =>
          pub'[q].job = k \/ (pub[q].job \in Job /\ pub'[q].job = pub[q].job /\ Born(pub[q].job))
    BY Shapes DEF BornInv, BornPub
  <2>4. \A q \in Publisher : pub'[q].pc \notin {"idle", "insert"} => job'[pub'[q].job].status # "none"
    BY <2>3 DEF Born
  <2> QED BY <2>2, <2>4 DEF BornPub, Born
<1>5. BornWork'
  <2>1. \A w \in Worker : work[w].pc # "idle" => work[w].msg.job \in Job /\ Born(work[w].msg.job)
    BY Shapes DEF BornInv, BornWork
  <2> QED BY <2>1 DEF BornWork, Born
<1> QED BY <1>2, <1>3, <1>4, <1>5 DEF BornInv

(* Requests keep BornInv.                                                  *)
LEMMA BornRequests ==
  ASSUME TypeOK, BornInv, NEW a \in Api,
         (\E force \in BOOLEAN : QueueNew(a, force)) \/ RequestRead(a) \/ RequestReset(a)
  PROVE  BornInv'
<1>0. a \in Publisher
  BY Shapes
<1>1. ASSUME NEW force \in BOOLEAN, QueueNew(a, force) PROVE BornInv'
  <2>1. Least(Unborn) \in Job /\ ~Born(Least(Unborn))
    BY <1>1, NextUnborn DEF QueueNew
  <2>2. PICK k \in Job : k = Least(Unborn)
    BY <2>1
  <2>3. /\ InsertJob(k) /\ work' = work /\ queue' = queue
        /\ outbox' = [outbox EXCEPT ![k] = "due"]
        /\ pub' = [pub EXCEPT ![a] = [IdlePub EXCEPT !.pc = "select", !.job = k]]
    BY <1>1, <2>2 DEF QueueNew
  <2>4. Born(k)' /\ \A j \in Job : Born(j) => Born(j)'
    BY <2>3, InsertEffect DEF Born
  <2>5. /\ \A q \in Publisher \ {a} : pub'[q] = pub[q]
        /\ pub'[a].job = k /\ pub'[a].rest = {}
    BY <1>0, <2>3, Shapes DEF IdlePub
  <2>6. \A j \in Job : outbox'[j] # "none" => outbox[j] # "none" \/ j = k
    BY <2>3, Shapes
  <2> QED BY <1>0, <2>3, <2>4, <2>5, <2>6, BornFrame
<1>2. CASE RequestRead(a)
  <2>1. ExistingJob # 0 /\ job[ExistingJob].status = "FAILED"
    BY <1>2 DEF RequestRead
  <2>2. ExistingJob \in Job
    <3>1. ApiJobs # {} => Greatest(ApiJobs) \in Job
      BY GreatestIn, BoundsAssumption DEF ApiJobs, Job
    <3> QED BY <2>1, <3>1 DEF ExistingJob, TypeOK
  <2>3. PICK k \in Job : k = ExistingJob
    BY <2>2
  <2>4. /\ UNCHANGED <<job, outbox, queue, work>>
        /\ \A q \in Publisher \ {a} : pub'[q] = pub[q]
        /\ pub'[a].job = k /\ pub'[a].rest = {}
    BY <1>0, <1>2, <2>3, Shapes DEF RequestRead, jobDb
  <2>5. Born(k)' /\ \A j \in Job : Born(j) => Born(j)'
    BY <2>1, <2>3, <2>4 DEF Born
  <2> QED BY <1>0, <2>4, <2>5, BornFrame
<1>3. CASE RequestReset(a)
  <2>1. PICK k \in Job : k = pub[a].job
    BY <1>0, <1>3, Shapes DEF RequestReset
  <2>2. /\ job'[k].status = "QUEUED" /\ \A j \in Job \ {k} : job'[j] = job[j]
        /\ \A j \in Job \ {k} : outbox'[j] = outbox[j]
        /\ UNCHANGED <<queue, work>>
    BY <1>3, <2>1, Shapes DEF RequestReset
  <2>3. /\ \A q \in Publisher \ {a} : pub'[q] = pub[q]
        /\ pub'[a].job = k /\ pub'[a].rest = pub[a].rest
    BY <1>0, <1>3, <2>1, Shapes DEF RequestReset, PubState
  <2>4. Born(k)' /\ \A j \in Job : Born(j) => Born(j)'
    BY <2>2 DEF Born
  <2> QED BY <1>0, <2>2, <2>3, <2>4, BornFrame
<1> QED BY <1>1, <1>2, <1>3

(* Batch calls keep BornInv.                                               *)
LEMMA BornBatch ==
  ASSUME TypeOK, BornInv, NEW b \in Batch, BatchCheck(b) \/ BatchStep(b) \/ BatchDelayFails(b)
  PROVE  BornInv'
<1>0. b \in Publisher
  BY Shapes
<1>1. CASE BatchCheck(b)
  <2>1. /\ UNCHANGED <<job, outbox, queue, work>>
        /\ \A q \in Publisher \ {b} : pub'[q] = pub[q]
        /\ pub'[b].pc = "insert" /\ pub'[b].rest = pub[b].rest
    BY <1>0, <1>1, Shapes DEF BatchCheck, jobDb, PubState
  <2> QED BY <2>1 DEF BornInv, BornOutbox, BornQueue, BornPub, BornWork, Born
<1>2. CASE BatchInsert(b)
  <2>1. Least(Unborn) \in Job /\ ~Born(Least(Unborn))
    BY <1>2, NextUnborn DEF BatchInsert
  <2>2. PICK k \in Job : k = Least(Unborn)
    BY <2>1
  <2>3. /\ InsertJob(k) /\ UNCHANGED <<outbox, queue, work>>
        /\ pub' = [pub EXCEPT ![b].pc = "delay", ![b].job = k]
    BY <1>2, <2>2 DEF BatchInsert
  <2>4. Born(k)' /\ \A j \in Job : Born(j) => Born(j)'
    BY <2>3, InsertEffect DEF Born
  <2>5. /\ \A q \in Publisher \ {b} : pub'[q] = pub[q]
        /\ pub'[b].job = k /\ pub'[b].rest = pub[b].rest
    BY <1>0, <2>3, Shapes DEF PubState
  <2> QED BY <1>0, <2>3, <2>4, <2>5, BornFrame
<1>3. CASE BatchDelay(b) \/ BatchDelayFails(b)
  <2>1. pub[b].job \in Job /\ Born(pub[b].job)
    BY <1>0, <1>3, Shapes DEF BatchDelay, BatchDelayFails, BornInv, BornPub
  <2>2. PICK k \in Job : k = pub[b].job /\ Born(k)
    BY <2>1
  <2>3. /\ UNCHANGED <<outbox, work>>
        /\ \A q \in Publisher \ {b} : pub'[q] = pub[q]
        /\ pub'[b].pc = "idle" /\ pub'[b].rest = {}
        /\ \/ job' = job
           \/ job' = [job EXCEPT ![k].status = "FAILED"]
        /\ queue' = queue \/ Put(FreshMessage(k))
    BY <1>0, <1>3, <2>2, Shapes DEF BatchDelay, BatchDelayFails, jobDb, IdlePub
  <2>4. \A j \in Job : Born(j) => Born(j)'
    BY <2>3, Shapes DEF Born, JobRow
  <2>5. \A m \in Message : queue'[m] > 0 => queue[m] > 0 \/ m.job = k
    BY <2>3, PutEffect DEF FreshMessage
  <2> QED BY <1>0, <2>2, <2>3, <2>4, <2>5, BornFrame
<1> QED BY <1>1, <1>2, <1>3 DEF BatchStep

(* Time and the reconciler keep BornInv.                                   *)
LEMMA BornTime ==
  ASSUME TypeOK, BornInv,
         \/ \E j \in Job : BackoffElapsed(j) \/ LeaseExpires(j) \/ ReconcileFail(j)
         \/ ReconcileRead \/ ReconcileAborts
  PROVE  BornInv'
<1>1. \A j \in Job : Born(j) => Born(j)'
  BY OtherQueueing DEF QueueingKept, BornInv
<1>2. /\ UNCHANGED <<queue, pub, work>>
      /\ \A j \in Job : outbox'[j] # "none" => outbox[j] # "none"
  BY Shapes DEF BackoffElapsed, LeaseExpires, ReconcileFail, ReconcileRead, ReconcileAborts, jobDb
<1>3. /\ \A m \in Message : m.job \in Job
      /\ \A q \in Publisher : pub[q].rest \subseteq Job
  BY Shapes DEF Message, PubState
<1>4. BornPub'
  BY <1>1, <1>2, <1>3, Shapes DEF BornInv, BornPub, Born
<1>5. BornWork'
  BY <1>1, <1>2, <1>3, Shapes DEF BornInv, BornWork, Born
<1>6. BornOutbox' /\ BornQueue'
  BY <1>1, <1>2, <1>3 DEF BornInv, BornOutbox, BornQueue
<1> QED BY <1>4, <1>5, <1>6 DEF BornInv

(* Every step keeps BornInv.                                               *)
LEMMA BornNext == TypeOK /\ BornInv /\ [Next]_vars => BornInv'
<1> SUFFICES ASSUME TypeOK, BornInv, [Next]_vars PROVE BornInv'
  OBVIOUS
<1>1. CASE UNCHANGED vars
  BY <1>1 DEF vars, BornInv, BornOutbox, BornQueue, BornPub, BornWork, Born
<1>2. ASSUME NEW a \in Api, (\E force \in BOOLEAN : QueueNew(a, force)) \/ RequestRead(a) \/ ApiStep(a)
      PROVE  BornInv'
  <2>1. CASE (\E force \in BOOLEAN : QueueNew(a, force)) \/ RequestRead(a) \/ RequestReset(a)
    BY <2>1, BornRequests
  <2>2. CASE SelectOwn(a)
    <3>1. a \in Publisher
      BY DEF Publisher
    <3> QED BY <2>2, <3>1, BornPublishers
  <2> QED BY <1>2, <2>1, <2>2 DEF ApiStep
<1>3. ASSUME NEW b \in Batch, BatchCheck(b) \/ BatchStep(b) \/ BatchDelayFails(b)
      PROVE  BornInv'
  BY <1>3, BornBatch
<1>4. ASSUME NEW b \in Beat, SelectPending(b) PROVE BornInv'
  BY <1>4, BornPublishers DEF Publisher
<1>5. ASSUME NEW p \in Publisher, PublisherStep(p) \/ PublisherFault(p) PROVE BornInv'
  BY <1>5, BornPublishers
<1>6. ASSUME NEW w \in Worker, WorkerStep(w) \/ WorkerFault(w) \/ \E m \in Message : Deliver(w, m)
      PROVE  BornInv'
  BY <1>6, BornWorkers
<1>7. ASSUME \/ \E j \in Job : BackoffElapsed(j) \/ LeaseExpires(j) \/ ReconcileFail(j)
             \/ ReconcileRead \/ ReconcileAborts
      PROVE  BornInv'
  BY <1>7, BornTime
<1> QED BY <1>1, <1>2, <1>3, <1>4, <1>5, <1>6, <1>7 DEF Next

(* Nothing waits, runs or is sent for a job that is not in the table: a    *)
(* message reaches a worker after the commit of its INSERT only, as the    *)
(* outbox promises.                                                        *)
THEOREM NoOrphans == Spec => []BornInv
<1>1. Init => BornInv
  BY DEF Init, BornInv, BornOutbox, BornQueue, BornPub, BornWork, IdlePub, IdleWork
<1> QED BY <1>1, BornNext, TypeCorrect, PTL DEF Spec

-----------------------------------------------------------------------------
(* FreshResult *)

(* queued_at never lies in the future, and whoever runs the engine for a   *)
(* job that was not reset writes a row younger than the job.               *)
QueuedInPast == \A j \in Job : job[j].queuedAt <= Len(rows)
YoungRows == \A w \in Worker :
  /\ At(w, {"engine", "finish"})
  /\ job[work[w].msg.job].requeued = 0
  => work[w].row > job[work[w].msg.job].queuedAt
FreshInv == QueuedInPast /\ YoungRows /\ FreshResult

(* What a step may do to the time at which a job was queued: nothing, or   *)
(* queue the job, for the first time or by a reset.                        *)
QueuedAnew(j) ==
  \/ job'[j].queuedAt = job[j].queuedAt /\ job'[j].requeued = job[j].requeued
  \/ /\ job'[j].queuedAt = Len(rows)
     /\ \/ job'[j].requeued # 0 /\ \E a \in Api : RequestReset(a)
        \/ ~Born(j)

(* Every step is of that form.                                             *)
LEMMA QueuedAnewAlways ==
  ASSUME TypeOK, BornInv, [Next]_vars PROVE \A j \in Job : QueuedAnew(j)
<1> USE DEF QueuedAnew
<1>1. ASSUME QueueingKept PROVE \A j \in Job : QueuedAnew(j)
  BY <1>1 DEF QueueingKept
<1>2. CASE UNCHANGED vars
  BY <1>2 DEF vars
<1>3. ASSUME NEW a \in Api, NEW force \in BOOLEAN, QueueNew(a, force)
      PROVE  \A j \in Job : QueuedAnew(j)
  <2>1. Least(Unborn) \in Job /\ ~Born(Least(Unborn)) /\ InsertJob(Least(Unborn))
    BY <1>3, NextUnborn DEF QueueNew
  <2>2. PICK k \in Job : ~Born(k) /\ InsertJob(k)
    BY <2>1
  <2> QED BY <2>2, InsertEffect
<1>4. ASSUME NEW b \in Batch, BatchInsert(b) PROVE \A j \in Job : QueuedAnew(j)
  <2>1. Least(Unborn) \in Job /\ ~Born(Least(Unborn)) /\ InsertJob(Least(Unborn))
    BY <1>4, NextUnborn DEF BatchInsert
  <2>2. PICK k \in Job : ~Born(k) /\ InsertJob(k)
    BY <2>1
  <2> QED BY <2>2, InsertEffect
<1>5. ASSUME NEW a \in Api, RequestReset(a) PROVE \A j \in Job : QueuedAnew(j)
  <2>1. PICK k \in Job : k = pub[a].job
    BY <1>5, Shapes DEF RequestReset
  <2>2. /\ \A j \in Job \ {k} : job'[j] = job[j]
        /\ job'[k].queuedAt = Len(rows) /\ job'[k].requeued = job[k].requeued + 1
    BY <1>5, <2>1, Shapes DEF RequestReset
  <2>3. job[k].requeued \in Nat
    BY Shapes DEF JobRow
  <2> QED BY <1>5, <2>2, <2>3
<1>6. ASSUME NEW w \in Worker, WorkerStep(w) \/ WorkerFault(w) \/ \E m \in Message : Deliver(w, m)
      PROVE  QueueingKept
  BY <1>6, WorkerQueueing
<1>7. BornPub
  BY DEF BornInv
<1>8. ASSUME \/ \E a \in Api : RequestRead(a) \/ SelectOwn(a)
             \/ \E b \in Batch : BatchCheck(b) \/ BatchDelay(b) \/ BatchDelayFails(b)
             \/ \E b \in Beat : SelectPending(b)
             \/ \E p \in Publisher : PublisherStep(p) \/ PublisherFault(p)
             \/ \E j \in Job : BackoffElapsed(j) \/ LeaseExpires(j) \/ ReconcileFail(j)
             \/ ReconcileRead \/ ReconcileAborts
      PROVE  QueueingKept
  BY <1>7, <1>8, OtherQueueing
<1>9. CASE Next
  <2>1. \/ \E a \in Api : \E force \in BOOLEAN : QueueNew(a, force)
        \/ \E b \in Batch : BatchInsert(b)
        \/ \E a \in Api : RequestReset(a)
        \/ \E w \in Worker : WorkerStep(w) \/ WorkerFault(w) \/ \E m \in Message : Deliver(w, m)
        \/ \E a \in Api : RequestRead(a) \/ SelectOwn(a)
        \/ \E b \in Batch : BatchCheck(b) \/ BatchDelay(b) \/ BatchDelayFails(b)
        \/ \E b \in Beat : SelectPending(b)
        \/ \E p \in Publisher : PublisherStep(p) \/ PublisherFault(p)
        \/ \E j \in Job : BackoffElapsed(j) \/ LeaseExpires(j) \/ ReconcileFail(j)
        \/ ReconcileRead \/ ReconcileAborts
    BY <1>9 DEF Next, ApiStep, BatchStep
  <2>2. CASE QueueingKept
    BY <1>1, <2>2
  <2> QED BY <2>1, <2>2, <1>3, <1>4, <1>5, <1>6, <1>8
<1> QED BY <1>2, <1>9

(* Steps that run no engine and store no result keep FreshInv.             *)
LEMMA FreshFrame ==
  ASSUME TypeOK, BornInv, FreshInv, \A j \in Job : QueuedAnew(j),
         rows' = rows,
         \A v \in Worker : work'[v] = work[v] \/ work'[v].pc \notin {"engine", "finish"},
         \A j \in Job : ResultKept(j)
  PROVE  FreshInv'
<1>0. \A j \in Job : job[j].queuedAt \in Nat /\ job[j].requeued \in Nat
  BY Shapes DEF JobRow
<1>1. QueuedInPast'
  BY <1>0, Shapes DEF FreshInv, QueuedInPast, QueuedAnew
<1>2. YoungRows'
  <2> SUFFICES ASSUME NEW w \in Worker, At(w, {"engine", "finish"})',
                      job'[work'[w].msg.job].requeued = 0
               PROVE  work'[w].row > job'[work'[w].msg.job].queuedAt
    BY DEF YoungRows
  <2>1. work'[w] = work[w] /\ At(w, {"engine", "finish"})
    BY DEF At
  <2>2. PICK k \in Job : k = work[w].msg.job /\ Born(k)
    BY <2>1, Shapes DEF At, BornInv, BornWork
  <2>3. job'[k].queuedAt = job[k].queuedAt /\ job'[k].requeued = job[k].requeued
    BY <2>1, <2>2 DEF QueuedAnew
  <2> QED BY <2>1, <2>2, <2>3 DEF FreshInv, YoungRows
<1>3. FreshResult'
  <2> SUFFICES ASSUME NEW j \in Job, job'[j].status = "COMPLETED", job'[j].requeued = 0
               PROVE  job'[j].analysisId > job'[j].queuedAt
    BY DEF FreshResult
  <2>1. job[j].status = "COMPLETED" /\ job'[j].analysisId = job[j].analysisId
    BY DEF ResultKept
  <2>2. job'[j].queuedAt = job[j].queuedAt /\ job[j].requeued = 0
    BY <2>1 DEF QueuedAnew, Born
  <2> QED BY <2>1, <2>2 DEF FreshInv, FreshResult
<1> QED BY <1>1, <1>2, <1>3 DEF FreshInv

(* A worker that stores a result younger than the job keeps FreshInv.      *)
LEMMA FreshStore ==
  ASSUME TypeOK, FreshInv, NEW w \in Worker, NEW k \in Job, NEW i \in Nat,
         job' = [job EXCEPT ![k].status = "COMPLETED", ![k].analysisId = i],
         job[k].requeued = 0 => i > job[k].queuedAt,
         rows' = rows,
         \A v \in Worker : work'[v] = work[v] \/ work'[v].pc \notin {"engine", "finish"}
  PROVE  FreshInv'
<1>1. \A j \in Job : /\ job'[j].queuedAt = job[j].queuedAt /\ job'[j].requeued = job[j].requeued
                     /\ job'[j] = job[j] \/ (j = k /\ job'[j].analysisId = i)
  BY Shapes DEF JobRow
<1>2. QueuedInPast'
  BY <1>1 DEF FreshInv, QueuedInPast
<1>3. YoungRows'
  <2> SUFFICES ASSUME NEW v \in Worker, At(v, {"engine", "finish"})',
                      job'[work'[v].msg.job].requeued = 0
               PROVE  work'[v].row > job'[work'[v].msg.job].queuedAt
    BY DEF YoungRows
  <2>1. work'[v] = work[v] /\ At(v, {"engine", "finish"})
    BY DEF At
  <2>2. work[v].msg.job \in Job
    BY <2>1, Shapes DEF At
  <2> QED BY <1>1, <2>1, <2>2 DEF FreshInv, YoungRows
<1>4. FreshResult'
  BY <1>1 DEF FreshInv, FreshResult
<1> QED BY <1>2, <1>3, <1>4 DEF FreshInv

(* Changing the status of a row, the worker staying or leaving the engine  *)
(* with it, keeps the table's length.                                      *)
LEMMA RowsUpdated ==
  ASSUME TypeOK, NEW k, NEW r \in RowStatus, rows' = [rows EXCEPT ![k] = r]
  PROVE  rows' \in Seq(RowStatus) /\ Len(rows') = Len(rows)
<1>1. rows \in [1..Len(rows) -> RowStatus] /\ rows \in Seq(RowStatus)
  BY Shapes, LenProperties
<1>2. CASE k \in 1..Len(rows)
  BY <1>1, <1>2, ExceptSeq
<1>3. CASE k \notin 1..Len(rows)
  BY <1>1, <1>3
<1> QED BY <1>2, <1>3

(* Running the engine keeps FreshInv: the row it inserts is the youngest.  *)
LEMMA FreshEngine ==
  ASSUME TypeOK, FreshInv, NEW w \in Worker,
         EngineStart(w) \/ EngineEnd(w) \/ RefreshFails(w)
  PROVE  FreshInv'
<1>0. /\ job' = job /\ \A j \in Job : job[j].queuedAt \in Nat
      /\ work \in [Worker -> WorkState] /\ Len(rows) \in Nat
      /\ work[w].msg.job \in Job
  BY Shapes DEF EngineStart, EngineEnd, RefreshFails, JobRow, At
<1>1. /\ Len(rows') \in Nat /\ Len(rows') >= Len(rows)
      /\ \A v \in Worker \ {w} : work'[v] = work[v]
      /\ At(w, {"engine", "finish"})' =>
           \/ work'[w].msg = work[w].msg /\ work'[w].row = Len(rows) + 1
           \/ At(w, {"engine"}) /\ work'[w].msg = work[w].msg /\ work'[w].row = work[w].row
  <2>1. CASE EngineEnd(w)
    <3>1. PICK r : /\ rows' = [rows EXCEPT ![work[w].row] = r] /\ r \in RowStatus
                   /\ Goto(w, IF r \in {"failed", "running"} THEN "fail" ELSE "finish")
      BY <2>1 DEF EngineEnd, RowStatus
    <3>2. rows' \in Seq(RowStatus) /\ Len(rows') = Len(rows)
      BY <3>1, RowsUpdated
    <3> QED BY <1>0, <2>1, <3>1, <3>2, Moves DEF EngineEnd, At
  <2>2. CASE EngineStart(w) /\ Goto(w, "fail") /\ UNCHANGED rows
    BY <1>0, <2>2, Moves DEF At
  <2>3. CASE /\ rows' = Append(rows, "running")
             /\ work' = [work EXCEPT ![w].pc = "engine", ![w].row = Len(rows) + 1]
    <3>1. Len(rows') = Len(rows) + 1
      BY <2>3, Shapes, AppendProperties DEF RowStatus
    <3> QED BY <1>0, <2>3, <3>1 DEF WorkState
  <2>4. CASE RefreshFails(w)
    <3>1. rows' = rows \/ rows' = [rows EXCEPT ![work[w].row] = "withdrawn"]
      BY <2>4 DEF RefreshFails
    <3>2. "withdrawn" \in RowStatus
      BY DEF RowStatus
    <3>3. rows' \in Seq(RowStatus) /\ Len(rows') = Len(rows)
      BY <3>1, <3>2, RowsUpdated, Shapes
    <3> QED BY <1>0, <2>4, <3>3, Moves DEF RefreshFails, At
  <2> QED BY <2>1, <2>2, <2>3, <2>4 DEF EngineStart
<1>2. QueuedInPast'
  BY <1>0, <1>1 DEF FreshInv, QueuedInPast
<1>3. YoungRows'
  <2> SUFFICES ASSUME NEW v \in Worker, At(v, {"engine", "finish"})',
                      job'[work'[v].msg.job].requeued = 0
               PROVE  work'[v].row > job'[work'[v].msg.job].queuedAt
    BY DEF YoungRows
  <2>1. CASE v # w
    BY <1>0, <1>1, <2>1 DEF FreshInv, YoungRows, At
  <2>2. CASE v = w
    BY <1>0, <1>1, <2>2 DEF FreshInv, YoungRows, QueuedInPast, At
  <2> QED BY <2>1, <2>2
<1>4. FreshResult'
  BY <1>0 DEF FreshInv, FreshResult
<1> QED BY <1>2, <1>3, <1>4 DEF FreshInv

(* Every step keeps FreshInv.                                              *)
LEMMA FreshNext == TypeOK /\ BornInv /\ FreshInv /\ [Next]_vars => FreshInv'
<1> SUFFICES ASSUME TypeOK, BornInv, FreshInv, [Next]_vars PROVE FreshInv'
  OBVIOUS
<1>0. \A j \in Job : QueuedAnew(j)
  BY QueuedAnewAlways
<1>1. ASSUME NEW w \in Worker, Finish(w) PROVE FreshInv'
  <2>1. PICK k \in Job : k = work[w].msg.job
    BY <1>1, Shapes DEF Finish, At
  <2>2. PICK i \in Nat : i = work[w].row
    BY <1>1, Shapes DEF Finish, WorkState
  <2>3. /\ job' = [job EXCEPT ![k].status = "COMPLETED", ![k].analysisId = i]
        /\ rows' = rows
        /\ \A v \in Worker : work'[v] = work[v] \/ work'[v].pc \notin {"engine", "finish"}
    BY <1>1, <2>1, <2>2, Moves DEF Finish
  <2>4. job[k].requeued = 0 => i > job[k].queuedAt
    BY <1>1, <2>1, <2>2 DEF Finish, FreshInv, YoungRows, At
  <2> QED BY <2>3, <2>4, FreshStore
<1>2. ASSUME NEW w \in Worker, Recover(w) PROVE FreshInv'
  <2>1. PICK k \in Job : k = work[w].msg.job
    BY <1>2, Shapes DEF Recover, At
  <2>2. /\ Greatest(ResultsSince(k)) \in 1..Len(rows)
        /\ Greatest(ResultsSince(k)) > job[k].queuedAt
    BY <1>2, <2>1, GreatestRow DEF Recover, ResultsSince
  <2>3. PICK i \in Nat : i = Greatest(ResultsSince(k)) /\ i > job[k].queuedAt
    BY <2>2, Shapes
  <2>4. /\ job' = [job EXCEPT ![k].status = "COMPLETED", ![k].analysisId = i]
        /\ rows' = rows
        /\ \A v \in Worker : work'[v] = work[v] \/ work'[v].pc \notin {"engine", "finish"}
    BY <1>2, <2>1, <2>3, Moves DEF Recover
  <2> QED BY <2>3, <2>4, FreshStore
<1> QED BY <1>0, <1>1, <1>2, StepCases, FreshFrame, FreshEngine DEF ResultStep

(* A job that was never reset is answered with a result its own request    *)
(* asked for, whatever older results the evidence has, however many jobs,  *)
(* attempts and duplicates there are and whatever fails.                   *)
THEOREM FreshAlways == Spec => []FreshResult
<1>1. Init => FreshInv
  BY EmptySeq DEF Init, FreshInv, QueuedInPast, YoungRows, FreshResult, At, NoJob, IdleWork
<1>2. FreshInv => FreshResult
  BY DEF FreshInv
<1> QED BY <1>1, <1>2, FreshNext, NoOrphans, TypeCorrect, PTL DEF Spec

-----------------------------------------------------------------------------
(* DispatchCovered *)

(* A reset answers a message that is still under way for the job's former  *)
(* life, and a process that is killed, or fails, between the delivery and  *)
(* the claim acknowledges a message nobody has acted upon. Without these,  *)
(* with crashing and repeating publishers, lost workers, expired leases    *)
(* and batch calls, the outbox keeps its promise.                          *)
Undisturbed == MaxRequeues = 0 /\ Faults \cap {"db", "soft", "kill"} = {}

Sent(j) == \/ \E m \in Message : m.job = j /\ queue[m] > 0
           \/ \E w \in Worker : At(w, {"claim"}) /\ work[w].msg.job = j
Announced(j) == \/ outbox[j] = "dispatched"
                \/ \E p \in Publisher : pub[p].pc = "mark" /\ pub[p].job = j

(* A row is marked only after its message was sent, and the message stays  *)
(* until a worker has claimed the job.                                     *)
NoReset == \A a \in Api : pub[a].pc # "reset"
CoverInv == /\ NoReset
            /\ \A j \in Job : job[j].status = "QUEUED" /\ Announced(j) => Sent(j)

(* No request resets a job.                                                *)
LEMMA NoResetNext ==
  ASSUME MaxRequeues = 0, TypeOK, NoReset, [Next]_vars
  PROVE  NoReset' /\ \A a \in Api : ~RequestReset(a) /\ ~RequestRead(a)
<1>1. ASSUME NEW a \in Api PROVE ~RequestRead(a) /\ ~RequestReset(a)
  <2>1. ~RequestReset(a)
    BY DEF RequestReset, NoReset
  <2>2. ASSUME RequestRead(a) PROVE FALSE
    <3>1. ExistingJob \in Job
      <4>1. ApiJobs # {} => Greatest(ApiJobs) \in Job
        BY GreatestIn, BoundsAssumption DEF ApiJobs, Job
      <4> QED BY <2>2, <4>1 DEF RequestRead, ExistingJob, TypeOK
    <3>2. job[ExistingJob].requeued \in Nat /\ job[ExistingJob].requeued < 0
      BY <2>2, <3>1, Shapes DEF RequestRead, JobRow
    <3> QED BY <3>2
  <2> QED BY <2>1, <2>2
<1>2. ASSUME NEW p \in Publisher, \A q \in Publisher \ {p} : pub'[q] = pub[q], pub'[p].pc # "reset"
      PROVE  NoReset'
  BY <1>2 DEF NoReset, Publisher
<1>3. ASSUME pub' = pub PROVE NoReset'
  BY <1>3 DEF NoReset
<1>4. ASSUME NEW a \in Api, NEW force \in BOOLEAN, QueueNew(a, force) PROVE NoReset'
  <2>1. \A q \in Publisher \ {a} : pub'[q] = pub[q]
    BY <1>4, Shapes DEF QueueNew
  <2>2. pub'[a].pc = "select"
    BY <1>4, Shapes DEF QueueNew, IdlePub
  <2> QED BY <1>2, <2>1, <2>2, Shapes
<1>5. ASSUME NEW p \in Publisher,
             \/ p \in Api /\ SelectOwn(p)
             \/ p \in Batch /\ (BatchCheck(p) \/ BatchStep(p) \/ BatchDelayFails(p))
             \/ p \in Beat /\ SelectPending(p)
             \/ PublisherStep(p) \/ PublisherFault(p)
      PROVE  NoReset'
  <2>1. \A q \in Publisher \ {p} : pub'[q] = pub[q]
    BY <1>5, NextRowEffect, Shapes
       DEF SelectOwn, BatchCheck, BatchStep, BatchInsert, BatchDelay, BatchDelayFails,
           SelectPending, PublisherStep, PublisherFault, BumpNext, Send, Mark, SendFails,
           MarkFails, PublisherCrash
  <2>2. pub'[p].pc # "reset"
    <3>0. pub \in [Publisher -> PubState] /\ IdlePub.pc = "idle"
      BY Shapes DEF IdlePub
    <3>1. CASE SendFails(p) \/ Mark(p) \/ MarkFails(p)
      BY <3>1, NextRowEffect DEF SendFails, Mark, MarkFails
    <3>2. CASE SelectOwn(p) \/ BumpNext(p) \/ Send(p) \/ PublisherCrash(p)
      BY <3>0, <3>2 DEF SelectOwn, BumpNext, Send, PublisherCrash, PubState
    <3>3. CASE BatchCheck(p) \/ BatchStep(p) \/ BatchDelayFails(p)
      BY <3>0, <3>3 DEF BatchCheck, BatchStep, BatchInsert, BatchDelay, BatchDelayFails, PubState
    <3>4. CASE SelectPending(p)
      BY <3>0, <3>4 DEF SelectPending, IdlePub
    <3> QED BY <1>5, <3>1, <3>2, <3>3, <3>4 DEF PublisherStep, PublisherFault
  <2> QED BY <1>2, <2>1, <2>2
<1>6. ASSUME \/ UNCHANGED vars
             \/ \E w \in Worker : WorkerStep(w) \/ WorkerFault(w) \/ \E m \in Message : Deliver(w, m)
             \/ \E j \in Job : BackoffElapsed(j) \/ LeaseExpires(j) \/ ReconcileFail(j)
             \/ ReconcileRead \/ ReconcileAborts
      PROVE  pub' = pub
  <2>1. ASSUME NEW w \in Worker, WorkerStep(w) \/ WorkerFault(w) PROVE pub' = pub
    BY <2>1, OwnWorkSteps DEF OwnWork
  <2> QED BY <1>6, <2>1 DEF vars, Deliver, outside, BackoffElapsed, LeaseExpires, ReconcileFail,
                            ReconcileRead, ReconcileAborts
<1>7. ASSUME NEW a \in Api, ApiStep(a) PROVE SelectOwn(a) /\ a \in Publisher
  BY <1>1, <1>7 DEF ApiStep, Publisher
<1>8. NoReset'
  <2>1. CASE UNCHANGED vars
    BY <2>1, <1>3, <1>6
  <2>2. CASE Next
    <3>1. \/ \E a \in Api : \E force \in BOOLEAN : QueueNew(a, force)
          \/ \E p \in Publisher :
               \/ p \in Api /\ SelectOwn(p)
               \/ p \in Batch /\ (BatchCheck(p) \/ BatchStep(p) \/ BatchDelayFails(p))
               \/ p \in Beat /\ SelectPending(p)
               \/ PublisherStep(p) \/ PublisherFault(p)
          \/ \E w \in Worker : WorkerStep(w) \/ WorkerFault(w) \/ \E m \in Message : Deliver(w, m)
          \/ \E j \in Job : BackoffElapsed(j) \/ LeaseExpires(j) \/ ReconcileFail(j)
          \/ ReconcileRead \/ ReconcileAborts
      BY <2>2, <1>1, <1>7 DEF Next, Publisher
    <3> QED BY <3>1, <1>3, <1>4, <1>5, <1>6
  <2> QED BY <2>1, <2>2
<1> QED BY <1>1, <1>8

(* The steps that change the status of a job, and what they make of it.    *)
Writes(j) ==
  \/ ~Born(j) /\ job'[j].status = "QUEUED"
  \/ \E a \in Api : RequestReset(a) /\ pub[a].job = j /\ job'[j].status = "QUEUED"
  \/ \E b \in Batch : BatchDelayFails(b) /\ pub[b].job = j /\ job'[j].status = "FAILED"
  \/ ReconcileFail(j) /\ job'[j].status = "FAILED"
  \/ \E w \in Worker : /\ work[w].msg.job = j
                       /\ \/ Claim(w) /\ job'[j].status = "RUNNING"
                          \/ (Recover(w) \/ Finish(w)) /\ job'[j].status = "COMPLETED"
                          \/ (FailJob(w) \/ GiveUp(w)) /\ job'[j].status = "FAILED"
                          \/ MarkRetrying(w) /\ job'[j].status = "RETRYING"

(* A worker's step writes the status of its own job only.                  *)
LEMMA WorkerWrites ==
  ASSUME TypeOK, NEW w \in Worker,
         WorkerStep(w) \/ WorkerFault(w) \/ \E m \in Message : Deliver(w, m),
         NEW j \in Job
  PROVE  job'[j].status = job[j].status \/ Writes(j)
<1>0. job \in [Job -> JobRow]
  BY Shapes
<1>1. CASE Claim(w)
  <2>1. job'[j].status = job[j].status \/ (j = work[w].msg.job /\ job'[j].status = "RUNNING")
    BY <1>0, <1>1 DEF Claim, JobRow
  <2> QED BY <1>1, <2>1 DEF Writes
<1>2. CASE Recover(w) \/ Finish(w)
  <2>1. job'[j].status = job[j].status \/ (j = work[w].msg.job /\ job'[j].status = "COMPLETED")
    BY <1>0, <1>2 DEF Recover, Finish, JobRow
  <2> QED BY <1>2, <2>1 DEF Writes
<1>3. CASE FailJob(w)
  <2>1. job'[j].status = job[j].status \/ (j = work[w].msg.job /\ job'[j].status = "FAILED")
    BY <1>0, <1>3 DEF FailJob, JobRow
  <2> QED BY <1>3, <2>1 DEF Writes
<1>4. CASE GiveUp(w)
  <2>1. job'[j].status = job[j].status \/ (j = work[w].msg.job /\ job'[j].status = "FAILED")
    BY <1>0, <1>4 DEF GiveUp, SetStatus, JobRow
  <2> QED BY <1>4, <2>1 DEF Writes
<1>5. CASE MarkRetrying(w)
  <2>1. job'[j].status = job[j].status \/ (j = work[w].msg.job /\ job'[j].status = "RETRYING")
    BY <1>0, <1>5 DEF MarkRetrying, SetStatus, JobRow
  <2> QED BY <1>5, <2>1 DEF Writes
<1>6. CASE \/ DropDuplicate(w) \/ NoResult(w) \/ EngineStart(w) \/ EngineEnd(w) \/ FinalAudit(w)
           \/ PublishRetry(w) \/ Acknowledge(w) \/ WorkerFault(w) \/ \E m \in Message : Deliver(w, m)
  BY <1>6 DEF DropDuplicate, NoResult, EngineStart, EngineEnd, FinalAudit, PublishRetry,
              Acknowledge, WorkerFault, DbError, HandlerDbError, SoftError, RefreshFails,
              PublishRetryFails, HardKill, WorkerLost, Deliver
<1> QED BY <1>1, <1>2, <1>3, <1>4, <1>5, <1>6 DEF WorkerStep

(* No other step writes a status than those listed.                        *)
LEMMA StatusWrites ==
  ASSUME TypeOK, [Next]_vars, NEW j \in Job
  PROVE  job'[j].status = job[j].status \/ Writes(j)
<1>0. job \in [Job -> JobRow]
  BY Shapes
<1>1. ASSUME NEW k \in Job, ~Born(k), InsertJob(k)
      PROVE  job'[j].status = job[j].status \/ Writes(j)
  BY <1>1, InsertEffect DEF Writes
<1>2. ASSUME NEW a \in Api, NEW force \in BOOLEAN, QueueNew(a, force)
      PROVE  job'[j].status = job[j].status \/ Writes(j)
  <2>1. PICK k \in Job : ~Born(k) /\ InsertJob(k)
    BY <1>2, NextUnborn DEF QueueNew
  <2> QED BY <1>1, <2>1
<1>3. ASSUME NEW b \in Batch, BatchInsert(b)
      PROVE  job'[j].status = job[j].status \/ Writes(j)
  <2>1. PICK k \in Job : ~Born(k) /\ InsertJob(k)
    BY <1>3, NextUnborn DEF BatchInsert
  <2> QED BY <1>1, <2>1
<1>4. ASSUME NEW a \in Api, RequestReset(a)
      PROVE  job'[j].status = job[j].status \/ Writes(j)
  <2>1. PICK k \in Job : k = pub[a].job
    BY <1>4, Shapes DEF RequestReset
  <2>2. job'[k].status = "QUEUED" /\ \A i \in Job \ {k} : job'[i] = job[i]
    BY <1>0, <1>4, <2>1 DEF RequestReset
  <2> QED BY <1>4, <2>1, <2>2 DEF Writes
<1>5. ASSUME NEW b \in Batch, BatchDelayFails(b)
      PROVE  job'[j].status = job[j].status \/ Writes(j)
  <2>1. job'[j].status = job[j].status \/ (j = pub[b].job /\ job'[j].status = "FAILED")
    BY <1>0, <1>5 DEF BatchDelayFails, JobRow
  <2> QED BY <1>5, <2>1 DEF Writes
<1>6. ASSUME NEW k \in Job, ReconcileFail(k)
      PROVE  job'[j].status = job[j].status \/ Writes(j)
  <2>1. job'[j].status = job[j].status \/ (j = k /\ job'[j].status = "FAILED")
    BY <1>0, <1>6 DEF ReconcileFail, JobRow
  <2> QED BY <1>6, <2>1 DEF Writes
<1>7. ASSUME NEW k \in Job, LeaseExpires(k) PROVE job'[j].status = job[j].status
  BY <1>0, <1>7 DEF LeaseExpires, JobRow
<1>8. ASSUME NEW w \in Worker, WorkerStep(w) \/ WorkerFault(w) \/ \E m \in Message : Deliver(w, m)
      PROVE  job'[j].status = job[j].status \/ Writes(j)
  BY <1>8, WorkerWrites
<1>9. ASSUME \/ UNCHANGED vars
             \/ \E a \in Api : RequestRead(a) \/ SelectOwn(a)
             \/ \E b \in Batch : BatchCheck(b) \/ BatchDelay(b)
             \/ \E b \in Beat : SelectPending(b)
             \/ \E p \in Publisher : PublisherStep(p) \/ PublisherFault(p)
             \/ \E k \in Job : BackoffElapsed(k)
             \/ ReconcileRead \/ ReconcileAborts
      PROVE  job'[j].status = job[j].status
  BY <1>9 DEF vars, RequestRead, SelectOwn, BatchCheck, BatchDelay, SelectPending, BackoffElapsed,
              ReconcileRead, ReconcileAborts, jobDb, PublisherStep, PublisherFault, BumpNext,
              Send, Mark, SendFails, MarkFails, PublisherCrash
<1> QED BY <1>2, <1>3, <1>4, <1>5, <1>6, <1>7, <1>8, <1>9 DEF Next, ApiStep, BatchStep

(* The message of a queued job stays until the job is claimed.             *)
LEMMA SentKept ==
  ASSUME Undisturbed, TypeOK, [Next]_vars, NEW j \in Job, Sent(j),
         job[j].status = "QUEUED", job'[j].status = "QUEUED"
  PROVE  Sent(j)'
<1>0. /\ \A m \in Message : m.job \in Job
      /\ queue \in [Message -> Nat]
  BY Shapes DEF Message
<1>1. ASSUME \A m \in Message : queue[m] > 0 => queue'[m] > 0,
             \A w \in Worker : At(w, {"claim"}) /\ work[w].msg.job = j => work'[w] = work[w]
      PROVE  Sent(j)'
  BY <1>1 DEF Sent, At
<1>2. ASSUME NEW w \in Worker, NEW m \in Message, Deliver(w, m) PROVE Sent(j)'
  <2>1. /\ work'[w].pc = "claim" /\ work'[w].msg = m
        /\ \A v \in Worker \ {w} : work'[v] = work[v]
        /\ \A n \in Message : n # m => queue'[n] = queue[n]
        /\ ~At(w, {"claim"})
    BY <1>2, Shapes DEF Deliver, At
  <2>2. CASE m.job = j
    BY <2>1, <2>2 DEF Sent, At
  <2>3. CASE m.job # j
    BY <2>1, <2>3 DEF Sent, At
  <2> QED BY <2>2, <2>3
<1>3. ASSUME NEW w \in Worker, WorkerStep(w) \/ WorkerFault(w) PROVE Sent(j)'
  <2>0. OwnWork(w) /\ ~At(w, {"idle"})
    BY <1>3, OwnWorkSteps
  <2>1. \A m \in Message : queue[m] > 0 => queue'[m] > 0
    BY <1>3, PutEffect DEF WorkerStep, WorkerFault, DropDuplicate, Claim, Recover, NoResult,
       EngineStart, EngineEnd, Finish, FailJob, FinalAudit, GiveUp, MarkRetrying, PublishRetry,
       Acknowledge, DbError, HandlerDbError, SoftError, RefreshFails, PublishRetryFails, HardKill,
       WorkerLost
  <2>2. CASE ~(At(w, {"claim"}) /\ work[w].msg.job = j)
    BY <1>1, <2>0, <2>1, <2>2 DEF OwnWork
  <2>3. CASE At(w, {"claim"}) /\ work[w].msg.job = j
    <3>1. WorkerLost(w)
      <4>1. ~DropDuplicate(w)
        BY <2>3 DEF DropDuplicate, IsDuplicate
      <4>2. ~Claim(w)
        BY <2>3, Shapes DEF Claim, JobRow
      <4>3. ~(DbError(w) \/ HandlerDbError(w) \/ SoftError(w) \/ RefreshFails(w) \/ HardKill(w))
        BY DEF DbError, HandlerDbError, SoftError, RefreshFails, HardKill, Fault, Undisturbed
      <4> QED BY <1>3, <2>3, <4>1, <4>2, <4>3
              DEF WorkerStep, WorkerFault, Recover, NoResult, EngineStart, EngineEnd, Finish,
                  FailJob, FinalAudit, GiveUp, MarkRetrying, PublishRetry, Acknowledge,
                  PublishRetryFails, At
    <3>2. PICK n \in Message : n.job = j /\ Put(n)
      BY <2>0, <2>3, <3>1, Redelivered DEF WorkerLost
    <3> QED BY <3>2, PutEffect DEF Sent
  <2> QED BY <2>2, <2>3
<1>4. ASSUME NEW p \in Publisher,
             \/ p \in Api /\ SelectOwn(p)
             \/ PublisherStep(p) \/ PublisherFault(p)
      PROVE  Sent(j)'
  BY <1>1, <1>4, OwnRowSteps DEF OwnRow
<1>5. ASSUME NEW b \in Batch, BatchCheck(b) \/ BatchStep(b) \/ BatchDelayFails(b) PROVE Sent(j)'
  <2>1. work' = work
    BY <1>5 DEF BatchCheck, BatchStep, BatchInsert, BatchDelay, BatchDelayFails
  <2>2. \A m \in Message : queue[m] > 0 => queue'[m] > 0
    BY <1>5, PutEffect DEF BatchCheck, BatchStep, BatchInsert, BatchDelay, BatchDelayFails
  <2> QED BY <1>1, <2>1, <2>2
<1>6. ASSUME \/ UNCHANGED vars
             \/ \E a \in Api : (\E force \in BOOLEAN : QueueNew(a, force)) \/ RequestRead(a)
                               \/ RequestReset(a)
             \/ \E b \in Beat : SelectPending(b)
             \/ \E k \in Job : BackoffElapsed(k) \/ LeaseExpires(k) \/ ReconcileFail(k)
             \/ ReconcileRead \/ ReconcileAborts
      PROVE  UNCHANGED <<queue, work>>
  BY <1>6 DEF vars, QueueNew, RequestRead, RequestReset, SelectPending, BackoffElapsed,
              LeaseExpires, ReconcileFail, ReconcileRead, ReconcileAborts
<1>7. ASSUME UNCHANGED <<queue, work>> PROVE Sent(j)'
  BY <1>1, <1>7
<1>8. ASSUME NEW a \in Api, SelectOwn(a) PROVE Sent(j)'
  <2>1. a \in Publisher
    BY DEF Publisher
  <2> QED BY <1>4, <1>8, <2>1
<1> QED BY <1>2, <1>3, <1>4, <1>5, <1>6, <1>7, <1>8 DEF Next, ApiStep

(* A job is announced by the publisher that has sent its message.          *)
LEMMA AnnouncedSource ==
  ASSUME Undisturbed, TypeOK, BornInv, NoReset, [Next]_vars, NEW j \in Job, Announced(j)'
  PROVE  Announced(j) \/ Sent(j)'
<1> USE DEF Announced
<1>1. ASSUME outbox'[j] = "dispatched" => outbox[j] = "dispatched",
             \A p \in Publisher : pub'[p].pc = "mark" /\ pub'[p].job = j =>
                                  pub[p].pc = "mark" /\ pub[p].job = j
      PROVE  Announced(j)
  BY <1>1
<1>2. ASSUME NEW a \in Api, NEW force \in BOOLEAN, QueueNew(a, force) PROVE Announced(j)
  <2>1. Least(Unborn) \in Job
    BY <1>2, NextUnborn DEF QueueNew
  <2>2. PICK k \in Job : k = Least(Unborn)
    BY <2>1
  <2>3. /\ outbox' = [outbox EXCEPT ![k] = "due"]
        /\ pub' = [pub EXCEPT ![a] = [IdlePub EXCEPT !.pc = "select", !.job = k]]
    BY <1>2, <2>2 DEF QueueNew
  <2>4. /\ \A q \in Publisher \ {a} : pub'[q] = pub[q]
        /\ pub'[a].pc = "select"
    BY <2>3, Shapes DEF IdlePub
  <2>5. outbox'[j] = "dispatched" => outbox[j] = "dispatched"
    BY <2>3, Shapes
  <2> QED BY <1>1, <2>4, <2>5
<1>3. ASSUME NEW a \in Api, RequestRead(a) PROVE Announced(j)
  <2>1. outbox' = outbox /\ \A q \in Publisher \ {a} : pub'[q] = pub[q]
    BY <1>3, Shapes DEF RequestRead, jobDb
  <2>2. pub'[a].pc = "reset"
    BY <1>3, Shapes DEF RequestRead
  <2> QED BY <1>1, <2>1, <2>2
<1>4. ASSUME NEW b \in Batch, BatchCheck(b) \/ BatchStep(b) \/ BatchDelayFails(b)
      PROVE  Announced(j)
  <2>1. outbox' = outbox /\ \A q \in Publisher \ {b} : pub'[q] = pub[q]
    BY <1>4, Shapes DEF BatchCheck, BatchStep, BatchInsert, BatchDelay, BatchDelayFails, jobDb
  <2>2. pub'[b].pc \in {"insert", "delay", "idle"}
    <3>1. pub \in [Publisher -> PubState] /\ b \in Publisher /\ IdlePub.pc = "idle"
      BY Shapes DEF IdlePub
    <3> QED BY <1>4, <3>1 DEF BatchCheck, BatchStep, BatchInsert, BatchDelay, BatchDelayFails,
                              PubState
  <2> QED BY <1>1, <2>1, <2>2
<1>5. ASSUME NEW b \in Beat, SelectPending(b) PROVE Announced(j)
  <2>1. \A q \in Publisher \ {b} : pub'[q] = pub[q]
    BY <1>5, Shapes DEF SelectPending
  <2>2. pub'[b].pc = "send"
    BY <1>5, Shapes DEF SelectPending, IdlePub
  <2>3. outbox'[j] = "dispatched" => outbox[j] = "dispatched"
    BY <1>5, Shapes DEF SelectPending, Bump
  <2> QED BY <1>1, <2>1, <2>2, <2>3
<1>6. ASSUME NEW p \in Publisher, Send(p) PROVE Announced(j) \/ Sent(j)'
  <2>1. /\ outbox' = outbox /\ \A q \in Publisher \ {p} : pub'[q] = pub[q]
        /\ pub'[p].job = pub[p].job
    BY <1>6, Shapes DEF Send, jobDb, PubState
  <2>2. CASE pub[p].job = j
    <3>1. FreshMessage(j) \in Message /\ FreshMessage(j).job = j
      BY FreshMessageType DEF FreshMessage
    <3>2. PICK n \in Message : n.job = j /\ Put(n)
      BY <1>6, <2>2, <3>1 DEF Send
    <3> QED BY <3>2, PutEffect DEF Sent
  <2>3. CASE pub[p].job # j
    BY <1>1, <2>1, <2>3
  <2> QED BY <2>2, <2>3
<1>7. ASSUME NEW p \in Publisher, SendFails(p) \/ Mark(p) \/ MarkFails(p) PROVE Announced(j)
  <2>1. /\ \A q \in Publisher \ {p} : pub'[q] = pub[q]
        /\ pub'[p].pc \in {"idle", "bump"}
    BY <1>7, NextRowEffect DEF SendFails, Mark, MarkFails
  <2>2. CASE outbox' = outbox
    BY <1>1, <2>1, <2>2
  <2>3. CASE Mark(p)
    <3>1. pub[p].pc = "mark" /\ outbox' = [outbox EXCEPT ![pub[p].job] = "dispatched"]
      BY <2>3 DEF Mark
    <3>2. CASE pub[p].job = j
      BY <3>1, <3>2
    <3>3. CASE pub[p].job # j
      BY <1>1, <2>1, <3>1, <3>3
    <3> QED BY <3>2, <3>3
  <2> QED BY <1>7, <2>2, <2>3 DEF SendFails, MarkFails, jobDb
<1>8. ASSUME NEW p \in Publisher, SelectOwn(p) \/ BumpNext(p) \/ PublisherCrash(p)
      PROVE  Announced(j)
  <2>1. pub \in [Publisher -> PubState] /\ IdlePub.pc = "idle"
    BY Shapes DEF IdlePub
  <2>2. /\ \A q \in Publisher \ {p} : pub'[q] = pub[q]
        /\ pub'[p].pc \in {"send", "idle"}
    BY <1>8, <2>1 DEF SelectOwn, BumpNext, PublisherCrash, PubState
  <2>3. outbox'[j] = "dispatched" => outbox[j] = "dispatched"
    BY <1>8, Shapes DEF SelectOwn, BumpNext, PublisherCrash, Bump, jobDb
  <2> QED BY <1>1, <2>2, <2>3
<1>9. ASSUME \/ UNCHANGED vars
             \/ \E w \in Worker : WorkerStep(w) \/ WorkerFault(w) \/ \E m \in Message : Deliver(w, m)
             \/ \E k \in Job : BackoffElapsed(k) \/ LeaseExpires(k) \/ ReconcileFail(k)
             \/ ReconcileRead \/ ReconcileAborts
      PROVE  Announced(j)
  <2>1. ASSUME NEW w \in Worker, WorkerStep(w) \/ WorkerFault(w) PROVE UNCHANGED <<outbox, pub>>
    BY <2>1, OwnWorkSteps DEF OwnWork
  <2>2. pub' = pub
    BY <1>9, <2>1 DEF vars, Deliver, outside, BackoffElapsed, LeaseExpires, ReconcileFail,
                      ReconcileRead, ReconcileAborts
  <2>3. outbox'[j] = "dispatched" => outbox[j] = "dispatched"
    BY <1>9, <2>1, Shapes DEF vars, Deliver, outside, BackoffElapsed, LeaseExpires,
       ReconcileFail, ReconcileRead, ReconcileAborts, jobDb
  <2> QED BY <1>1, <2>2, <2>3
<1>10. \A a \in Api : ~RequestReset(a) /\ a \in Publisher
  BY NoResetNext DEF Publisher, Undisturbed
<1> QED BY <1>2, <1>3, <1>4, <1>5, <1>6, <1>7, <1>8, <1>9, <1>10
        DEF Next, ApiStep, PublisherStep, PublisherFault

(* Every step keeps CoverInv.                                              *)
LEMMA CoverNext ==
  ASSUME Undisturbed, TypeOK, BornInv, CoverInv, [Next]_vars PROVE CoverInv'
<1>1. NoReset' /\ \A a \in Api : ~RequestReset(a)
  BY NoResetNext DEF CoverInv, Undisturbed
<1>2. ASSUME NEW j \in Job, job'[j].status = "QUEUED", Announced(j)' PROVE Sent(j)'
  <2>1. job[j].status = "QUEUED" \/ ~Born(j)
    BY <1>1, <1>2, StatusWrites DEF Writes
  <2>2. Announced(j) \/ Sent(j)'
    BY <1>2, AnnouncedSource DEF CoverInv
  <2>3. ~Born(j) => ~Announced(j)
    BY DEF BornInv, BornOutbox, BornPub, Announced
  <2>4. CASE Announced(j)
    <3>1. Sent(j)
      BY <2>1, <2>3, <2>4 DEF CoverInv
    <3> QED BY <1>2, <2>1, <2>3, <2>4, <3>1, SentKept
  <2> QED BY <2>2, <2>4
<1>3. \A j \in Job : (job[j].status = "QUEUED" /\ Announced(j) => Sent(j))'
  BY <1>2
<1> QED BY <1>1, <1>3 DEF CoverInv

(* An accepted job always has a message in the broker, a worker about to   *)
(* claim it or an outbox row that will be published again: for any number  *)
(* of jobs, publishers and workers, wherever a publisher dies, whatever    *)
(* the broker refuses or answers too late and however many deliveries are  *)
(* put back. What breaks it without the assumption is shown by the run     *)
(* lost_dispatch.                                                          *)
THEOREM CoveredWhenUndisturbed ==
  ASSUME Undisturbed
  PROVE  Spec => []DispatchCovered
<1>1. Init => CoverInv
  BY DEF Init, CoverInv, NoReset, NoJob, IdlePub, Publisher
<1>2. TypeOK /\ CoverInv => DispatchCovered
  <2> SUFFICES ASSUME TypeOK, CoverInv, NEW j \in Job, job[j].status = "QUEUED",
                      outbox[j] # "none"
               PROVE  OnItsWay(j)
    BY DEF DispatchCovered
  <2>1. outbox[j] \in {"due", "backoff", "dispatched"}
    BY Shapes
  <2> QED BY <2>1 DEF CoverInv, Announced, Sent, OnItsWay
<1>3. TypeOK /\ BornInv /\ CoverInv /\ [Next]_vars => CoverInv'
  BY CoverNext
<1> QED BY <1>1, <1>2, <1>3, NoOrphans, TypeCorrect, PTL DEF Spec

-----------------------------------------------------------------------------
(* JobService *)

(* What the pipeline needs to look like one service to its clients: no     *)
(* handler, reset or reconciler run writes a job that is held, and whoever *)
(* holds a job holds it alone.                                             *)
NoHandler ==
  \A w \in Worker : ~At(w, {"inner", "outer", "outerFail", "retryInner", "retryOuter"})
HeldRuns == \A w \in Worker, j \in Job : Holds(w, j) => job[j].status = "RUNNING"
Orderly == NoReset /\ stale = {} /\ NoHandler /\ HeldRuns /\ OneHolder

(* No error that would take back a result.                                 *)
NoErrors == Faults \cap {"db", "soft"} = {}

(* With Orderly the statuses of all jobs move as the service's phases do.  *)
PhaseMoves(j) ==
  LET s == job[j].status
      t == job'[j].status
  IN  \/ t = s
      \/ s = "none" /\ t = "QUEUED"
      \/ s \notin {"none", "COMPLETED"} /\ t = "RUNNING"
      \/ s = "RUNNING" /\ t \in {"COMPLETED", "FAILED"}

(* They do, for any number of jobs.                                        *)
LEMMA OrderlyPhases ==
  ASSUME Batch = {}, TypeOK, BornInv, Orderly, [Next]_vars, NEW j \in Job
  PROVE  PhaseMoves(j)
<1> SUFFICES ASSUME Writes(j) PROVE PhaseMoves(j)
  BY StatusWrites DEF PhaseMoves
<1> USE DEF PhaseMoves
<1>1. CASE ~Born(j) /\ job'[j].status = "QUEUED"
  BY <1>1 DEF Born
<1>2. ASSUME NEW w \in Worker, work[w].msg.job = j, Claim(w), job'[j].status = "RUNNING"
      PROVE  PhaseMoves(j)
  <2>1. Born(j)
    BY <1>2 DEF Claim, At, BornInv, BornWork
  <2>2. job[j].status # "COMPLETED"
    BY <1>2 DEF Claim, IsDuplicate
  <2> QED BY <1>2, <2>1, <2>2 DEF Born
<1>3. ASSUME NEW w \in Worker, work[w].msg.job = j, Recover(w) \/ Finish(w) \/ FailJob(w)
      PROVE  job[j].status = "RUNNING"
  <2>1. Holds(w, j)
    BY <1>3 DEF Recover, Finish, FailJob, Holds, At
  <2> QED BY <2>1 DEF Orderly, HeldRuns
<1>4. \A w \in Worker : ~GiveUp(w) /\ ~MarkRetrying(w)
  BY DEF GiveUp, MarkRetrying, Orderly, NoHandler, At
<1>5. ~ReconcileFail(j) /\ \A a \in Api : ~RequestReset(a)
  BY DEF ReconcileFail, RequestReset, Orderly, NoReset
<1> QED BY <1>1, <1>2, <1>3, <1>4, <1>5 DEF Writes

(* A quiet pipeline is orderly.                                            *)
LEMMA QuietOrderly == ASSUME ExclusiveInv PROVE Orderly
BY DEF ExclusiveInv, Calm, HolderRuns, Orderly, NoReset, NoHandler, HeldRuns, At

(* ExclusiveInv holds throughout a quiet pipeline.                         *)
LEMMA QuietInv == ASSUME Quiet PROVE Spec => []ExclusiveInv
<1>1. Init => ExclusiveInv
  BY DEF Init, ExclusiveInv, Calm, HolderRuns, OneHolder, Holds, At, NoJob, IdleWork, NoMessage,
         IdlePub, Publisher
<1>2. TypeOK /\ ExclusiveInv /\ [Next]_vars => ExclusiveInv'
  BY ExclusiveNext
<1> QED BY <1>1, <1>2, TypeCorrect, PTL DEF Spec

(* In a quiet pipeline a COMPLETED job stays COMPLETED, as docs/           *)
(* architecture.md promises; the run regress shows what a database error   *)
(* after the result makes of it.                                           *)
THEOREM CompletedFinalWhenQuiet ==
  ASSUME Quiet
  PROVE  Spec => CompletedFinal
<1>1. TypeOK /\ BornInv /\ ExclusiveInv /\ [Next]_vars =>
        [\A j \in Job : job[j].status = "COMPLETED" => job'[j].status = "COMPLETED"]_vars
  <2> SUFFICES ASSUME TypeOK, BornInv, ExclusiveInv, [Next]_vars,
                      NEW j \in Job, job[j].status = "COMPLETED"
               PROVE  job'[j].status = "COMPLETED"
    OBVIOUS
  <2>1. PhaseMoves(j)
    BY OrderlyPhases, QuietOrderly DEF Quiet
  <2> QED BY <2>1 DEF PhaseMoves
<1> QED BY <1>1, QuietInv, NoOrphans, TypeCorrect, PTL DEF Spec, CompletedFinal

(* One evidence file and one analysis type with a single job: the engine   *)
(* is started only while no completed result is stored, and before the job *)
(* there is no row at all.                                                 *)
ResultRows == {i \in 1..Len(rows) : rows[i] = "completed"}
OnceInv ==
  /\ \A j \in Job : job[j].queuedAt = 0
  /\ (\E j \in Job : ~Born(j)) => rows = << >>
  /\ \A w \in Worker : At(w, {"start", "engine"}) => ResultRows = {}

(* What a step does to the completed results: nothing, or the first one is *)
(* stored by the worker that runs the engine for the job.                  *)
StoresFirst == \E w \in Worker : /\ EngineEnd(w)
                                 /\ ResultRows = {}
                                 /\ \E i \in Nat : ResultRows' = {i}

(* An attempt never adds a second completed result.                        *)
LEMMA EngineStores ==
  ASSUME MaxJobs = 1, TypeOK, ResultInv, OneHolder, OnceInv, NEW w \in Worker, EngineEnd(w)
  PROVE  (ResultRows' = {} \/ StoresFirst) /\ ~\E v \in Worker : At(v, {"start", "engine"})'
<1> DEFINE k == work[w].row
<1>0. rows \in Seq(RowStatus) /\ Len(rows) \in Nat /\ ResultRows = {}
  BY Shapes DEF EngineEnd, OnceInv, At
<1>1. PICK r \in EngineOutcome :
        /\ rows' = [rows EXCEPT ![k] = r]
        /\ Goto(w, IF r \in {"failed", "running"} THEN "fail" ELSE "finish")
  BY DEF EngineEnd
<1>2. k \in 1..Len(rows)
  BY DEF EngineEnd, ResultInv, EngineRows
<1>3. /\ Len(rows') = Len(rows) /\ rows'[k] = r
      /\ \A i \in 1..Len(rows) : i # k => rows'[i] = rows[i]
  <2>1. rows \in [1..Len(rows) -> RowStatus]
    BY <1>0, LenProperties
  <2> QED BY <1>0, <1>1, <1>2, <2>1, ExceptSeq
<1>4. ResultRows' = {} \/ StoresFirst
  <2>1. PICK i \in Nat : i = k
    BY <1>0, <1>2
  <2>2. ResultRows' = {} \/ ResultRows' = {i}
    <3>1. \A n \in 1..Len(rows) : n # i => rows'[n] # "completed"
      BY <1>0, <1>3, <2>1 DEF ResultRows
    <3>2. CASE r = "completed"
      BY <1>2, <1>3, <2>1, <3>1, <3>2 DEF ResultRows
    <3>3. CASE r # "completed"
      BY <1>2, <1>3, <2>1, <3>1, <3>3 DEF ResultRows
    <3> QED BY <3>2, <3>3
  <2> QED BY <1>0, <2>2 DEF StoresFirst
<1>5. ASSUME NEW v \in Worker, At(v, {"start", "engine"})' PROVE FALSE
  <2>1. /\ \A u \in Worker \ {w} : work'[u] = work[u]
        /\ work'[w].pc \in {"fail", "finish"}
    BY <1>1, Moves
  <2>2. v # w /\ At(v, {"start", "engine"})
    BY <1>5, <2>1 DEF At
  <2>3. work[v].msg.job \in Job /\ work[w].msg.job \in Job
    BY <2>2, Shapes DEF EngineEnd, At
  <2>4. Job = {1}
    BY DEF Job
  <2>5. Holds(v, 1) /\ Holds(w, 1)
    BY <2>2, <2>3, <2>4 DEF EngineEnd, Holds, At
  <2> QED BY <2>2, <2>4, <2>5 DEF OneHolder
<1> QED BY <1>4, <1>5

(* The steps that leave the rows alone, or add one that is still running,  *)
(* leave the results alone.                                                *)
LEMMA ResultsKept ==
  ASSUME TypeOK, rows' = rows \/ rows' = Append(rows, "running")
  PROVE  ResultRows' = ResultRows
<1>1. CASE rows' = rows
  BY <1>1 DEF ResultRows
<1>2. CASE rows' = Append(rows, "running")
  <2>1. /\ Len(rows') = Len(rows) + 1 /\ Len(rows) \in Nat
        /\ \A i \in 1..Len(rows) : rows'[i] = rows[i]
        /\ rows'[Len(rows) + 1] = "running"
    BY <1>2, Shapes, AppendProperties DEF RowStatus
  <2> QED BY <2>1 DEF ResultRows
<1> QED BY <1>1, <1>2

(* Nobody starts the engine without having looked for a result.            *)
LEMMA StartSource ==
  ASSUME TypeOK, [Next]_vars, NEW w \in Worker, At(w, {"start", "engine"})'
  PROVE  At(w, {"start", "engine"}) \/ NoResult(w)
<1> SUFFICES ASSUME ~At(w, {"start", "engine"}) PROVE NoResult(w)
  OBVIOUS
<1>1. work'[w].pc \in {"start", "engine"} /\ work'[w] # work[w]
  BY DEF At
<1>2. ASSUME NEW v \in Worker, WorkerStep(v) \/ WorkerFault(v) PROVE v = w
  BY <1>1, <1>2, OwnWorkSteps DEF OwnWork
<1>3. ASSUME WorkerStep(w) PROVE NoResult(w)
  <2>1. ~(\/ DropDuplicate(w) \/ Claim(w) \/ Recover(w) \/ EngineEnd(w) \/ Finish(w) \/ FailJob(w)
          \/ FinalAudit(w) \/ GiveUp(w) \/ MarkRetrying(w) \/ PublishRetry(w) \/ Acknowledge(w))
    <3>1. ~Return(w) /\ ~Ack(w) /\ \A pc : pc \notin {"start", "engine"} => ~Goto(w, pc)
      BY <1>1, Moves
    <3> QED BY <3>1 DEF DropDuplicate, Claim, Recover, EngineEnd, Finish, FailJob, FinalAudit,
                        GiveUp, MarkRetrying, PublishRetry, Acknowledge
  <2>2. ~EngineStart(w)
    BY DEF EngineStart, At
  <2> QED BY <1>3, <2>1, <2>2 DEF WorkerStep
<1>4. ~WorkerFault(w)
  BY <1>1, Moves DEF WorkerFault, DbError, DbHandlers, HandlerDbError, SoftError, RefreshFails,
                     PublishRetryFails, HardKill, WorkerLost, At
<1>5. ASSUME NEW v \in Worker, NEW m \in Message PROVE ~Deliver(v, m)
  BY <1>1, Shapes DEF Deliver
<1>6. ASSUME \/ UNCHANGED vars
             \/ \E a \in Api : (\E force \in BOOLEAN : QueueNew(a, force)) \/ RequestRead(a)
                               \/ ApiStep(a)
             \/ \E b \in Batch : BatchCheck(b) \/ BatchStep(b) \/ BatchDelayFails(b)
             \/ \E b \in Beat : SelectPending(b)
             \/ \E p \in Publisher : PublisherStep(p) \/ PublisherFault(p)
             \/ \E k \in Job : BackoffElapsed(k) \/ LeaseExpires(k) \/ ReconcileFail(k)
             \/ ReconcileRead \/ ReconcileAborts
      PROVE  work' = work
  BY <1>6, RequestSteps, PublisherSteps, TimeSteps DEF vars
<1> QED BY <1>1, <1>2, <1>3, <1>4, <1>5, <1>6 DEF Next

(* A job never leaves the table.                                           *)
LEMMA BornKept == ASSUME TypeOK, [Next]_vars, NEW j \in Job, Born(j) PROVE Born(j)'
BY StatusWrites DEF Born, Writes

(* Every orderly step keeps OnceInv, and stores the first result or none.  *)
LEMMA OnceNext ==
  ASSUME MaxJobs = 1, Batch = {}, NoErrors, TypeOK, BornInv, ResultInv, Orderly, OnceInv,
         [Next]_vars
  PROVE  OnceInv' /\ (ResultRows' = ResultRows \/ StoresFirst)
<1>0. Job = {1}
  BY DEF Job
<1>1. /\ ResultRows' = ResultRows \/ StoresFirst
      /\ ResultRows' = ResultRows \/ ~\E v \in Worker : At(v, {"start", "engine"})'
  <2>1. CASE \E w \in Worker : EngineEnd(w)
    <3>1. PICK w \in Worker : EngineEnd(w)
      BY <2>1
    <3>2. ResultRows = {}
      BY <3>1 DEF EngineEnd, OnceInv, At
    <3> QED BY <3>1, <3>2, EngineStores DEF Orderly
  <2>2. CASE ~\E w \in Worker : EngineEnd(w)
    <3>1. rows' = rows \/ rows' = Append(rows, "running")
      BY <2>2, StepCases DEF ResultStep, EngineStart, Finish, Recover, RefreshFails, Fault, NoErrors
    <3> QED BY <3>1, ResultsKept
  <2> QED BY <2>1, <2>2
<1>2. \A j \in Job : job'[j].queuedAt = 0
  <2> SUFFICES ASSUME NEW j \in Job PROVE job'[j].queuedAt = 0
    OBVIOUS
  <2>1. QueuedAnew(j) /\ ~\E a \in Api : RequestReset(a)
    BY QueuedAnewAlways DEF Orderly, NoReset, RequestReset
  <2>2. ~Born(j) => Len(rows) = 0
    BY EmptySeq DEF OnceInv
  <2> QED BY <2>1, <2>2 DEF QueuedAnew, OnceInv
<1>3. (\E j \in Job : ~Born(j))' => rows' = << >>
  <2> SUFFICES ASSUME job'[1].status = "none" PROVE rows' = << >>
    BY <1>0 DEF Born
  <2>1. ~Born(1)
    BY <1>0, BornKept DEF Born
  <2>2. \A w \in Worker : At(w, {"idle"})
    BY <1>0, <2>1, Shapes DEF BornInv, BornWork, At
  <2>3. rows' = rows
    BY <2>2, StepCases DEF ResultStep, EngineStart, EngineEnd, Finish, Recover, RefreshFails, At
  <2> QED BY <1>0, <2>1, <2>3 DEF OnceInv
<1>4. ASSUME NEW w \in Worker, At(w, {"start", "engine"})' PROVE ResultRows' = {}
  <2>1. ResultRows' = ResultRows
    BY <1>1, <1>4
  <2>2. CASE At(w, {"start", "engine"})
    BY <2>1, <2>2 DEF OnceInv
  <2>3. CASE NoResult(w)
    <3>1. work[w].msg.job \in Job /\ ResultsSince(work[w].msg.job) = {}
      BY <2>3, Shapes DEF NoResult, At
    <3>2. ResultRows = ResultsSince(work[w].msg.job)
      BY <3>1 DEF OnceInv, ResultsSince, ResultRows
    <3> QED BY <2>1, <3>1, <3>2
  <2> QED BY <1>4, <2>2, <2>3, StartSource
<1>5. OnceInv'
  BY <1>2, <1>3, <1>4 DEF OnceInv
<1> QED BY <1>1, <1>5

(* The abstract state: the phase of each job and its number of results.    *)
phaseBar == [j \in Job |-> Phase(job[j].status)]
resultsBar == [j \in Job |-> Cardinality(ResultsSince(j))]

(* Every orderly step is a step of the service, or none at all.            *)
LEMMA ServiceStep ==
  ASSUME MaxJobs = 1, Batch = {}, NoErrors, TypeOK, BornInv, ResultInv, Orderly, OnceInv,
         [Next]_vars
  PROVE  [Service!Next]_(Service!vars)
<1>0. Job = {1} /\ TypeOK' /\ OnceInv'
  BY OnceNext, TypeNext DEF Job
<1>1. /\ resultsBar = [j \in Job |-> Cardinality(ResultRows)]
      /\ resultsBar' = [j \in Job |-> Cardinality(ResultRows')]
  <2>1. \A j \in Job : ResultsSince(j) = ResultRows /\ ResultsSince(j)' = ResultRows'
    BY <1>0 DEF OnceInv, ResultsSince, ResultRows
  <2> QED BY <2>1 DEF resultsBar
<1>2. CASE StoresFirst
  <2>1. PICK w \in Worker : EngineEnd(w)
    BY <1>2 DEF StoresFirst
  <2>2. job' = job /\ phaseBar' = phaseBar
    BY <2>1 DEF EngineEnd, phaseBar
  <2>3. Holds(w, 1)
    BY <1>0, <2>1, Shapes DEF EngineEnd, Holds, At
  <2>4. phaseBar[1] = "open"
    BY <1>0, <2>3 DEF Orderly, HeldRuns, phaseBar, Phase
  <2>5. Cardinality(ResultRows) = 0 /\ Cardinality(ResultRows') = 1
    BY <1>2, FS_EmptySet, FS_Singleton DEF StoresFirst
  <2>6. resultsBar[1] = 0 /\ resultsBar' = [resultsBar EXCEPT ![1] = 1]
    BY <1>0, <1>1, <2>5
  <2>7. Service!Store(1)
    BY <2>2, <2>4, <2>6 DEF Service!Store, phaseBar, resultsBar
  <2> QED BY <1>0, <2>7 DEF Service!Next
<1>3. CASE ResultRows' = ResultRows
  <2>1. resultsBar' = resultsBar
    BY <1>1, <1>3
  <2>2. PhaseMoves(1)
    BY <1>0, OrderlyPhases
  <2>3. phaseBar = [j \in {1} |-> Phase(job[1].status)]
        /\ phaseBar' = [j \in {1} |-> Phase(job'[1].status)]
    BY <1>0 DEF phaseBar
  <2>4. \/ phaseBar' = phaseBar
        \/ /\ phaseBar[1] = "absent" /\ phaseBar' = [phaseBar EXCEPT ![1] = "open"]
        \/ /\ phaseBar[1] = "failed" /\ phaseBar' = [phaseBar EXCEPT ![1] = "open"]
        \/ /\ phaseBar[1] = "open"
           /\ phaseBar' \in {[phaseBar EXCEPT ![1] = "done"], [phaseBar EXCEPT ![1] = "failed"]}
    <3>1. job[1].status \in {"none", "QUEUED", "RUNNING", "RETRYING", "COMPLETED", "FAILED"}
      BY <1>0, Shapes DEF JobRow
    <3> QED BY <2>2, <2>3, <3>1 DEF PhaseMoves, Phase
  <2>5. \/ UNCHANGED <<phaseBar, resultsBar>>
        \/ Service!Submit(1) \/ Service!Reopen(1) \/ Service!Settle(1)
    BY <2>1, <2>4 DEF Service!Submit, Service!Reopen, Service!Settle, phaseBar, resultsBar
  <2> QED BY <1>0, <2>5 DEF Service!Next, Service!vars, phaseBar, resultsBar
<1> QED BY <1>2, <1>3, OnceNext

(* In the beginning there is no job.                                       *)
LEMMA ServiceInit == Init => OnceInv /\ Service!Init
<1> SUFFICES ASSUME Init PROVE OnceInv /\ Service!Init
  OBVIOUS
<1>1. /\ \A j \in Job : job[j].status = "none" /\ job[j].queuedAt = 0
      /\ rows = << >> /\ Len(rows) = 0
      /\ \A w \in Worker : work[w].pc = "idle"
  BY EmptySeq DEF Init, NoJob, IdleWork
<1>2. OnceInv
  BY <1>1 DEF OnceInv, Born, ResultRows, At
<1>3. \A j \in Job : ResultsSince(j) = {}
  BY <1>1 DEF ResultsSince
<1>4. Service!Init
  BY <1>1, <1>3, FS_EmptySet DEF Service!Init, Phase
<1> QED BY <1>2, <1>4

(* A quiet pipeline implements the service: a submission that is published *)
(* and delivered any number of times, by publishers that crash and workers *)
(* that are killed, is settled once, keeps its answer, and stores one      *)
(* completed result at most.                                               *)
THEOREM ServiceWhenQuiet ==
  ASSUME Quiet, MaxJobs = 1
  PROVE  Spec => ImplementsService
<1>1. Init => ResultInv /\ OnceInv /\ Service!Init
  <2>1. Init => ResultInv
    BY DEF Init, ResultInv, EngineRows, FinishRows, CompletedHasResult, NoJob, IdleWork, At
  <2> QED BY <2>1, ServiceInit
<1>2. TypeOK /\ ResultInv /\ [Next]_vars => ResultInv'
  BY ResultNext
<1>3. /\ TypeOK /\ BornInv /\ ResultInv /\ ExclusiveInv /\ OnceInv /\ [Next]_vars
      => OnceInv' /\ [Service!Next]_(Service!vars)
  <2> SUFFICES ASSUME TypeOK, BornInv, ResultInv, ExclusiveInv, OnceInv, [Next]_vars
               PROVE  OnceInv' /\ [Service!Next]_(Service!vars)
    OBVIOUS
  <2>1. Orderly /\ Batch = {} /\ NoErrors
    BY QuietOrderly DEF Quiet, NoErrors
  <2>2. OnceInv'
    BY <2>1, OnceNext
  <2>3. [Service!Next]_(Service!vars)
    BY <2>1, ServiceStep
  <2> QED BY <2>2, <2>3
<1> QED BY <1>1, <1>2, <1>3, QuietInv, NoOrphans, TypeCorrect, PTL
        DEF Spec, ImplementsService, Service!Spec

-----------------------------------------------------------------------------
(* Exclusive again: one message for each job *)

(* Every message is sent by the thread that created its job: no Beat       *)
(* repeats it and no reset sends it anew. What is left are redeliveries,   *)
(* retries, errors, kills, crashes and expiring leases - but not a         *)
(* database error and a lost worker together: a task that has published    *)
(* its retry and is then lost before the acknowledgement is delivered      *)
(* twice.                                                                  *)
SentOnce == /\ Beat = {} /\ MaxRequeues = 0
            /\ ~({"db", "lost"} \subseteq Faults)

(* Who may bring a job to execution: the thread that has not sent its      *)
(* message, the message, and the worker whose delivery is not finished; a  *)
(* task that has returned counts as long as its worker can still be lost.  *)
InHand(p) == pub[p].pc \in {"select", "send", "delay"}
Live(w) == ~At(w, {"idle"}) /\ (At(w, {"return"}) => "lost" \in Faults)
Senders(j) == {p \in Publisher : InHand(p) /\ pub[p].job = j}
Messages(j) == {m \in Message : m.job = j /\ queue[m] > 0}
Attempts(j) == {w \in Worker : Live(w) /\ work[w].msg.job = j}

Lone(P, M, W) ==
  /\ \A x, y \in P : x = y
  /\ \A x, y \in M : x = y
  /\ \A x, y \in W : x = y
  /\ P = {} \/ M = {}
  /\ P = {} \/ W = {}
  /\ M = {} \/ W = {}

(* At most one of them exists, in one copy; a thread has no further rows   *)
(* to send; and only database errors lead to retries.                      *)
OneCarrier == \A j \in Job : Lone(Senders(j), Messages(j), Attempts(j))
OneCopy == \A m \in Message : queue[m] <= 1
OwnRowOnly == \A p \in Publisher : pub[p].rest = {} /\ pub[p].pc # "bump"
NoRetries == "db" \notin Faults =>
               \A w \in Worker : ~At(w, {"inner", "outer", "retryInner", "retryOuter"})
SingleInv == OneCarrier /\ OneCopy /\ OwnRowOnly /\ NoReset /\ NoRetries

(* A carrier that disappears, or hands the job on, stays alone.            *)
LEMMA LoneShrinks ==
  ASSUME NEW P, NEW M, NEW W, NEW P2, NEW M2, NEW W2, Lone(P, M, W),
         P2 \subseteq P, M2 \subseteq M, W2 \subseteq W
  PROVE  Lone(P2, M2, W2)
<1>1. /\ P = {} => P2 = {}
      /\ M = {} => M2 = {}
      /\ W = {} => W2 = {}
  OBVIOUS
<1> QED BY <1>1 DEF Lone

(* A thread sends its message.                                             *)
LEMMA LoneSent ==
  ASSUME NEW P, NEW M, NEW W, NEW P2, NEW M2, NEW W2, Lone(P, M, W),
         NEW p \in P, NEW m, P2 \subseteq P \ {p}, M2 \subseteq M \cup {m}, W2 \subseteq W
  PROVE  Lone(P2, M2, W2)
<1>1. P2 = {} /\ W2 = {} /\ M = {}
  BY DEF Lone
<1> QED BY <1>1 DEF Lone

(* A message is delivered.                                                 *)
LEMMA LoneDelivered ==
  ASSUME NEW P, NEW M, NEW W, NEW P2, NEW M2, NEW W2, Lone(P, M, W),
         NEW m \in M, NEW w, P2 \subseteq P, M2 \subseteq M \ {m}, W2 \subseteq W \cup {w}
  PROVE  Lone(P2, M2, W2)
<1>1. P2 = {} /\ M2 = {} /\ W = {}
  BY DEF Lone
<1> QED BY <1>1 DEF Lone

(* A worker puts its delivery back, or publishes a retry.                  *)
LEMMA LoneReturned ==
  ASSUME NEW P, NEW M, NEW W, NEW P2, NEW M2, NEW W2, Lone(P, M, W),
         NEW w \in W, NEW m, P2 \subseteq P, M2 \subseteq M \cup {m}, W2 \subseteq W \ {w}
  PROVE  Lone(P2, M2, W2)
<1>1. P2 = {} /\ W2 = {} /\ M = {}
  BY DEF Lone
<1> QED BY <1>1 DEF Lone

(* What sending does to the messages of each job.                          *)
LEMMA PutMessages ==
  ASSUME TypeOK, OneCopy, NEW n, Put(n), NEW k, n.job = k, Messages(k) = {}
  PROVE  /\ OneCopy'
         /\ \A j \in Job : Messages(j)' \subseteq Messages(j) \cup {n}
         /\ \A j \in Job : j # k => Messages(j)' \subseteq Messages(j)
<1>0. queue \in [Message -> Nat]
  BY Shapes
<1>1. CASE n \notin Message
  <2>1. queue' = queue
    BY <1>0, <1>1 DEF Put
  <2> QED BY <2>1 DEF OneCopy, Messages
<1>2. CASE n \in Message
  <2>1. queue[n] = 0
    BY <1>0, <1>2 DEF Messages
  <2>2. queue'[n] = 1 /\ \A m \in Message \ {n} : queue'[m] = queue[m]
    BY <1>0, <1>2, <2>1 DEF Put
  <2>3. OneCopy'
    BY <2>2 DEF OneCopy
  <2> QED BY <2>2, <2>3 DEF Messages
<1> QED BY <1>1, <1>2

(* A publisher's step keeps the job in its hands, sends it or drops it.    *)
PublisherMove(p) ==
  /\ \A q \in Publisher \ {p} : pub'[q] = pub[q]
  /\ work' = work
  /\ \/ queue' = queue /\ (InHand(p)' => InHand(p) /\ pub'[p].job = pub[p].job)
     \/ InHand(p) /\ ~InHand(p)' /\ Put(FreshMessage(pub[p].job))

(* Such steps keep one carrier for each job.                               *)
LEMMA PublisherMoveOne ==
  ASSUME TypeOK, OneCarrier, OneCopy, NEW p \in Publisher, PublisherMove(p)
  PROVE  OneCarrier' /\ OneCopy'
<1>0. \A j : Attempts(j)' = Attempts(j)
  BY DEF PublisherMove, Attempts, Live, At
<1>1. CASE queue' = queue /\ (InHand(p)' => InHand(p) /\ pub'[p].job = pub[p].job)
  <2>1. \A j \in Job : Senders(j)' \subseteq Senders(j) /\ Messages(j)' = Messages(j)
    BY <1>1 DEF PublisherMove, Senders, InHand, Messages
  <2>2. OneCarrier'
    BY <1>0, <2>1, LoneShrinks DEF OneCarrier
  <2> QED BY <1>1, <2>2 DEF OneCopy
<1>2. CASE InHand(p) /\ ~InHand(p)' /\ Put(FreshMessage(pub[p].job))
  <2>1. PICK k \in Job : k = pub[p].job
    BY <1>2, Shapes DEF InHand
  <2>2. PICK n : n = FreshMessage(k) /\ n.job = k /\ Put(n)
    BY <1>2, <2>1 DEF FreshMessage
  <2>3. p \in Senders(k) /\ \A j \in Job : Senders(j)' \subseteq Senders(j) \ {p}
    BY <1>2, <2>1 DEF PublisherMove, Senders, InHand
  <2>4. Lone(Senders(k), Messages(k), Attempts(k)) /\ Messages(k) = {}
    BY <2>3 DEF OneCarrier, Lone
  <2>5. /\ OneCopy'
        /\ \A j \in Job : Messages(j)' \subseteq Messages(j) \cup {n}
        /\ \A j \in Job : j # k => Messages(j)' \subseteq Messages(j)
    BY <2>2, <2>4, PutMessages
  <2>6. ASSUME NEW j \in Job PROVE Lone(Senders(j), Messages(j), Attempts(j))'
    <3>1. CASE j = k
      BY <1>0, <2>3, <2>4, <2>5, <3>1, LoneSent
    <3>2. CASE j # k
      <4>1. Lone(Senders(j), Messages(j), Attempts(j))
        BY DEF OneCarrier
      <4> QED BY <1>0, <2>3, <2>5, <3>2, <4>1, LoneShrinks
    <3> QED BY <3>1, <3>2
  <2> QED BY <2>5, <2>6 DEF OneCarrier
<1> QED BY <1>1, <1>2 DEF PublisherMove

(* Publishers, batch calls and the reading half of a reset move so.        *)
LEMMA PublisherMoves ==
  ASSUME TypeOK, OwnRowOnly, NEW p \in Publisher,
         \/ p \in Api /\ SelectOwn(p)
         \/ p \in Batch /\ (BatchCheck(p) \/ BatchDelay(p) \/ BatchDelayFails(p))
         \/ PublisherStep(p) \/ PublisherFault(p)
  PROVE  PublisherMove(p) /\ OwnRowOnly'
<1> USE DEF InHand
<1>0. /\ pub \in [Publisher -> PubState] /\ IdlePub.pc = "idle" /\ IdlePub.rest = {}
      /\ pub[p].rest = {} /\ pub[p].pc # "bump"
  BY Shapes DEF IdlePub, OwnRowOnly
<1>1. ASSUME NextRow(p) PROVE pub'[p].pc = "idle" /\ pub'[p].rest = {}
                              /\ \A q \in Publisher \ {p} : pub'[q] = pub[q]
  <2>1. pub' = [pub EXCEPT ![p] = IdlePub]
    BY <1>0, <1>1 DEF NextRow
  <2> QED BY <1>0, <2>1
<1>2. CASE SelectOwn(p)
  <2>1. pub[p].pc = "select" /\ UNCHANGED <<queue, work>>
    BY <1>2 DEF SelectOwn
  <2>2. \/ pub' = [pub EXCEPT ![p].pc = "send"]
        \/ pub' = [pub EXCEPT ![p] = IdlePub]
    BY <1>2 DEF SelectOwn
  <2>3. /\ \A q \in Publisher \ {p} : pub'[q] = pub[q]
        /\ pub'[p].rest = {} /\ pub'[p].pc # "bump"
        /\ pub'[p].pc = "send" => pub'[p].job = pub[p].job
        /\ pub'[p].pc \in {"send", "idle"}
    BY <1>0, <2>2 DEF PubState
  <2> QED BY <2>1, <2>3 DEF PublisherMove, OwnRowOnly
<1>3. CASE BatchCheck(p)
  <2>1. pub' = [pub EXCEPT ![p].pc = "insert"] /\ UNCHANGED <<queue, work>>
    BY <1>3 DEF BatchCheck
  <2>2. /\ \A q \in Publisher \ {p} : pub'[q] = pub[q]
        /\ pub'[p].rest = {} /\ pub'[p].pc = "insert"
    BY <1>0, <2>1 DEF PubState
  <2> QED BY <2>1, <2>2 DEF PublisherMove, OwnRowOnly
<1>4. CASE BatchDelay(p) \/ BatchDelayFails(p)
  <2>1. /\ pub[p].pc = "delay" /\ work' = work /\ pub' = [pub EXCEPT ![p] = IdlePub]
        /\ queue' = queue \/ Put(FreshMessage(pub[p].job))
    BY <1>4 DEF BatchDelay, BatchDelayFails
  <2>2. /\ \A q \in Publisher \ {p} : pub'[q] = pub[q]
        /\ pub'[p].rest = {} /\ pub'[p].pc = "idle"
    BY <1>0, <2>1
  <2> QED BY <2>1, <2>2 DEF PublisherMove, OwnRowOnly
<1>5. CASE Send(p)
  <2>1. /\ pub[p].pc = "send" /\ work' = work /\ pub' = [pub EXCEPT ![p].pc = "mark"]
        /\ Put(FreshMessage(pub[p].job))
    BY <1>5 DEF Send
  <2>2. /\ \A q \in Publisher \ {p} : pub'[q] = pub[q]
        /\ pub'[p].rest = {} /\ pub'[p].pc = "mark"
    BY <1>0, <2>1 DEF PubState
  <2> QED BY <2>1, <2>2 DEF PublisherMove, OwnRowOnly
<1>6. CASE SendFails(p)
  <2>1. /\ pub[p].pc = "send" /\ work' = work
        /\ queue' = queue \/ Put(FreshMessage(pub[p].job))
    BY <1>6 DEF SendFails
  <2> QED BY <1>1, <1>6, <2>1 DEF SendFails, PublisherMove, OwnRowOnly
<1>7. CASE Mark(p) \/ MarkFails(p)
  BY <1>1, <1>7 DEF Mark, MarkFails, PublisherMove, OwnRowOnly
<1>8. CASE PublisherCrash(p)
  <2>1. pub' = [pub EXCEPT ![p] = IdlePub] /\ UNCHANGED <<queue, work>>
    BY <1>8 DEF PublisherCrash
  <2>2. /\ \A q \in Publisher \ {p} : pub'[q] = pub[q]
        /\ pub'[p].rest = {} /\ pub'[p].pc = "idle"
    BY <1>0, <2>1
  <2> QED BY <2>1, <2>2 DEF PublisherMove, OwnRowOnly
<1>9. ~BumpNext(p)
  BY <1>0 DEF BumpNext
<1> QED BY <1>2, <1>3, <1>4, <1>5, <1>6, <1>7, <1>8, <1>9 DEF PublisherStep, PublisherFault

(* A new job is in the hands of the thread that has created it.            *)
LEMMA InsertOne ==
  ASSUME TypeOK, BornInv, OneCarrier, OneCopy, OwnRowOnly, NEW p \in Publisher, NEW k \in Job,
         ~Born(k), UNCHANGED <<queue, work>>, pub' \in [Publisher -> PubState],
         \A q \in Publisher \ {p} : pub'[q] = pub[q],
         pub'[p].job = k, pub'[p].rest = {}, pub'[p].pc # "bump"
  PROVE  OneCarrier' /\ OneCopy' /\ OwnRowOnly'
<1>1. Senders(k) = {} /\ Messages(k) = {} /\ Attempts(k) = {}
  BY DEF BornInv, BornPub, BornQueue, BornWork, Senders, InHand, Messages, Attempts, Live, At
<1>2. \A j : Messages(j)' = Messages(j) /\ Attempts(j)' = Attempts(j)
  BY DEF Messages, Attempts, Live, At
<1>3. /\ Senders(k)' \subseteq {p}
      /\ \A j \in Job : j # k => Senders(j)' \subseteq Senders(j)
  BY <1>1 DEF Senders, InHand
<1>4. ASSUME NEW j \in Job PROVE Lone(Senders(j), Messages(j), Attempts(j))'
  <2>1. CASE j = k
    BY <1>1, <1>2, <1>3, <2>1 DEF Lone
  <2>2. CASE j # k
    <3>1. Lone(Senders(j), Messages(j), Attempts(j))
      BY DEF OneCarrier
    <3> QED BY <1>2, <1>3, <2>2, <3>1, LoneShrinks
  <2> QED BY <2>1, <2>2
<1> QED BY <1>4 DEF OneCarrier, OneCopy, OwnRowOnly

(* The two ways to create a job.                                           *)
LEMMA CreateOne ==
  ASSUME TypeOK, BornInv, OneCarrier, OneCopy, OwnRowOnly,
         \/ \E a \in Api : \E force \in BOOLEAN : QueueNew(a, force)
         \/ \E b \in Batch : BatchInsert(b)
  PROVE  OneCarrier' /\ OneCopy' /\ OwnRowOnly'
<1>0. pub \in [Publisher -> PubState] /\ \A p \in Publisher : pub[p].rest = {}
  BY Shapes DEF OwnRowOnly
<1>1. ASSUME NEW a \in Api, NEW force \in BOOLEAN, QueueNew(a, force)
      PROVE  OneCarrier' /\ OneCopy' /\ OwnRowOnly'
  <2>1. PICK k \in Job : k = Least(Unborn) /\ ~Born(k)
    BY <1>1, NextUnborn DEF QueueNew
  <2>2. /\ pub' = [pub EXCEPT ![a] = [IdlePub EXCEPT !.pc = "select", !.job = k]]
        /\ UNCHANGED <<queue, work>> /\ a \in Publisher
    BY <1>1, <2>1, Shapes DEF QueueNew
  <2>3. /\ \A q \in Publisher \ {a} : pub'[q] = pub[q]
        /\ pub'[a].job = k /\ pub'[a].rest = {} /\ pub'[a].pc # "bump"
        /\ pub' \in [Publisher -> PubState]
    BY <1>0, <2>2 DEF IdlePub, PubState, Snapshot, Unseen
  <2> QED BY <2>1, <2>2, <2>3, InsertOne
<1>2. ASSUME NEW b \in Batch, BatchInsert(b)
      PROVE  OneCarrier' /\ OneCopy' /\ OwnRowOnly'
  <2>1. PICK k \in Job : k = Least(Unborn) /\ ~Born(k)
    BY <1>2, NextUnborn DEF BatchInsert
  <2>2. /\ pub' = [pub EXCEPT ![b].pc = "delay", ![b].job = k]
        /\ UNCHANGED <<queue, work>> /\ b \in Publisher
    BY <1>2, <2>1, Shapes DEF BatchInsert
  <2>3. /\ \A q \in Publisher \ {b} : pub'[q] = pub[q]
        /\ pub'[b].job = k /\ pub'[b].rest = {} /\ pub'[b].pc # "bump"
        /\ pub' \in [Publisher -> PubState]
    BY <1>0, <2>2 DEF PubState
  <2> QED BY <2>1, <2>2, <2>3, InsertOne
<1> QED BY <1>1, <1>2

(* A worker's step keeps its delivery, puts it back or retries it, or is   *)
(* done with it.                                                           *)
WorkerMove(w) ==
  /\ \A v \in Worker \ {w} : work'[v] = work[v]
  /\ pub' = pub
  /\ \/ queue' = queue /\ (Live(w)' => Live(w) /\ work'[w].msg = work[w].msg)
     \/ /\ Live(w) /\ ~Live(w)'
        /\ \E n : n.job = work[w].msg.job /\ Put(n)

(* Workers move so.                                                        *)
LEMMA WorkerMoves ==
  ASSUME SentOnce, TypeOK, NoRetries, NEW w \in Worker, WorkerStep(w) \/ WorkerFault(w)
  PROVE  WorkerMove(w)
<1>0. OwnWork(w) /\ ~At(w, {"idle"})
  BY OwnWorkSteps
<1>1. /\ \A v \in Worker \ {w} : work'[v] = work[v]
      /\ work'[w].pc # "idle" => work'[w].msg = work[w].msg
      /\ pub' = pub
  BY <1>0 DEF OwnWork
<1>2. ASSUME queue' = queue, ~At(w, {"return"}) \/ work'[w].pc = "idle" PROVE WorkerMove(w)
  BY <1>0, <1>1, <1>2 DEF WorkerMove, Live, At
<1>3. CASE \/ DropDuplicate(w) \/ Claim(w) \/ Recover(w) \/ NoResult(w) \/ EngineStart(w)
           \/ EngineEnd(w) \/ Finish(w) \/ FailJob(w) \/ FinalAudit(w) \/ GiveUp(w)
           \/ MarkRetrying(w)
  BY <1>2, <1>3 DEF DropDuplicate, Claim, Recover, NoResult, EngineStart, EngineEnd, Finish,
                    FailJob, FinalAudit, GiveUp, MarkRetrying, At
<1>4. CASE \/ DbError(w) \/ HandlerDbError(w) \/ SoftError(w) \/ RefreshFails(w)
           \/ PublishRetryFails(w)
  BY <1>2, <1>4 DEF DbError, HandlerDbError, SoftError, RefreshFails, PublishRetryFails, At
<1>5. CASE Acknowledge(w) \/ HardKill(w)
  BY <1>2, <1>5, Moves DEF Acknowledge, HardKill
<1>6. CASE PublishRetry(w)
  <2> DEFINE n == [FreshMessage(work[w].msg.job) EXCEPT !.retries = work[w].msg.retries + 1]
  <2>1. At(w, {"retryInner", "retryOuter"}) /\ Put(n) /\ Return(w)
    BY <1>6 DEF PublishRetry
  <2>2. n.job = work[w].msg.job
    BY DEF FreshMessage
  <2>3. "lost" \notin Faults
    BY <2>1 DEF NoRetries, SentOnce, At
  <2>4. work'[w].pc = "return"
    BY <2>1, Moves
  <2>5. Live(w) /\ ~Live(w)'
    BY <2>1, <2>3, <2>4 DEF Live, At
  <2> HIDE DEF n
  <2> QED BY <1>1, <2>1, <2>2, <2>5 DEF WorkerMove
<1>7. CASE WorkerLost(w)
  <2> DEFINE n == [work[w].msg EXCEPT !.redelivered = TRUE]
  <2>1. Put(n) /\ Ack(w) /\ "lost" \in Faults
    BY <1>7 DEF WorkerLost, Fault
  <2>2. n.job = work[w].msg.job
    BY <1>0, Redelivered
  <2>3. Live(w) /\ ~Live(w)'
    BY <1>0, <2>1, Moves DEF Live, At
  <2> HIDE DEF n
  <2> QED BY <1>1, <2>1, <2>2, <2>3 DEF WorkerMove
<1> QED BY <1>3, <1>4, <1>5, <1>6, <1>7 DEF WorkerStep, WorkerFault

(* Such steps keep one carrier for each job.                               *)
LEMMA WorkerMoveOne ==
  ASSUME TypeOK, OneCarrier, OneCopy, NEW w \in Worker, WorkerMove(w)
  PROVE  OneCarrier' /\ OneCopy'
<1>0. \A j : Senders(j)' = Senders(j)
  BY DEF WorkerMove, Senders, InHand
<1>1. CASE queue' = queue /\ (Live(w)' => Live(w) /\ work'[w].msg = work[w].msg)
  <2>1. \A j \in Job : Attempts(j)' \subseteq Attempts(j) /\ Messages(j)' = Messages(j)
    BY <1>1 DEF WorkerMove, Attempts, Live, At, Messages
  <2>2. ASSUME NEW j \in Job PROVE Lone(Senders(j), Messages(j), Attempts(j))'
    <3>1. Lone(Senders(j), Messages(j), Attempts(j))
      BY DEF OneCarrier
    <3> QED BY <1>0, <2>1, <3>1, LoneShrinks
  <2> QED BY <1>1, <2>2 DEF OneCarrier, OneCopy
<1>2. ASSUME Live(w), ~Live(w)', NEW n, n.job = work[w].msg.job, Put(n)
      PROVE  OneCarrier' /\ OneCopy'
  <2>1. PICK k \in Job : k = work[w].msg.job
    BY <1>2, Shapes DEF Live, At
  <2>2. w \in Attempts(k) /\ \A j \in Job : Attempts(j)' \subseteq Attempts(j) \ {w}
    BY <1>2, <2>1 DEF WorkerMove, Attempts, Live, At
  <2>3. Lone(Senders(k), Messages(k), Attempts(k)) /\ Messages(k) = {}
    BY <2>2 DEF OneCarrier, Lone
  <2>4. /\ OneCopy'
        /\ \A j \in Job : Messages(j)' \subseteq Messages(j) \cup {n}
        /\ \A j \in Job : j # k => Messages(j)' \subseteq Messages(j)
    BY <1>2, <2>1, <2>3, PutMessages
  <2>5. ASSUME NEW j \in Job PROVE Lone(Senders(j), Messages(j), Attempts(j))'
    <3>1. CASE j = k
      BY <1>0, <2>2, <2>3, <2>4, <3>1, LoneReturned
    <3>2. CASE j # k
      <4>1. Lone(Senders(j), Messages(j), Attempts(j))
        BY DEF OneCarrier
      <4> QED BY <1>0, <2>2, <2>4, <3>2, <4>1, LoneShrinks
    <3> QED BY <3>1, <3>2
  <2> QED BY <2>4, <2>5 DEF OneCarrier
<1> QED BY <1>1, <1>2 DEF WorkerMove

(* So does a delivery.                                                     *)
LEMMA DeliverOne ==
  ASSUME TypeOK, OneCarrier, OneCopy, NEW w \in Worker, NEW m \in Message, Deliver(w, m)
  PROVE  OneCarrier' /\ OneCopy'
<1>1. /\ work'[w].msg = m /\ \A v \in Worker \ {w} : work'[v] = work[v]
      /\ queue[m] > 0 /\ queue[m] \in Nat /\ queue'[m] = queue[m] - 1
      /\ \A n \in Message \ {m} : queue'[n] = queue[n]
      /\ pub' = pub
  BY Shapes DEF Deliver, outside
<1>2. queue[m] = 1 /\ queue'[m] = 0
  BY <1>1 DEF OneCopy
<1>3. OneCopy'
  BY <1>1, <1>2 DEF OneCopy
<1>4. PICK k \in Job : k = m.job
  BY DEF Message
<1>5. /\ \A j \in Job : Senders(j)' = Senders(j)
      /\ m \in Messages(k)
      /\ \A j \in Job : Messages(j)' \subseteq Messages(j) \ {m}
      /\ \A j \in Job : Attempts(j)' \subseteq Attempts(j) \cup {w}
      /\ \A j \in Job : j # k => Attempts(j)' \subseteq Attempts(j)
  BY <1>1, <1>2, <1>4 DEF Senders, InHand, Messages, Attempts, Live, At
<1>6. ASSUME NEW j \in Job PROVE Lone(Senders(j), Messages(j), Attempts(j))'
  <2>1. Lone(Senders(j), Messages(j), Attempts(j))
    BY DEF OneCarrier
  <2>2. CASE j = k
    BY <1>5, <2>1, <2>2, LoneDelivered
  <2>3. CASE j # k
    BY <1>5, <2>1, <2>3, LoneShrinks
  <2> QED BY <2>2, <2>3
<1> QED BY <1>3, <1>6 DEF OneCarrier

(* Only a database error leads a worker to the retrying handlers.          *)
LEMMA NoRetriesNext ==
  ASSUME TypeOK, NoRetries, [Next]_vars PROVE NoRetries'
<1> SUFFICES ASSUME "db" \notin Faults, NEW w \in Worker,
                    work'[w].pc \in {"inner", "outer", "retryInner", "retryOuter"}
             PROVE  FALSE
  BY DEF NoRetries, At
<1>1. work'[w] # work[w] /\ ~At(w, {"inner", "outer", "retryInner", "retryOuter"})
  BY DEF NoRetries, At
<1>2. ASSUME NEW v \in Worker, WorkerStep(v) \/ WorkerFault(v) PROVE FALSE
  <2>1. v = w
    BY <1>1, <1>2, OwnWorkSteps DEF OwnWork
  <2>2. /\ ~Return(w) /\ ~Ack(w)
        /\ \A pc : pc \notin {"inner", "outer", "retryInner", "retryOuter"} => ~Goto(w, pc)
    BY Moves
  <2>3. ~(\/ DropDuplicate(w) \/ Claim(w) \/ Recover(w) \/ NoResult(w) \/ EngineEnd(w)
          \/ Finish(w) \/ FailJob(w) \/ FinalAudit(w) \/ GiveUp(w) \/ PublishRetry(w)
          \/ Acknowledge(w))
    BY <2>2 DEF DropDuplicate, Claim, Recover, NoResult, EngineEnd, Finish, FailJob, FinalAudit,
                GiveUp, PublishRetry, Acknowledge
  <2>4. ~EngineStart(w)
    BY <2>2, Shapes DEF EngineStart, WorkState
  <2>5. ~MarkRetrying(w) /\ ~PublishRetryFails(w)
    BY <1>1 DEF MarkRetrying, PublishRetryFails, At
  <2>6. ~DbError(w) /\ ~HandlerDbError(w)
    BY DEF DbError, HandlerDbError, Fault
  <2>7. ~(SoftError(w) \/ RefreshFails(w) \/ HardKill(w) \/ WorkerLost(w))
    BY <2>2 DEF SoftError, RefreshFails, HardKill, WorkerLost
  <2> QED BY <1>2, <2>1, <2>3, <2>4, <2>5, <2>6, <2>7 DEF WorkerStep, WorkerFault
<1>3. ASSUME NEW v \in Worker, NEW m \in Message PROVE ~Deliver(v, m)
  BY <1>1, Shapes DEF Deliver
<1>4. ASSUME \/ UNCHANGED vars
             \/ \E a \in Api : (\E force \in BOOLEAN : QueueNew(a, force)) \/ RequestRead(a)
                               \/ ApiStep(a)
             \/ \E b \in Batch : BatchCheck(b) \/ BatchStep(b) \/ BatchDelayFails(b)
             \/ \E b \in Beat : SelectPending(b)
             \/ \E p \in Publisher : PublisherStep(p) \/ PublisherFault(p)
             \/ \E k \in Job : BackoffElapsed(k) \/ LeaseExpires(k) \/ ReconcileFail(k)
             \/ ReconcileRead \/ ReconcileAborts
      PROVE  work' = work
  BY <1>4, RequestSteps, PublisherSteps, TimeSteps DEF vars
<1> QED BY <1>1, <1>2, <1>3, <1>4 DEF Next

(* Every step keeps SingleInv.                                             *)
LEMMA SingleNext ==
  ASSUME SentOnce, TypeOK, BornInv, SingleInv, [Next]_vars PROVE SingleInv'
<1> USE DEF SingleInv
<1>0. /\ NoReset' /\ \A a \in Api : ~RequestReset(a) /\ ~RequestRead(a)
      /\ NoRetries'
  BY NoResetNext, NoRetriesNext DEF SentOnce
<1>1. ASSUME NEW p \in Publisher, PublisherMove(p), OwnRowOnly' PROVE SingleInv'
  BY <1>0, <1>1, PublisherMoveOne
<1>2. ASSUME NEW w \in Worker, WorkerStep(w) \/ WorkerFault(w) PROVE SingleInv'
  <2>1. WorkerMove(w)
    BY <1>2, WorkerMoves
  <2>2. OwnRowOnly'
    BY <2>1 DEF WorkerMove, OwnRowOnly
  <2> QED BY <1>0, <2>1, <2>2, WorkerMoveOne
<1>3. ASSUME NEW w \in Worker, NEW m \in Message, Deliver(w, m) PROVE SingleInv'
  <2>1. OwnRowOnly'
    BY <1>3 DEF Deliver, outside, OwnRowOnly
  <2> QED BY <1>0, <1>3, <2>1, DeliverOne
<1>4. ASSUME \/ UNCHANGED vars
             \/ \E k \in Job : BackoffElapsed(k) \/ LeaseExpires(k) \/ ReconcileFail(k)
             \/ ReconcileRead \/ ReconcileAborts
      PROVE  SingleInv'
  <2>1. UNCHANGED <<queue, pub, work>>
    BY <1>4 DEF vars, BackoffElapsed, LeaseExpires, ReconcileFail, ReconcileRead, ReconcileAborts
  <2>2. OneCarrier' /\ OneCopy' /\ OwnRowOnly'
    BY <2>1 DEF OneCarrier, Senders, InHand, Messages, Attempts, Live, At, OneCopy, OwnRowOnly
  <2> QED BY <1>0, <2>2
<1>5. CASE \/ \E a \in Api : \E force \in BOOLEAN : QueueNew(a, force)
           \/ \E b \in Batch : BatchInsert(b)
  BY <1>0, <1>5, CreateOne
<1>6. ASSUME NEW p \in Publisher,
             \/ p \in Api /\ SelectOwn(p)
             \/ p \in Batch /\ (BatchCheck(p) \/ BatchDelay(p) \/ BatchDelayFails(p))
             \/ PublisherStep(p) \/ PublisherFault(p)
      PROVE  SingleInv'
  BY <1>1, <1>6, PublisherMoves
<1>7. CASE Next
  <2>1. \/ \E a \in Api : \E force \in BOOLEAN : QueueNew(a, force)
        \/ \E b \in Batch : BatchInsert(b)
        \/ \E p \in Publisher :
             \/ p \in Api /\ SelectOwn(p)
             \/ p \in Batch /\ (BatchCheck(p) \/ BatchDelay(p) \/ BatchDelayFails(p))
             \/ PublisherStep(p) \/ PublisherFault(p)
        \/ \E w \in Worker : WorkerStep(w) \/ WorkerFault(w)
        \/ \E w \in Worker, m \in Message : Deliver(w, m)
        \/ \E k \in Job : BackoffElapsed(k) \/ LeaseExpires(k) \/ ReconcileFail(k)
        \/ ReconcileRead \/ ReconcileAborts
    <3>1. \A a \in Api : RequestRead(a) \/ ApiStep(a) => SelectOwn(a) /\ a \in Publisher
      BY <1>0 DEF ApiStep, Publisher
    <3>2. \A b \in Batch : b \in Publisher
      BY DEF Publisher
    <3> QED BY <1>7, <3>1, <3>2 DEF Next, BatchStep, SentOnce
  <2> QED BY <2>1, <1>2, <1>3, <1>4, <1>5, <1>6
<1> QED BY <1>4, <1>7

(* SingleInv holds throughout.                                             *)
LEMMA SingleAlways == ASSUME SentOnce PROVE Spec => []SingleInv
<1>1. Init => SingleInv
  BY DEF Init, SingleInv, OneCarrier, OneCopy, OwnRowOnly, NoReset, NoRetries, Senders, InHand,
         Messages, Attempts, Live, At, Lone, IdlePub, IdleWork, Publisher
<1>2. TypeOK /\ BornInv /\ SingleInv /\ [Next]_vars => SingleInv'
  BY SingleNext
<1> QED BY <1>1, <1>2, NoOrphans, TypeCorrect, PTL DEF Spec

(* No two workers execute one job as long as nobody but its own request    *)
(* sends its message: whatever else fails or expires, however many         *)
(* deliveries are put back or retried. Only a database error and a lost    *)
(* worker together would break it.                                         *)
THEOREM ExclusiveWhenSentOnce ==
  ASSUME SentOnce
  PROVE  Spec => []Exclusive
<1>1. TypeOK /\ SingleInv => Exclusive
  <2> SUFFICES ASSUME TypeOK, SingleInv, NEW j \in Job, NEW v \in Worker, NEW w \in Worker,
                      Executing(v, j), Executing(w, j)
               PROVE  v = w
    BY DEF Exclusive
  <2>1. v \in Attempts(j) /\ w \in Attempts(j)
    BY DEF Executing, Attempts, Live, At
  <2> QED BY <2>1 DEF SingleInv, OneCarrier, Lone
<1> QED BY <1>1, SingleAlways, TypeCorrect, PTL

(* Redeliveries alone: a job is published once, workers are lost or killed *)
(* and threads die, but no error is handled and no lease expires.          *)
OnlyRedelivered ==
  /\ SentOnce /\ Batch = {}
  /\ Faults \cap {"db", "soft", "expire"} = {}

(* Nothing is old enough for the reconciler.                               *)
NothingOld == stale = {} /\ \A j \in Job : job[j].startedAt # "old" /\ ~job[j].queuedOld

(* Only a lease that expires makes a job old, and only queueing it again   *)
(* takes its started_at away.                                              *)
LEMMA Ageing ==
  ASSUME TypeOK, [Next]_vars, NEW j \in Job
  PROVE  /\ job'[j].startedAt = "old" => job[j].startedAt = "old" \/ LeaseExpires(j)
         /\ job'[j].queuedOld => job[j].queuedOld \/ LeaseExpires(j)
         /\ job'[j].startedAt = "null" => job[j].startedAt = "null" \/ job'[j].status = "QUEUED"
<1> DEFINE Younger ==
      /\ job'[j].startedAt = "old" => job[j].startedAt = "old" \/ LeaseExpires(j)
      /\ job'[j].queuedOld => job[j].queuedOld \/ LeaseExpires(j)
      /\ job'[j].startedAt = "null" => job[j].startedAt = "null" \/ job'[j].status = "QUEUED"
<1>0. job \in [Job -> JobRow]
  BY Shapes
<1>1. ASSUME job' = job PROVE Younger
  BY <1>1
<1>2. ASSUME NEW k \in Job, InsertJob(k) PROVE Younger
  BY <1>2, InsertEffect
<1>3. ASSUME NEW a \in Api, NEW force \in BOOLEAN, QueueNew(a, force) PROVE Younger
  <2>1. PICK k \in Job : InsertJob(k)
    BY <1>3, NextUnborn DEF QueueNew
  <2> HIDE DEF Younger
  <2> QED BY <1>2, <2>1
<1>4. ASSUME NEW b \in Batch, BatchInsert(b) PROVE Younger
  <2>1. PICK k \in Job : InsertJob(k)
    BY <1>4, NextUnborn DEF BatchInsert
  <2> HIDE DEF Younger
  <2> QED BY <1>2, <2>1
<1>5. ASSUME NEW a \in Api, RequestReset(a) PROVE Younger
  <2>1. PICK k \in Job : k = pub[a].job
    BY <1>5, Shapes DEF RequestReset
  <2>2. /\ job'[k].startedAt \in {"null", job[k].startedAt} /\ ~job'[k].queuedOld
        /\ job'[k].status = "QUEUED"
        /\ \A i \in Job \ {k} : job'[i] = job[i]
    BY <1>0, <1>5, <2>1 DEF RequestReset
  <2> QED BY <2>2
<1>6. ASSUME NEW k \in Job, NEW s, job' = [job EXCEPT ![k].status = s] PROVE Younger
  BY <1>0, <1>6 DEF JobRow
<1>7. ASSUME NEW b \in Batch, BatchDelayFails(b) PROVE Younger
  <2>1. PICK k \in Job : job' = [job EXCEPT ![k].status = "FAILED"]
    BY <1>7, Shapes DEF BatchDelayFails
  <2> HIDE DEF Younger
  <2> QED BY <1>6, <2>1
<1>8. ASSUME NEW k \in Job, ReconcileFail(k) PROVE Younger
  <2> HIDE DEF Younger
  <2> QED BY <1>6, <1>8 DEF ReconcileFail
<1>9. ASSUME NEW k \in Job, LeaseExpires(k) PROVE Younger
  <2>1. CASE k = j
    BY <1>0, <1>9, <2>1 DEF LeaseExpires, JobRow
  <2>2. CASE k # j
    BY <1>0, <1>9, <2>2 DEF LeaseExpires
  <2> QED BY <2>1, <2>2
<1>10. ASSUME NEW w \in Worker, WorkerStep(w) \/ WorkerFault(w) \/ \E m \in Message : Deliver(w, m)
       PROVE  Younger
  <2>1. CASE Claim(w)
    BY <1>0, <2>1 DEF Claim, JobRow
  <2>2. CASE Recover(w) \/ Finish(w)
    BY <1>0, <2>2 DEF Recover, Finish, JobRow
  <2>3. CASE FailJob(w)
    BY <1>0, <2>3 DEF FailJob, JobRow
  <2>4. CASE GiveUp(w) \/ MarkRetrying(w)
    BY <1>0, <2>4 DEF GiveUp, MarkRetrying, SetStatus, JobRow
  <2>5. CASE \/ DropDuplicate(w) \/ NoResult(w) \/ EngineStart(w) \/ EngineEnd(w)
             \/ FinalAudit(w) \/ PublishRetry(w) \/ Acknowledge(w) \/ WorkerFault(w)
             \/ \E m \in Message : Deliver(w, m)
    <3>1. job' = job
      BY <2>5 DEF DropDuplicate, NoResult, EngineStart, EngineEnd, FinalAudit, PublishRetry,
                  Acknowledge, WorkerFault, DbError, HandlerDbError, SoftError, RefreshFails,
                  PublishRetryFails, HardKill, WorkerLost, Deliver
    <3> QED BY <3>1
  <2> QED BY <1>10, <2>1, <2>2, <2>3, <2>4, <2>5 DEF WorkerStep
<1>11. ASSUME \/ UNCHANGED vars
              \/ \E a \in Api : RequestRead(a) \/ SelectOwn(a)
              \/ \E b \in Batch : BatchCheck(b) \/ BatchDelay(b)
              \/ \E b \in Beat : SelectPending(b)
              \/ \E p \in Publisher : PublisherStep(p) \/ PublisherFault(p)
              \/ \E k \in Job : BackoffElapsed(k)
              \/ ReconcileRead \/ ReconcileAborts
       PROVE  job' = job
  BY <1>11 DEF vars, RequestRead, SelectOwn, BatchCheck, BatchDelay, SelectPending, BackoffElapsed,
               ReconcileRead, ReconcileAborts, jobDb, PublisherStep, PublisherFault, BumpNext,
               Send, Mark, SendFails, MarkFails, PublisherCrash
<1> HIDE DEF Younger
<1>12. Younger
  BY <1>1, <1>3, <1>4, <1>5, <1>7, <1>8, <1>9, <1>10, <1>11 DEF Next, ApiStep, BatchStep
<1> QED BY <1>12 DEF Younger

(* Only errors lead a worker to a handler.                                 *)
LEMMA NoHandlerNext ==
  ASSUME NoErrors, TypeOK, NoHandler, [Next]_vars PROVE NoHandler'
<1>1. NoRetries'
  BY NoRetriesNext DEF NoRetries, NoHandler, At
<1> SUFFICES ASSUME NEW w \in Worker, work'[w].pc = "outerFail" PROVE FALSE
  BY <1>1 DEF NoErrors, NoRetries, NoHandler, At
<1>2. work'[w] # work[w] /\ ~At(w, {"inner", "outer", "retryInner", "retryOuter"})
  BY DEF NoHandler, At
<1>3. ASSUME NEW v \in Worker, WorkerStep(v) \/ WorkerFault(v) PROVE FALSE
  <2>1. v = w
    BY <1>2, <1>3, OwnWorkSteps DEF OwnWork
  <2>2. /\ ~Return(w) /\ ~Ack(w)
        /\ \A pc : pc # "outerFail" => ~Goto(w, pc)
    BY Moves
  <2>3. ~(\/ DropDuplicate(w) \/ Claim(w) \/ Recover(w) \/ NoResult(w) \/ EngineEnd(w)
          \/ Finish(w) \/ FailJob(w) \/ FinalAudit(w) \/ GiveUp(w) \/ PublishRetry(w)
          \/ Acknowledge(w))
    BY <2>2 DEF DropDuplicate, Claim, Recover, NoResult, EngineEnd, Finish, FailJob, FinalAudit,
                GiveUp, PublishRetry, Acknowledge
  <2>4. ~EngineStart(w)
    BY <2>2, Shapes DEF EngineStart, WorkState
  <2>5. ~MarkRetrying(w) /\ ~PublishRetryFails(w)
    BY <1>2 DEF MarkRetrying, PublishRetryFails, At
  <2>6. ~(DbError(w) \/ HandlerDbError(w) \/ SoftError(w) \/ RefreshFails(w))
    BY DEF DbError, HandlerDbError, SoftError, RefreshFails, Fault, NoErrors
  <2>7. ~(HardKill(w) \/ WorkerLost(w))
    BY <2>2 DEF HardKill, WorkerLost
  <2> QED BY <1>3, <2>1, <2>3, <2>4, <2>5, <2>6, <2>7 DEF WorkerStep, WorkerFault
<1>4. ASSUME NEW v \in Worker, NEW m \in Message PROVE ~Deliver(v, m)
  BY <1>2, Shapes DEF Deliver
<1>5. ASSUME \/ UNCHANGED vars
             \/ \E a \in Api : (\E force \in BOOLEAN : QueueNew(a, force)) \/ RequestRead(a)
                               \/ ApiStep(a)
             \/ \E b \in Batch : BatchCheck(b) \/ BatchStep(b) \/ BatchDelayFails(b)
             \/ \E b \in Beat : SelectPending(b)
             \/ \E p \in Publisher : PublisherStep(p) \/ PublisherFault(p)
             \/ \E k \in Job : BackoffElapsed(k) \/ LeaseExpires(k) \/ ReconcileFail(k)
             \/ ReconcileRead \/ ReconcileAborts
      PROVE  work' = work
  BY <1>5, RequestSteps, PublisherSteps, TimeSteps DEF vars
<1> QED BY <1>2, <1>3, <1>4, <1>5 DEF Next

(* Nobody holds a job without having claimed it.                           *)
LEMMA HolderSource ==
  ASSUME NoErrors, TypeOK, [Next]_vars, NEW w \in Worker, NEW j \in Job, Holds(w, j)'
  PROVE  Holds(w, j) \/ (Claim(w) /\ work[w].msg.job = j)
<1> SUFFICES ASSUME ~Holds(w, j) PROVE Claim(w) /\ work[w].msg.job = j
  OBVIOUS
<1> DEFINE busy == {"prepare", "start", "engine", "finish", "fail"}
<1>1. work'[w].pc \in busy /\ work'[w].msg.job = j /\ work'[w] # work[w]
  BY DEF Holds, At
<1>2. ASSUME NEW v \in Worker, WorkerStep(v) \/ WorkerFault(v) PROVE v = w /\ work'[w].msg = work[w].msg
  BY <1>1, <1>2, OwnWorkSteps DEF OwnWork
<1>3. ASSUME WorkerStep(w) \/ WorkerFault(w) PROVE Claim(w)
  <2>1. work[w].msg = work'[w].msg /\ work[w].pc \notin busy
    BY <1>1, <1>2, <1>3 DEF Holds, At
  <2>2. ~Return(w) /\ ~Ack(w) /\ \A pc : pc \notin busy => ~Goto(w, pc)
    BY <1>1, Moves
  <2>3. ~(\/ DropDuplicate(w) \/ Recover(w) \/ NoResult(w) \/ EngineStart(w) \/ EngineEnd(w)
          \/ Finish(w) \/ FailJob(w) \/ FinalAudit(w) \/ GiveUp(w) \/ MarkRetrying(w)
          \/ PublishRetry(w) \/ Acknowledge(w))
    BY <2>1, <2>2 DEF DropDuplicate, Recover, NoResult, EngineStart, EngineEnd, Finish, FailJob,
                      FinalAudit, GiveUp, MarkRetrying, PublishRetry, Acknowledge, At
  <2>4. ~(DbError(w) \/ SoftError(w) \/ HandlerDbError(w) \/ RefreshFails(w))
    BY DEF DbError, SoftError, HandlerDbError, RefreshFails, Fault, NoErrors
  <2>5. ~(PublishRetryFails(w) \/ HardKill(w) \/ WorkerLost(w))
    BY <2>1, <2>2 DEF PublishRetryFails, HardKill, WorkerLost, At
  <2> QED BY <1>3, <2>3, <2>4, <2>5 DEF WorkerStep, WorkerFault
<1>4. ASSUME NEW v \in Worker, NEW m \in Message PROVE ~Deliver(v, m)
  BY <1>1, Shapes DEF Deliver
<1>5. ASSUME \/ UNCHANGED vars
             \/ \E a \in Api : (\E force \in BOOLEAN : QueueNew(a, force)) \/ RequestRead(a)
                               \/ ApiStep(a)
             \/ \E b \in Batch : BatchCheck(b) \/ BatchStep(b) \/ BatchDelayFails(b)
             \/ \E b \in Beat : SelectPending(b)
             \/ \E p \in Publisher : PublisherStep(p) \/ PublisherFault(p)
             \/ \E k \in Job : BackoffElapsed(k) \/ LeaseExpires(k) \/ ReconcileFail(k)
             \/ ReconcileRead \/ ReconcileAborts
      PROVE  work' = work
  BY <1>5, RequestSteps, PublisherSteps, TimeSteps DEF vars
<1> QED BY <1>1, <1>2, <1>3, <1>4, <1>5 DEF Next

(* What a held job is written is written by its holder, who lets it go.    *)
LEMMA HeldRunsNext ==
  ASSUME Batch = {}, NoErrors, TypeOK, BornInv, Orderly, [Next]_vars PROVE HeldRuns'
<1> SUFFICES ASSUME NEW w \in Worker, NEW j \in Job, Holds(w, j)'
             PROVE  job'[j].status = "RUNNING"
  BY DEF HeldRuns
<1>1. CASE Claim(w) /\ work[w].msg.job = j
  BY <1>1, Shapes DEF Claim, JobRow
<1>2. CASE Holds(w, j)
  <2>1. job[j].status = "RUNNING"
    BY <1>2 DEF Orderly, HeldRuns
  <2> SUFFICES ASSUME Writes(j) PROVE job'[j].status = "RUNNING"
    BY <2>1, StatusWrites
  <2>2. Born(j)
    BY <2>1 DEF Born
  <2>3. ASSUME NEW v \in Worker, work[v].msg.job = j, Recover(v) \/ Finish(v) \/ FailJob(v)
        PROVE  FALSE
    <3>1. Holds(v, j)
      BY <2>3 DEF Recover, Finish, FailJob, Holds, At
    <3>2. v = w
      BY <1>2, <3>1 DEF Orderly, OneHolder
    <3>3. work'[v].pc \in {"return", "audit", "failAudit"}
      BY <2>3, Moves DEF Recover, Finish, FailJob
    <3> QED BY <3>2, <3>3 DEF Holds, At
  <2>4. \A v \in Worker : ~GiveUp(v) /\ ~MarkRetrying(v)
    BY DEF GiveUp, MarkRetrying, Orderly, NoHandler, At
  <2>5. ~ReconcileFail(j) /\ \A a \in Api : ~RequestReset(a)
    BY DEF ReconcileFail, RequestReset, Orderly, NoReset
  <2> QED BY <2>2, <2>3, <2>4, <2>5 DEF Writes
<1> QED BY <1>1, <1>2, HolderSource

(* With one carrier for each job, no errors and no leases that expire, the *)
(* pipeline is orderly.                                                    *)
OrderlyInv == SingleInv /\ NothingOld /\ NoHandler /\ HeldRuns

(* It is.                                                                  *)
LEMMA OrderlyFollows == ASSUME TypeOK, OrderlyInv PROVE Orderly
<1>1. OneHolder
  <2> SUFFICES ASSUME NEW j \in Job, NEW v \in Worker, NEW w \in Worker,
                      Holds(v, j), Holds(w, j)
               PROVE  v = w
    BY DEF OneHolder
  <2>1. v \in Attempts(j) /\ w \in Attempts(j)
    BY DEF Holds, Attempts, Live, At
  <2> QED BY <2>1 DEF OrderlyInv, SingleInv, OneCarrier, Lone
<1> QED BY <1>1 DEF OrderlyInv, SingleInv, NothingOld, Orderly

(* Every step keeps OrderlyInv.                                            *)
LEMMA OrderlyNext ==
  ASSUME OnlyRedelivered, TypeOK, BornInv, OrderlyInv, [Next]_vars PROVE OrderlyInv'
<1>0. NoErrors /\ SentOnce /\ Batch = {} /\ Orderly
  BY OrderlyFollows DEF OnlyRedelivered, NoErrors
<1>1. SingleInv' /\ NoHandler' /\ HeldRuns'
  BY <1>0, SingleNext, NoHandlerNext, HeldRunsNext DEF OrderlyInv
<1>2. \A j \in Job : ~LeaseExpires(j)
  BY DEF LeaseExpires, OnlyRedelivered
<1>3. \A j \in Job : job'[j].startedAt # "old" /\ ~job'[j].queuedOld
  BY <1>2, Ageing DEF OrderlyInv, NothingOld
<1>4. stale' = {}
  <2>1. ~ReconcileRead
    BY DEF ReconcileRead, IsStale, OrderlyInv, NothingOld
  <2>2. \/ UNCHANGED vars
        \/ \E a \in Api : (\E force \in BOOLEAN : QueueNew(a, force)) \/ RequestRead(a) \/ ApiStep(a)
        \/ \E b \in Beat : SelectPending(b)
        \/ \E p \in Publisher : PublisherStep(p) \/ PublisherFault(p)
        \/ \E w \in Worker : WorkerStep(w) \/ WorkerFault(w) \/ \E m \in Message : Deliver(w, m)
        \/ \E j \in Job : BackoffElapsed(j) \/ LeaseExpires(j) \/ ReconcileFail(j)
        \/ ReconcileAborts
    BY <1>0, <2>1 DEF Next
  <2>3. \A j \in Job : ~ReconcileFail(j)
    BY DEF ReconcileFail, OrderlyInv, NothingOld
  <2>4. ASSUME NEW w \in Worker, WorkerStep(w) \/ WorkerFault(w) \/ \E m \in Message : Deliver(w, m)
        PROVE  stale' = stale
    BY <2>4 DEF WorkerStep, WorkerFault, DropDuplicate, Claim, Recover, NoResult, EngineStart,
       EngineEnd, Finish, FailJob, FinalAudit, GiveUp, MarkRetrying, PublishRetry, Acknowledge,
       DbError, HandlerDbError, SoftError, RefreshFails, PublishRetryFails, HardKill, WorkerLost,
       Deliver, outside
  <2>5. ASSUME \E p \in Publisher : PublisherStep(p) \/ PublisherFault(p) PROVE stale' = stale
    BY <2>5 DEF PublisherStep, PublisherFault, BumpNext, Send, Mark, SendFails, MarkFails,
                PublisherCrash
  <2>6. ASSUME \/ \E a \in Api : (\E force \in BOOLEAN : QueueNew(a, force)) \/ RequestRead(a)
                                 \/ ApiStep(a)
               \/ \E b \in Beat : SelectPending(b)
               \/ \E j \in Job : BackoffElapsed(j) \/ LeaseExpires(j)
        PROVE  stale' = stale
    BY <2>6 DEF QueueNew, RequestRead, ApiStep, RequestReset, SelectOwn, SelectPending,
                BackoffElapsed, LeaseExpires
  <2> QED BY <2>2, <2>3, <2>4, <2>5, <2>6 DEF vars, ReconcileAborts, OrderlyInv, NothingOld
<1> QED BY <1>1, <1>3, <1>4 DEF OrderlyInv, NothingOld

(* OrderlyInv holds throughout.                                            *)
LEMMA OrderlyAlways == ASSUME OnlyRedelivered PROVE Spec => []OrderlyInv
<1>1. Init => SingleInv
  BY DEF Init, SingleInv, OneCarrier, OneCopy, OwnRowOnly, NoReset, NoRetries, Senders, InHand,
         Messages, Attempts, Live, At, Lone, IdlePub, IdleWork, Publisher
<1>2. Init => NothingOld /\ NoHandler /\ HeldRuns
  BY DEF Init, NothingOld, NoHandler, HeldRuns, Holds, At, NoJob, IdleWork
<1>3. TypeOK /\ BornInv /\ OrderlyInv /\ [Next]_vars => OrderlyInv'
  BY OrderlyNext
<1> QED BY <1>1, <1>2, <1>3, NoOrphans, TypeCorrect, PTL DEF Spec, OrderlyInv

(* A COMPLETED job stays COMPLETED when its deliveries are put back any    *)
(* number of times, wherever its workers are lost or killed.               *)
THEOREM CompletedFinalWhenRedelivered ==
  ASSUME OnlyRedelivered
  PROVE  Spec => CompletedFinal
<1>1. TypeOK /\ BornInv /\ OrderlyInv /\ [Next]_vars =>
        [\A j \in Job : job[j].status = "COMPLETED" => job'[j].status = "COMPLETED"]_vars
  <2> SUFFICES ASSUME TypeOK, BornInv, OrderlyInv, [Next]_vars,
                      NEW j \in Job, job[j].status = "COMPLETED"
               PROVE  job'[j].status = "COMPLETED"
    OBVIOUS
  <2>1. PhaseMoves(j)
    BY OrderlyPhases, OrderlyFollows DEF OnlyRedelivered
  <2> QED BY <2>1 DEF PhaseMoves
<1> QED BY <1>1, OrderlyAlways, NoOrphans, TypeCorrect, PTL DEF Spec, CompletedFinal

(* A pipeline whose deliveries are put back implements the service: a lost *)
(* worker's job is taken up again, by another worker or the same one, and  *)
(* settled once, with one completed result at most, at whatever step of    *)
(* whichever attempt the worker was lost.                                  *)
THEOREM ServiceWhenRedelivered ==
  ASSUME OnlyRedelivered, MaxJobs = 1
  PROVE  Spec => ImplementsService
<1>1. Init => ResultInv /\ OnceInv /\ Service!Init
  <2>1. Init => ResultInv
    BY DEF Init, ResultInv, EngineRows, FinishRows, CompletedHasResult, NoJob, IdleWork, At
  <2> QED BY <2>1, ServiceInit
<1>2. TypeOK /\ ResultInv /\ [Next]_vars => ResultInv'
  BY ResultNext
<1>3. /\ TypeOK /\ BornInv /\ ResultInv /\ OrderlyInv /\ OnceInv /\ [Next]_vars
      => OnceInv' /\ [Service!Next]_(Service!vars)
  <2> SUFFICES ASSUME TypeOK, BornInv, ResultInv, OrderlyInv, OnceInv, [Next]_vars
               PROVE  OnceInv' /\ [Service!Next]_(Service!vars)
    OBVIOUS
  <2>1. Orderly /\ Batch = {} /\ NoErrors
    BY OrderlyFollows DEF OnlyRedelivered, NoErrors
  <2>2. OnceInv'
    BY <2>1, OnceNext
  <2>3. [Service!Next]_(Service!vars)
    BY <2>1, ServiceStep
  <2> QED BY <2>2, <2>3
<1> QED BY <1>1, <1>2, <1>3, OrderlyAlways, NoOrphans, TypeCorrect, PTL
        DEF Spec, ImplementsService, Service!Spec

-----------------------------------------------------------------------------
(* ResultStands *)

(* Nobody executes a job without having claimed it, whatever fails.        *)
LEMMA ExecutorSource ==
  ASSUME TypeOK, [Next]_vars, NEW w \in Worker, NEW j \in Job, Executing(w, j)'
  PROVE  Executing(w, j) \/ (Claim(w) /\ work[w].msg.job = j)
<1> SUFFICES ASSUME ~Executing(w, j) PROVE Claim(w) /\ work[w].msg.job = j
  OBVIOUS
<1> DEFINE busy == {"prepare", "start", "engine", "finish"}
<1>1. work'[w].pc \in busy /\ work'[w].msg.job = j /\ work'[w] # work[w]
  BY DEF Executing, At
<1>2. ASSUME NEW v \in Worker, WorkerStep(v) \/ WorkerFault(v) PROVE v = w /\ work'[w].msg = work[w].msg
  BY <1>1, <1>2, OwnWorkSteps DEF OwnWork
<1>3. ASSUME WorkerStep(w) \/ WorkerFault(w) PROVE Claim(w)
  <2>1. work[w].msg = work'[w].msg /\ work[w].pc \notin busy
    BY <1>1, <1>2, <1>3 DEF Executing, At
  <2>2. ~Return(w) /\ ~Ack(w) /\ \A pc : pc \notin busy => ~Goto(w, pc)
    BY <1>1, Moves
  <2>3. ~(\/ DropDuplicate(w) \/ Recover(w) \/ NoResult(w) \/ EngineStart(w) \/ EngineEnd(w)
          \/ Finish(w) \/ FailJob(w) \/ FinalAudit(w) \/ GiveUp(w) \/ MarkRetrying(w)
          \/ PublishRetry(w) \/ Acknowledge(w))
    BY <2>1, <2>2 DEF DropDuplicate, Recover, NoResult, EngineStart, EngineEnd, Finish, FailJob,
                      FinalAudit, GiveUp, MarkRetrying, PublishRetry, Acknowledge, At
  <2>4. ~(DbError(w) \/ SoftError(w) \/ HandlerDbError(w) \/ RefreshFails(w))
    <3>1. ASSUME DbError(w) PROVE FALSE
      <4>1. \A pc \in DbHandlers(work[w].pc) : pc \notin busy
        BY <3>1 DEF DbError, DbHandlers, At
      <4> QED BY <2>2, <3>1, <4>1 DEF DbError
    <3>2. ~SoftError(w) /\ ~HandlerDbError(w) /\ ~RefreshFails(w)
      BY <2>2 DEF SoftError, HandlerDbError, RefreshFails
    <3> QED BY <3>1, <3>2
  <2>5. ~(PublishRetryFails(w) \/ HardKill(w) \/ WorkerLost(w))
    BY <2>1, <2>2 DEF PublishRetryFails, HardKill, WorkerLost, At
  <2> QED BY <1>3, <2>3, <2>4, <2>5 DEF WorkerStep, WorkerFault
<1>4. ASSUME NEW v \in Worker, NEW m \in Message PROVE ~Deliver(v, m)
  BY <1>1, Shapes DEF Deliver
<1>5. ASSUME \/ UNCHANGED vars
             \/ \E a \in Api : (\E force \in BOOLEAN : QueueNew(a, force)) \/ RequestRead(a)
                               \/ ApiStep(a)
             \/ \E b \in Batch : BatchCheck(b) \/ BatchStep(b) \/ BatchDelayFails(b)
             \/ \E b \in Beat : SelectPending(b)
             \/ \E p \in Publisher : PublisherStep(p) \/ PublisherFault(p)
             \/ \E k \in Job : BackoffElapsed(k) \/ LeaseExpires(k) \/ ReconcileFail(k)
             \/ ReconcileRead \/ ReconcileAborts
      PROVE  work' = work
  BY <1>5, RequestSteps, PublisherSteps, TimeSteps DEF vars
<1> QED BY <1>1, <1>2, <1>3, <1>4, <1>5 DEF Next

(* A job that is executed is not COMPLETED: its one attempt completes it   *)
(* when it has done with it.                                               *)
ExecutedOpen == \A w \in Worker, j \in Job : Executing(w, j) => job[j].status # "COMPLETED"

(* Every step keeps it so.                                                 *)
LEMMA ExecutedOpenNext ==
  ASSUME TypeOK, SingleInv, ExecutedOpen, [Next]_vars PROVE ExecutedOpen'
<1> SUFFICES ASSUME NEW w \in Worker, NEW j \in Job, Executing(w, j)'
             PROVE  job'[j].status # "COMPLETED"
  BY DEF ExecutedOpen
<1>1. CASE Claim(w) /\ work[w].msg.job = j
  BY <1>1, Shapes DEF Claim, JobRow
<1>2. CASE Executing(w, j)
  <2>1. job[j].status # "COMPLETED"
    BY <1>2 DEF ExecutedOpen
  <2>2. ASSUME NEW v \in Worker, work[v].msg.job = j, Recover(v) \/ Finish(v)
        PROVE  FALSE
    <3>1. Executing(v, j)
      BY <2>2 DEF Recover, Finish, Executing, At
    <3>2. v \in Attempts(j) /\ w \in Attempts(j)
      BY <1>2, <3>1 DEF Executing, Attempts, Live, At
    <3>3. v = w
      BY <3>2 DEF SingleInv, OneCarrier, Lone
    <3>4. work'[v].pc \in {"return", "audit"}
      BY <2>2, Moves DEF Recover, Finish
    <3> QED BY <3>3, <3>4 DEF Executing, At
  <2> QED BY <2>1, <2>2, StatusWrites DEF Writes
<1> QED BY <1>1, <1>2, ExecutorSource

(* Every step leaves the results of COMPLETED jobs standing.               *)
LEMMA StandsNext ==
  ASSUME MaxJobs = 1, TypeOK, BornInv, ResultInv, ExecutedOpen, ResultStands, [Next]_vars
  PROVE  ResultStands'
<1>0. /\ rows \in Seq(RowStatus) /\ rows \in [1..Len(rows) -> RowStatus] /\ Len(rows) \in Nat
      /\ job \in [Job -> JobRow]
      /\ \A j \in Job : job[j].status = "COMPLETED" => job[j].analysisId \in 1..Len(rows)
  BY Shapes, LenProperties DEF ResultInv, CompletedHasResult
<1>1. CASE rows' = rows /\ \A j \in Job : ResultKept(j)
  BY <1>1 DEF ResultKept, ResultStands
<1>2. ASSUME NEW w \in Worker, NEW i \in 1..Len(rows), rows[i] \in Results, rows' = rows,
             job' = [job EXCEPT ![work[w].msg.job].status = "COMPLETED",
                                ![work[w].msg.job].analysisId = i]
      PROVE  ResultStands'
  <2>1. \A j \in Job : job'[j] = job[j] \/ job'[j].analysisId = i
    BY <1>0, <1>2 DEF JobRow
  <2> QED BY <1>2, <2>1 DEF ResultStands, Results
<1>3. ASSUME NEW w \in Worker, Finish(w) PROVE ResultStands'
  <2>1. work[w].row \in 1..Len(rows) /\ rows[work[w].row] \in Results
    BY <1>3 DEF Finish, ResultInv, FinishRows
  <2> QED BY <1>2, <1>3, <2>1 DEF Finish
<1>4. ASSUME NEW w \in Worker, Recover(w) PROVE ResultStands'
  <2> DEFINE i == Greatest(ResultsSince(work[w].msg.job))
  <2>1. i \in 1..Len(rows) /\ rows[i] \in Results
    BY <1>4, GreatestRow DEF Recover, ResultsSince, Results
  <2>2. job' = [job EXCEPT ![work[w].msg.job].status = "COMPLETED",
                           ![work[w].msg.job].analysisId = i] /\ rows' = rows
    BY <1>4 DEF Recover
  <2> HIDE DEF i
  <2> QED BY <1>2, <2>1, <2>2
<1>5. ASSUME NEW w \in Worker, EngineStart(w) PROVE ResultStands'
  <2>1. job' = job /\ (rows' = rows \/ rows' = Append(rows, "running"))
    BY <1>5 DEF EngineStart
  <2>2. \A i \in 1..Len(rows) : rows'[i] = rows[i]
    BY <1>0, <2>1, AppendProperties DEF RowStatus
  <2> QED BY <1>0, <2>1, <2>2 DEF ResultStands
<1>6. ASSUME NEW w \in Worker, EngineEnd(w) PROVE ResultStands'
  <2>1. PICK r \in EngineOutcome : job' = job /\ rows' = [rows EXCEPT ![work[w].row] = r]
    BY <1>6 DEF EngineEnd
  <2>2. r # "withdrawn"
    BY DEF EngineOutcome
  <2>3. \A i \in 1..Len(rows) : rows'[i] = rows[i] \/ rows'[i] = r
    BY <1>0, <2>1
  <2> QED BY <1>0, <2>1, <2>2, <2>3 DEF ResultStands
<1>7. ASSUME NEW w \in Worker, RefreshFails(w) PROVE ResultStands'
  <2>1. work[w].msg.job \in Job /\ Executing(w, work[w].msg.job)
    BY <1>7, Shapes DEF RefreshFails, At, Executing
  <2>2. job[work[w].msg.job].status # "COMPLETED" /\ job' = job
    BY <1>7, <2>1 DEF ExecutedOpen, RefreshFails
  <2>3. \A j \in Job : j = work[w].msg.job
    BY <2>1 DEF Job
  <2> QED BY <2>2, <2>3 DEF ResultStands
<1> QED BY <1>1, <1>3, <1>4, <1>5, <1>6, <1>7, StepCases DEF ResultStep

(* A completed result is never taken back when nobody but its own request  *)
(* sends a job's message, and no other job shares its results: who fails a *)
(* row after committing it is the one attempt, which then has not          *)
(* completed the job with it.                                              *)
THEOREM ResultStandsWhenSentOnce ==
  ASSUME SentOnce, MaxJobs = 1
  PROVE  Spec => []ResultStands
<1>1. Init => ResultInv
  BY DEF Init, ResultInv, EngineRows, FinishRows, CompletedHasResult, NoJob, IdleWork, At
<1>2. Init => ExecutedOpen /\ ResultStands
  BY DEF Init, ExecutedOpen, ResultStands, Executing, At, NoJob, IdleWork
<1>3. TypeOK /\ BornInv /\ SingleInv /\ ResultInv /\ ExecutedOpen /\ ResultStands /\ [Next]_vars
      => ResultInv' /\ ExecutedOpen' /\ ResultStands'
  BY ResultNext, ExecutedOpenNext, StandsNext
<1> QED BY <1>1, <1>2, <1>3, SingleAlways, NoOrphans, TypeCorrect, PTL DEF Spec


-----------------------------------------------------------------------------
(* Findable *)

(* A retry is the fault's doing: while a handler is busy with one, or a    *)
(* job waits for one, there are no more faults to come.                    *)
Retrying == {"inner", "outer", "retryInner", "retryOuter"}
FaultSpent ==
  /\ \A w \in Worker : At(w, Retrying) => faults >= MaxFaults
  /\ \A j \in Job : job[j].status = "RETRYING" => faults >= MaxFaults

(* Faults are only ever added.                                             *)
LEMMA FaultsGrow ==
  ASSUME TypeOK, [Next]_vars PROVE faults' = faults \/ (faults < MaxFaults /\ faults' = faults + 1)
<1>1. ASSUME NEW k, Fault(k) PROVE faults < MaxFaults /\ faults' = faults + 1
  BY <1>1 DEF Fault
<1>2. ASSUME NEW w \in Worker, WorkerStep(w) \/ \E m \in Message : Deliver(w, m)
      PROVE  faults' = faults
  BY <1>2 DEF WorkerStep, DropDuplicate, Claim, Recover, NoResult, EngineStart, EngineEnd, Finish,
              FailJob, FinalAudit, GiveUp, MarkRetrying, PublishRetry, Acknowledge, Deliver
<1>3. ASSUME NEW w \in Worker, WorkerFault(w) PROVE \E k : Fault(k)
  BY <1>3 DEF WorkerFault, DbError, HandlerDbError, SoftError, RefreshFails, PublishRetryFails,
              HardKill, WorkerLost
<1>4. ASSUME NEW p \in Publisher, PublisherFault(p) PROVE \E k : Fault(k)
  BY <1>4 DEF PublisherFault, SendFails, MarkFails, PublisherCrash
<1>5. ASSUME \/ ReconcileAborts
             \/ \E b \in Batch : BatchDelayFails(b)
      PROVE  \E k : Fault(k)
  BY <1>5 DEF ReconcileAborts, BatchDelayFails
<1>6. ASSUME \/ UNCHANGED vars
             \/ \E a \in Api : (\E force \in BOOLEAN : QueueNew(a, force)) \/ RequestRead(a)
                               \/ ApiStep(a)
             \/ \E b \in Batch : BatchCheck(b) \/ BatchStep(b)
             \/ \E b \in Beat : SelectPending(b)
             \/ \E p \in Publisher : PublisherStep(p)
             \/ \E k \in Job : BackoffElapsed(k) \/ LeaseExpires(k) \/ ReconcileFail(k)
             \/ ReconcileRead
      PROVE  faults' = faults
  BY <1>6 DEF vars, QueueNew, RequestRead, ApiStep, RequestReset, SelectOwn, BatchCheck, BatchStep,
              BatchInsert, BatchDelay, SelectPending, PublisherStep, BumpNext, Send, Mark,
              BackoffElapsed, LeaseExpires, ReconcileFail, ReconcileRead
<1> QED BY <1>1, <1>2, <1>3, <1>4, <1>5, <1>6 DEF Next

(* A worker comes to a handler of database errors by one, and to the       *)
(* publication of a retry from there.                                      *)
LEMMA RetrySource ==
  ASSUME TypeOK, [Next]_vars, NEW w \in Worker, At(w, Retrying)'
  PROVE  /\ At(w, Retrying) \/ DbError(w)
         /\ At(w, {"retryInner", "retryOuter"})' =>
              MarkRetrying(w) \/ (At(w, {"retryInner", "retryOuter"}) /\ work'[w] = work[w])
<1> USE DEF Retrying
<1>1. ASSUME work'[w] # work[w] PROVE DbError(w) \/ MarkRetrying(w)
  <2>1. ASSUME NEW v \in Worker, WorkerStep(v) \/ WorkerFault(v)
        PROVE  DbError(w) \/ MarkRetrying(w)
    <3>1. v = w
      BY <1>1, <2>1, OwnWorkSteps DEF OwnWork
    <3>2. /\ ~Return(w) /\ ~Ack(w)
          /\ \A pc : pc \notin Retrying => ~Goto(w, pc)
      BY Moves DEF At
    <3>3. ~(\/ DropDuplicate(w) \/ Claim(w) \/ Recover(w) \/ NoResult(w) \/ EngineEnd(w)
            \/ Finish(w) \/ FailJob(w) \/ FinalAudit(w) \/ GiveUp(w) \/ PublishRetry(w)
            \/ Acknowledge(w))
      BY <3>2 DEF DropDuplicate, Claim, Recover, NoResult, EngineEnd, Finish, FailJob, FinalAudit,
                  GiveUp, PublishRetry, Acknowledge
    <3>4. ~EngineStart(w)
      BY <3>2, Shapes DEF EngineStart, WorkState, At
    <3>5. ~(\/ HandlerDbError(w) \/ SoftError(w) \/ RefreshFails(w) \/ PublishRetryFails(w)
            \/ HardKill(w) \/ WorkerLost(w))
      BY <3>2 DEF HandlerDbError, SoftError, RefreshFails, PublishRetryFails, HardKill, WorkerLost
    <3> QED BY <2>1, <3>1, <3>3, <3>4, <3>5 DEF WorkerStep, WorkerFault
  <2>2. ASSUME NEW v \in Worker, NEW m \in Message PROVE ~Deliver(v, m)
    BY <1>1, Shapes DEF Deliver, At
  <2>3. ASSUME \/ UNCHANGED vars
               \/ \E a \in Api : (\E force \in BOOLEAN : QueueNew(a, force)) \/ RequestRead(a)
                                 \/ ApiStep(a)
               \/ \E b \in Batch : BatchCheck(b) \/ BatchStep(b) \/ BatchDelayFails(b)
               \/ \E b \in Beat : SelectPending(b)
               \/ \E p \in Publisher : PublisherStep(p) \/ PublisherFault(p)
               \/ \E k \in Job : BackoffElapsed(k) \/ LeaseExpires(k) \/ ReconcileFail(k)
               \/ ReconcileRead \/ ReconcileAborts
        PROVE  work' = work
    BY <2>3, RequestSteps, PublisherSteps, TimeSteps DEF vars
  <2> QED BY <1>1, <2>1, <2>2, <2>3 DEF Next
<1>2. DbError(w) => work'[w].pc \in {"inner", "outer", "outerFail"}
  <2>1. ASSUME DbError(w) PROVE work'[w].pc \in DbHandlers(work[w].pc)
    BY <2>1, Moves DEF DbError
  <2>2. ASSUME DbError(w) PROVE DbHandlers(work[w].pc) \subseteq {"inner", "outer", "outerFail"}
    BY <2>2 DEF DbError, At, DbHandlers
  <2> QED BY <2>1, <2>2
<1> QED BY <1>1, <1>2 DEF At, MarkRetrying

(* FaultSpent is inductive when there is at most one fault.                *)
LEMMA FaultSpentNext ==
  ASSUME MaxFaults <= 1, TypeOK, FaultSpent, [Next]_vars PROVE FaultSpent'
<1>0. faults \in Nat /\ MaxFaults \in Nat
  BY BoundsAssumption DEF TypeOK
<1>1. faults >= MaxFaults => faults' >= MaxFaults
  BY <1>0, FaultsGrow
<1>2. ASSUME NEW w \in Worker, At(w, Retrying)' PROVE faults' >= MaxFaults
  <2>1. CASE At(w, Retrying)
    BY <1>1, <2>1 DEF FaultSpent
  <2>2. CASE DbError(w)
    BY <1>0, <2>2 DEF DbError, Fault
  <2> QED BY <1>2, <2>1, <2>2, RetrySource
<1>3. ASSUME NEW j \in Job, job'[j].status = "RETRYING" PROVE faults' >= MaxFaults
  <2>1. CASE job[j].status = "RETRYING"
    BY <1>1, <2>1 DEF FaultSpent
  <2>2. CASE job[j].status # "RETRYING"
    <3>1. PICK w \in Worker : MarkRetrying(w)
      BY <1>3, <2>2, StatusWrites DEF Writes
    <3> QED BY <1>1, <3>1 DEF FaultSpent, MarkRetrying, At, Retrying
  <2> QED BY <2>1, <2>2
<1> QED BY <1>2, <1>3 DEF FaultSpent

(* Who publishes a retry has one left.                                     *)
RetriesLeft == \A w \in Worker :
  At(w, {"retryInner", "retryOuter"}) => work[w].msg.retries < MaxRetries

(* What is published is then a message.                                    *)
LEMMA PublishedRetry ==
  ASSUME TypeOK, RetriesLeft, NEW w \in Worker, At(w, {"retryInner", "retryOuter"})
  PROVE  /\ [FreshMessage(work[w].msg.job) EXCEPT !.retries = work[w].msg.retries + 1] \in Message
         /\ [FreshMessage(work[w].msg.job) EXCEPT !.retries = work[w].msg.retries + 1].job
              = work[w].msg.job
<1>1. work[w].msg \in Message /\ work[w].msg.retries < MaxRetries
  BY Shapes DEF At, RetriesLeft
<1>2. work[w].msg.job \in Job /\ work[w].msg.retries + 1 \in 0..MaxRetries
  BY <1>1, BoundsAssumption DEF Message
<1> QED BY <1>2 DEF FreshMessage, Message

(* RetriesLeft is inductive.                                               *)
LEMMA RetriesLeftNext == TypeOK /\ RetriesLeft /\ [Next]_vars => RetriesLeft'
<1> SUFFICES ASSUME TypeOK, RetriesLeft, [Next]_vars, NEW w \in Worker,
                    At(w, {"retryInner", "retryOuter"})'
             PROVE  work'[w].msg.retries < MaxRetries
  BY DEF RetriesLeft
<1>1. CASE At(w, {"retryInner", "retryOuter"}) /\ work'[w] = work[w]
  BY <1>1 DEF RetriesLeft
<1>2. CASE MarkRetrying(w)
  <2>1. work'[w].msg = work[w].msg
    BY <1>2, Moves DEF MarkRetrying
  <2> QED BY <1>2, <2>1 DEF MarkRetrying
<1> QED BY <1>1, <1>2, RetrySource DEF At, Retrying

(* Nothing but a claim takes a waiting job its message, when no fault is   *)
(* left: a duplicate is not dropped, and the retry is published.           *)
LEMMA RetryKept ==
  ASSUME TypeOK, RetriesLeft, [Next]_vars, faults >= MaxFaults, NEW j \in Job, RetryComes(j),
         job[j].status = "RETRYING", job'[j].status = "RETRYING"
  PROVE  RetryComes(j)'
<1>0. /\ \A m \in Message : m.job \in Job
      /\ queue \in [Message -> Nat] /\ work \in [Worker -> WorkState] /\ job \in [Job -> JobRow]
      /\ \A kind : ~Fault(kind)
  <2>1. \A m \in Message : m.job \in Job
    BY DEF Message
  <2>2. \A kind : ~Fault(kind)
    BY BoundsAssumption DEF Fault, TypeOK
  <2> QED BY <2>1, <2>2, Shapes
<1>1. ASSUME \A m \in Message : queue[m] > 0 => queue'[m] > 0,
             \A w \in Worker : At(w, {"claim", "retryInner", "retryOuter"}) /\ work[w].msg.job = j
                               => work'[w] = work[w]
      PROVE  RetryComes(j)'
  BY <1>1 DEF RetryComes, At
<1>2. ASSUME NEW w \in Worker, NEW m \in Message, Deliver(w, m) PROVE RetryComes(j)'
  <2>1. /\ work'[w].pc = "claim" /\ work'[w].msg = m
        /\ \A v \in Worker \ {w} : work'[v] = work[v]
        /\ \A n \in Message : n # m => queue'[n] = queue[n]
        /\ ~At(w, {"claim", "retryInner", "retryOuter"})
    BY <1>2, Shapes DEF Deliver, At
  <2>2. CASE m.job = j
    BY <2>1, <2>2 DEF RetryComes, At
  <2>3. CASE m.job # j
    BY <2>1, <2>3 DEF RetryComes, At
  <2> QED BY <2>2, <2>3
<1>3. ASSUME NEW w \in Worker, WorkerStep(w) PROVE RetryComes(j)'
  <2>0. OwnWork(w) /\ ~At(w, {"idle"})
    BY <1>3, OwnWorkSteps
  <2>1. \A m \in Message : queue[m] > 0 => queue'[m] > 0
    BY <1>3, PutEffect DEF WorkerStep, DropDuplicate, Claim, Recover, NoResult,
       EngineStart, EngineEnd, Finish, FailJob, FinalAudit, GiveUp, MarkRetrying, PublishRetry,
       Acknowledge
  <2>2. CASE ~(At(w, {"claim", "retryInner", "retryOuter"}) /\ work[w].msg.job = j)
    BY <1>1, <2>0, <2>1, <2>2 DEF OwnWork
  <2>3. CASE At(w, {"claim"}) /\ work[w].msg.job = j
    <3>1. ~DropDuplicate(w)
      BY <2>3 DEF DropDuplicate, IsDuplicate
    <3>2. ~Claim(w)
      BY <1>0, <2>3 DEF Claim, JobRow
    <3> QED BY <1>3, <2>3, <3>1, <3>2
            DEF WorkerStep, Recover, NoResult, EngineStart, EngineEnd, Finish,
                FailJob, FinalAudit, GiveUp, MarkRetrying, PublishRetry, Acknowledge, At
  <2>4. CASE At(w, {"retryInner", "retryOuter"}) /\ work[w].msg.job = j
    <3> DEFINE n == [FreshMessage(work[w].msg.job) EXCEPT !.retries = work[w].msg.retries + 1]
    <3>1. PublishRetry(w)
      BY <1>3, <2>4
         DEF WorkerStep, DropDuplicate, Claim, Recover, NoResult, EngineStart, EngineEnd, Finish,
             FailJob, FinalAudit, GiveUp, MarkRetrying, Acknowledge, At
    <3>2. n \in Message /\ n.job = j
      BY <2>4, <3>1, PublishedRetry
    <3>3. Put(n)
      BY <3>1 DEF PublishRetry
    <3> HIDE DEF n
    <3> QED BY <3>2, <3>3, PutEffect DEF RetryComes
  <2> QED BY <2>2, <2>3, <2>4 DEF At
<1>4. ASSUME NEW w \in Worker PROVE ~WorkerFault(w)
  BY <1>0 DEF WorkerFault, DbError, HandlerDbError, SoftError, RefreshFails, PublishRetryFails,
              HardKill, WorkerLost
<1>5. ASSUME NEW p \in Publisher,
             \/ p \in Api /\ SelectOwn(p)
             \/ PublisherStep(p) \/ PublisherFault(p)
      PROVE  RetryComes(j)'
  BY <1>1, <1>5, OwnRowSteps DEF OwnRow
<1>6. ASSUME NEW b \in Batch, BatchCheck(b) \/ BatchStep(b) \/ BatchDelayFails(b)
      PROVE  RetryComes(j)'
  <2>1. work' = work
    BY <1>6 DEF BatchCheck, BatchStep, BatchInsert, BatchDelay, BatchDelayFails
  <2>2. \A m \in Message : queue[m] > 0 => queue'[m] > 0
    BY <1>6, PutEffect DEF BatchCheck, BatchStep, BatchInsert, BatchDelay, BatchDelayFails
  <2> QED BY <1>1, <2>1, <2>2
<1>7. ASSUME \/ UNCHANGED vars
             \/ \E a \in Api : (\E force \in BOOLEAN : QueueNew(a, force)) \/ RequestRead(a)
                               \/ RequestReset(a)
             \/ \E b \in Beat : SelectPending(b)
             \/ \E k \in Job : BackoffElapsed(k) \/ LeaseExpires(k) \/ ReconcileFail(k)
             \/ ReconcileRead \/ ReconcileAborts
      PROVE  UNCHANGED <<queue, work>>
  BY <1>7 DEF vars, QueueNew, RequestRead, RequestReset, SelectPending, BackoffElapsed,
              LeaseExpires, ReconcileFail, ReconcileRead, ReconcileAborts
<1>8. ASSUME UNCHANGED <<queue, work>> PROVE RetryComes(j)'
  BY <1>1, <1>8
<1>9. ASSUME NEW a \in Api, SelectOwn(a) PROVE RetryComes(j)'
  <2>1. a \in Publisher
    BY DEF Publisher
  <2> QED BY <1>5, <1>9, <2>1
<1> QED BY <1>2, <1>3, <1>4, <1>5, <1>6, <1>7, <1>8, <1>9 DEF Next, ApiStep

(* Findable is inductive when there is at most one fault.                  *)
LEMMA FindableNext ==
  ASSUME MaxFaults <= 1, TypeOK, RunningHasLease, FaultSpent, RetriesLeft, Findable, [Next]_vars
  PROVE  Findable'
<1> SUFFICES ASSUME NEW j \in Job, job'[j].status \in {"RUNNING", "RETRYING"},
                    job'[j].startedAt = "null"
             PROVE  RetryComes(j)'
  BY DEF Findable
<1>1. job'[j].status = "RETRYING"
  BY LeaseNext DEF RunningHasLease
<1>2. job[j].startedAt = "null"
  BY <1>1, Ageing
<1>3. CASE job[j].status = "RETRYING"
  BY <1>1, <1>2, <1>3, RetryKept DEF Findable, FaultSpent
<1>4. CASE job[j].status # "RETRYING"
  <2>1. PICK w \in Worker : MarkRetrying(w) /\ work[w].msg.job = j
    BY <1>1, <1>4, StatusWrites DEF Writes
  <2>2. work'[w].pc \in {"retryInner", "retryOuter"} /\ work'[w].msg = work[w].msg
    BY <2>1, Moves DEF MarkRetrying
  <2> QED BY <2>1, <2>2 DEF RetryComes, At
<1> QED BY <1>3, <1>4

(* One fault, of whatever kind, strands no job: an open one has a lease    *)
(* that will run out, or the message of its retry is under way. It takes a *)
(* second fault, striking while the first is handled, to leave it RETRYING *)
(* without either.                                                         *)
THEOREM FindableWithOneFault ==
  ASSUME MaxFaults <= 1
  PROVE  Spec => []Findable
<1>1. Init => FaultSpent /\ RetriesLeft /\ Findable
  BY DEF Init, FaultSpent, RetriesLeft, Findable, NoJob, IdleWork, At, Retrying
<1>2. TypeOK /\ RunningHasLease /\ FaultSpent /\ RetriesLeft /\ Findable /\ [Next]_vars
      => FaultSpent' /\ RetriesLeft' /\ Findable'
  BY FaultSpentNext, RetriesLeftNext, FindableNext
<1> QED BY <1>1, <1>2, LeaseHeld, TypeCorrect, PTL DEF Spec
=============================================================================
