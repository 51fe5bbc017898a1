------------------------- MODULE AnalysisJobsProofs -------------------------
(* Proofs about AnalysisJobs for all values of its constants. *)
EXTENDS AnalysisJobs, SequenceTheorems, FiniteSetTheorems, WellFoundedInduction, TLAPS

-----------------------------------------------------------------------------
(* Least and Greatest *)

(* A nonempty family of subsets of a finite set has a minimal member. *)
LEMMA MinimalSet ==
  ASSUME NEW S, IsFiniteSet(S), NEW T, T \subseteq SUBSET S, T # {}
  PROVE  \E U \in T : \A V \in T : V \subseteq U => V = U
<1>1. IsFiniteSet(SUBSET S) /\ \A U \in T : IsFiniteSet(U)
  BY FS_SUBSET, FS_Subset
<1>2. T \subseteq FiniteSubsetsOf(S)
  BY <1>1 DEF FiniteSubsetsOf
<1>3. PICK U \in T : \A V \in T : ~(<<V, U>> \in StrictSubsetOrdering(S))
  BY <1>2, FS_StrictSubsetOrderingWellFounded, WFMin
<1>4. SUFFICES ASSUME NEW V \in T, V \subseteq U, V # U PROVE FALSE
  BY Zenon
<1>5. <<V, U>> \in StrictSubsetOrdering(S)
  BY <1>4, SMT DEF StrictSubsetOrdering
<1> QED BY <1>3, <1>5

(* Least finds a member of every nonempty set of job numbers, as ORDER BY  *)
(* id finds the first row of a result that is not empty.                   *)
LEMMA LeastIn ==
  ASSUME NEW n \in Nat, NEW S, S \subseteq 1..n, S # {}
  PROVE  Least(S) \in S
<1> DEFINE Below(x) == {k \in S : k <= x}
<1> DEFINE T == {Below(x) : x \in S}
<1> DEFINE D == 1..n
<1>1. IsFiniteSet(D)
  BY FS_Interval
<1>2. T \subseteq SUBSET D /\ T # {}
  OBVIOUS
<1>3. PICK U \in T : \A V \in T : V \subseteq U => V = U
  <2> HIDE DEF T, D
  <2> QED BY <1>1, <1>2, MinimalSet
<1>4. PICK x \in S : U = Below(x)
  OBVIOUS
<1>5. ASSUME NEW y \in S PROVE x <= y
  <2>1. S \subseteq Int
    OBVIOUS
  <2>2. SUFFICES ASSUME y < x PROVE FALSE
    BY <2>1
  <2>3. Below(y) \in T
    OBVIOUS
  <2>4. Below(y) \subseteq U
    <3>1. SUFFICES ASSUME NEW k \in Below(y) PROVE k \in Below(x)
      BY <1>4
    <3> QED BY <2>1, <2>2
  <2>5. x \in Below(x) /\ x \notin Below(y)
    BY <2>1, <2>2
  <2> QED BY <2>3, <2>4, <2>5, <1>3, <1>4
<1> QED BY <1>5 DEF Least

(* Greatest likewise: ORDER BY id DESC.                                    *)
LEMMA GreatestIn ==
  ASSUME NEW n \in Nat, NEW S, S \subseteq 1..n, S # {}
  PROVE  Greatest(S) \in S
<1> DEFINE Above(x) == {k \in S : x <= k}
<1> DEFINE T == {Above(x) : x \in S}
<1> DEFINE D == 1..n
<1>1. IsFiniteSet(D)
  BY FS_Interval
<1>2. T \subseteq SUBSET D /\ T # {}
  OBVIOUS
<1>3. PICK U \in T : \A V \in T : V \subseteq U => V = U
  <2> HIDE DEF T, D
  <2> QED BY <1>1, <1>2, MinimalSet
<1>4. PICK x \in S : U = Above(x)
  OBVIOUS
<1>5. ASSUME NEW y \in S PROVE y <= x
  <2>1. S \subseteq Int
    OBVIOUS
  <2>2. SUFFICES ASSUME x < y PROVE FALSE
    BY <2>1
  <2>3. Above(y) \in T
    OBVIOUS
  <2>4. Above(y) \subseteq U
    <3>1. SUFFICES ASSUME NEW k \in Above(y) PROVE k \in Above(x)
      BY <1>4
    <3> QED BY <2>1, <2>2
  <2>5. x \in Above(x) /\ x \notin Above(y)
    BY <2>1, <2>2
  <2> QED BY <2>3, <2>4, <2>5, <1>3, <1>4
<1> QED BY <1>5 DEF Greatest

-----------------------------------------------------------------------------
(* Type correctness *)

(* The least of some jobs is one of them. *)
LEMMA LeastJob == ASSUME NEW S, S \subseteq Job, S # {} PROVE Least(S) \in Job
BY LeastIn, BoundsAssumption DEF Job

(* A message as the publishers send it is a message. *)
LEMMA FreshMessageType ==
  /\ \A j \in Job : FreshMessage(j) \in Message
  /\ NoMessage \notin Message
BY BoundsAssumption DEF FreshMessage, Message, NoMessage, Job

(* A step that changes one publisher keeps the types of all of them. *)
LEMMA PubUpdate ==
  ASSUME PubTypeOK, NEW p \in Publisher, NEW s \in PubState,
         s.pc \notin {"idle", "insert"} => s.job \in Job,
         pub' = [pub EXCEPT ![p] = s]
  PROVE  PubTypeOK'
BY DEF PubTypeOK

(* The same for one worker. *)
LEMMA WorkUpdate ==
  ASSUME WorkTypeOK, NEW w \in Worker, NEW s \in WorkState,
         s.pc # "idle" => s.msg \in Message,
         work' = [work EXCEPT ![w] = s]
  PROVE  WorkTypeOK'
BY DEF WorkTypeOK

(* The idle states of a publisher and a worker are states. *)
LEMMA IdleTypes == IdlePub \in PubState /\ IdleWork \in WorkState
BY DEF IdlePub, IdleWork, PubState, WorkState, Unseen, Snapshot

(* After a send the publisher goes on in a well-formed state. *)
LEMMA NextRowType ==
  ASSUME PubTypeOK, NEW p \in Publisher, NextRow(p)
  PROVE  PubTypeOK'
<1>1. CASE pub[p].rest = {}
  <2>1. pub' = [pub EXCEPT ![p] = IdlePub]
    BY <1>1 DEF NextRow
  <2>2. IdlePub.pc = "idle"
    BY DEF IdlePub
  <2> QED BY <2>1, <2>2, IdleTypes, PubUpdate
<1>2. CASE pub[p].rest # {}
  <2> DEFINE k == Least(pub[p].rest)
             s == [pub[p] EXCEPT !.pc = "bump", !.job = k, !.rest = pub[p].rest \ {k}]
  <2>1. pub' = [pub EXCEPT ![p] = s]
    BY <1>2 DEF NextRow, PubTypeOK
  <2>2. k \in Job
    BY <1>2, LeastJob DEF PubTypeOK, PubState
  <2>3. s \in PubState /\ s.job \in Job
    <3> HIDE DEF k
    <3> QED BY <2>2 DEF PubTypeOK, PubState
  <2> QED BY <2>1, <2>3, PubUpdate
<1> QED BY <1>1, <1>2

(* What TypeOK says of each thread, worker and job, one at a time. *)
LEMMA StepTypes ==
  ASSUME TypeOK, NEW w \in Worker, ~At(w, {"idle"})
  PROVE  /\ work[w].msg \in Message /\ work[w].msg.job \in Job
         /\ \A pc \in {"claim", "prepare", "start", "engine", "finish", "audit", "fail",
                       "failAudit", "inner", "outer", "outerFail", "retryInner",
                       "retryOuter"} : Goto(w, pc) => WorkTypeOK'
         /\ Return(w) \/ Ack(w) => WorkTypeOK'
         /\ \A s \in {"QUEUED", "RUNNING", "RETRYING", "COMPLETED", "FAILED"} :
              SetStatus(w, s) => job' \in [Job -> JobRow]
<1>1. work[w].msg \in Message /\ work[w] \in WorkState
  BY DEF TypeOK, WorkTypeOK, At
<1>2. work[w].msg.job \in Job
  BY <1>1 DEF Message
<1>3. ASSUME NEW pc \in {"claim", "prepare", "start", "engine", "finish", "audit", "fail",
                         "failAudit", "inner", "outer", "outerFail", "retryInner",
                         "retryOuter"}, Goto(w, pc)
      PROVE  WorkTypeOK'
  <2> DEFINE s == [work[w] EXCEPT !.pc = pc]
  <2>1. s \in WorkState /\ s.msg \in Message
    BY <1>1 DEF WorkState
  <2>2. work' = [work EXCEPT ![w] = s]
    BY <1>3 DEF Goto
  <2> QED BY <2>1, <2>2, WorkUpdate DEF TypeOK
<1>4. ASSUME Return(w) \/ Ack(w) PROVE WorkTypeOK'
  <2> DEFINE s == [IdleWork EXCEPT !.pc = "return", !.msg = work[w].msg]
  <2>1. s \in WorkState /\ s.msg \in Message
    BY <1>1 DEF WorkState, IdleWork
  <2>2. IdleWork.pc = "idle"
    BY DEF IdleWork
  <2>3. work' = [work EXCEPT ![w] = s] \/ work' = [work EXCEPT ![w] = IdleWork]
    BY <1>4 DEF Return, Ack
  <2> QED BY <2>1, <2>2, <2>3, WorkUpdate, IdleTypes DEF TypeOK
<1>5. ASSUME NEW s \in {"QUEUED", "RUNNING", "RETRYING", "COMPLETED", "FAILED"},
             SetStatus(w, s)
      PROVE  job' \in [Job -> JobRow]
  BY <1>2, <1>5 DEF SetStatus, TypeOK, JobRow
<1> QED BY <1>1, <1>2, <1>3, <1>4, <1>5

(* What the transactions on a job write keeps the job a row of its table. *)
LEMMA JobUpdate ==
  ASSUME TypeOK, NEW j \in Job,
         NEW s \in {"QUEUED", "RUNNING", "RETRYING", "COMPLETED", "FAILED"},
         NEW t \in {"null", "fresh", "old"}, NEW i \in Nat
  PROVE  /\ [job EXCEPT ![j].status = s, ![j].startedAt = t] \in [Job -> JobRow]
         /\ [job EXCEPT ![j].status = s, ![j].analysisId = i] \in [Job -> JobRow]
<1>1. job \in [Job -> JobRow]
  BY DEF TypeOK
<1> DEFINE r1 == [job[j] EXCEPT !.status = s, !.startedAt = t]
           r2 == [job[j] EXCEPT !.status = s, !.analysisId = i]
<1>2. r1 \in JobRow /\ r2 \in JobRow
  BY <1>1 DEF JobRow
<1>3. /\ [job EXCEPT ![j].status = s, ![j].startedAt = t] = [job EXCEPT ![j] = r1]
      /\ [job EXCEPT ![j].status = s, ![j].analysisId = i] = [job EXCEPT ![j] = r2]
  BY <1>1
<1> HIDE DEF r1, r2
<1> QED BY <1>1, <1>2, <1>3

(* So does the passing of time. *)
LEMMA AgeUpdate ==
  ASSUME TypeOK, NEW j \in Job
  PROVE  /\ [job EXCEPT ![j].startedAt = "old"] \in [Job -> JobRow]
         /\ [job EXCEPT ![j].queuedOld = TRUE] \in [Job -> JobRow]
<1>1. job \in [Job -> JobRow]
  BY DEF TypeOK
<1> DEFINE r1 == [job[j] EXCEPT !.startedAt = "old"]
           r2 == [job[j] EXCEPT !.queuedOld = TRUE]
<1>2. r1 \in JobRow /\ r2 \in JobRow
  BY <1>1 DEF JobRow
<1>3. /\ [job EXCEPT ![j].startedAt = "old"] = [job EXCEPT ![j] = r1]
      /\ [job EXCEPT ![j].queuedOld = TRUE] = [job EXCEPT ![j] = r2]
  BY <1>1
<1> HIDE DEF r1, r2
<1> QED BY <1>1, <1>2, <1>3

(* Publishing keeps the broker a bag of messages. *)
LEMMA PutType == ASSUME TypeOK, NEW m, Put(m) PROVE queue' \in [Message -> Nat]
<1>1. queue \in [Message -> Nat]
  BY DEF TypeOK
<1>2. queue' = [queue EXCEPT ![m] = queue[m] + 1]
  BY DEF Put
<1>3. \A k \in Message : queue'[k] \in Nat
  BY <1>1, <1>2
<1> QED BY <1>1, <1>2, <1>3

(* Counting a fault keeps the counter a number. *)
LEMMA FaultType == ASSUME TypeOK, NEW kind, Fault(kind) PROVE faults' \in Nat
BY DEF TypeOK, Fault

(* Requests keep TypeOK. *)
LEMMA QueueingType ==
  ASSUME TypeOK, NEW a \in Api,
         (\E force \in BOOLEAN : QueueNew(a, force)) \/ RequestRead(a) \/ RequestReset(a)
  PROVE  TypeOK'
<1>0. a \in Publisher
  BY DEF Publisher
<1>1. ASSUME NEW force \in BOOLEAN, QueueNew(a, force) PROVE TypeOK'
  <2> DEFINE j == Least(Unborn)
             s == [IdlePub EXCEPT !.pc = "select", !.job = j]
  <2>1. j \in Job
    BY <1>1, LeastJob DEF QueueNew, Unborn
  <2>2. /\ InsertJob(j)
        /\ outbox' = [outbox EXCEPT ![j] = "due"]
        /\ canonical' \in {canonical, j}
        /\ pub' = [pub EXCEPT ![a] = s]
        /\ UNCHANGED <<rows, queue, work, stale, faults>>
    BY <1>1 DEF QueueNew
  <2> HIDE DEF j
  <2>3. job' \in [Job -> JobRow]
    BY <2>1, <2>2, LenProperties DEF TypeOK, InsertJob, JobRow, NoJob
  <2>4. PubTypeOK'
    <3>1. s \in PubState /\ s.job \in Job
      BY <2>1, IdleTypes DEF PubState, IdlePub
    <3> QED BY <1>0, <2>2, <3>1, PubUpdate DEF TypeOK
  <2> QED BY <2>1, <2>2, <2>3, <2>4 DEF TypeOK, WorkTypeOK
<1>2. ASSUME RequestRead(a) PROVE TypeOK'
  <2> DEFINE j == ExistingJob
             s == [pc |-> "reset", job |-> j, rest |-> {},
                   seen |-> [analysis |-> job[j].analysisId # 0,
                             started |-> job[j].startedAt # "null",
                             dispatched |-> outbox[j] = "dispatched"]]
  <2>1. /\ j # 0
        /\ pub' = [pub EXCEPT ![a] = s]
        /\ UNCHANGED <<job, canonical, outbox, rows, queue, work, stale, faults>>
    BY <1>2 DEF RequestRead, jobDb
  <2>2. j \in Job
    <3>1. ApiJobs # {} => Greatest(ApiJobs) \in Job
      BY GreatestIn, BoundsAssumption DEF ApiJobs, Job
    <3> QED BY <2>1, <3>1 DEF ExistingJob, TypeOK
  <2> HIDE DEF j
  <2>3. s \in PubState /\ s.job \in Job
    BY <2>2 DEF PubState, Snapshot
  <2>4. PubTypeOK'
    BY <1>0, <2>1, <2>3, PubUpdate DEF TypeOK
  <2> QED BY <2>1, <2>4 DEF TypeOK, WorkTypeOK
<1>3. ASSUME RequestReset(a) PROVE TypeOK'
  <2> DEFINE j == pub[a].job
             seen == pub[a].seen
             s == [pub[a] EXCEPT !.pc = "select", !.seen = Unseen]
             r == [status |-> "QUEUED", queuedAt |-> Len(rows), queuedOld |-> FALSE,
                   startedAt |-> IF seen.started THEN "null" ELSE job[j].startedAt,
                   analysisId |-> IF seen.analysis THEN 0 ELSE job[j].analysisId,
                   requeued |-> job[j].requeued + 1]
  <2>1. j \in Job /\ pub[a] \in PubState
    BY <1>0, <1>3 DEF RequestReset, TypeOK, PubTypeOK
  <2>2. /\ job' = [job EXCEPT ![j] = r]
        /\ outbox' = [outbox EXCEPT ![j] =
              IF outbox[j] = "dispatched" /\ ~seen.dispatched THEN outbox[j] ELSE "due"]
        /\ canonical' = j
        /\ UNCHANGED <<rows, queue, work, stale, faults>>
    BY <1>3 DEF RequestReset
  <2>6. pub' = [pub EXCEPT ![a] = s]
    BY <1>0, <1>3 DEF RequestReset, TypeOK, PubTypeOK
  <2>3. r \in JobRow
    <3>1. job[j] \in JobRow /\ Len(rows) \in Nat
      BY <2>1, LenProperties DEF TypeOK
    <3> HIDE DEF j, seen
    <3> QED BY <3>1 DEF JobRow
  <2>4. s \in PubState /\ s.job \in Job
    BY <2>1 DEF PubState, Snapshot, Unseen
  <2>5. PubTypeOK'
    BY <1>0, <2>4, <2>6, PubUpdate DEF TypeOK
  <2> HIDE DEF j, seen, s, r
  <2> QED BY <2>1, <2>2, <2>3, <2>5 DEF TypeOK, WorkTypeOK
<1> QED BY <1>1, <1>2, <1>3

(* Batch calls keep TypeOK. *)
LEMMA BatchType ==
  ASSUME TypeOK, NEW b \in Batch, BatchCheck(b) \/ BatchStep(b) \/ BatchDelayFails(b)
  PROVE  TypeOK'
<1>0. b \in Publisher /\ pub[b] \in PubState
  BY DEF Publisher, TypeOK, PubTypeOK
<1>1. ASSUME BatchCheck(b) PROVE TypeOK'
  <2> DEFINE s == [pub[b] EXCEPT !.pc = "insert"]
  <2>1. s \in PubState /\ s.pc = "insert"
    BY <1>0 DEF PubState
  <2>2. pub' = [pub EXCEPT ![b] = s]
    BY <1>1 DEF BatchCheck
  <2>3. PubTypeOK'
    BY <1>0, <2>1, <2>2, PubUpdate DEF TypeOK
  <2> QED BY <1>1, <2>3 DEF BatchCheck, TypeOK, WorkTypeOK, jobDb
<1>2. ASSUME BatchInsert(b) PROVE TypeOK'
  <2> DEFINE j == Least(Unborn)
             s == [pub[b] EXCEPT !.pc = "delay", !.job = j]
  <2>1. j \in Job
    BY <1>2, LeastJob DEF BatchInsert, Unborn
  <2>2. InsertJob(j) /\ UNCHANGED <<canonical, outbox, rows, queue, work, stale, faults>>
    BY <1>2 DEF BatchInsert
  <2>3. pub' = [pub EXCEPT ![b] = s]
    BY <1>0, <1>2 DEF BatchInsert, TypeOK, PubTypeOK
  <2> HIDE DEF j
  <2>4. job' \in [Job -> JobRow]
    BY <2>1, <2>2, LenProperties DEF TypeOK, InsertJob, JobRow, NoJob
  <2>5. s \in PubState /\ s.job \in Job
    BY <1>0, <2>1 DEF PubState
  <2>6. PubTypeOK'
    BY <1>0, <2>3, <2>5, PubUpdate DEF TypeOK
  <2> QED BY <2>2, <2>4, <2>6 DEF TypeOK, WorkTypeOK
<1>3. ASSUME pub' = [pub EXCEPT ![b] = IdlePub] PROVE PubTypeOK'
  <2>1. IdlePub.pc = "idle"
    BY DEF IdlePub
  <2> QED BY <1>0, <1>3, <2>1, IdleTypes, PubUpdate DEF TypeOK
<1>4. ASSUME BatchDelay(b) PROVE TypeOK'
  <2>1. queue' \in [Message -> Nat]
    BY <1>4, PutType DEF BatchDelay
  <2>2. PubTypeOK'
    BY <1>3, <1>4 DEF BatchDelay
  <2> QED BY <1>4, <2>1, <2>2 DEF BatchDelay, TypeOK, WorkTypeOK, jobDb
<1>5. ASSUME BatchDelayFails(b) PROVE TypeOK'
  <2>1. queue' \in [Message -> Nat]
    BY <1>5, PutType DEF BatchDelayFails, TypeOK
  <2>2. PubTypeOK'
    BY <1>3, <1>5 DEF BatchDelayFails
  <2>3. faults' \in Nat
    BY <1>5, FaultType DEF BatchDelayFails
  <2>4. job' \in [Job -> JobRow]
    BY <1>5 DEF BatchDelayFails, TypeOK, JobRow
  <2> QED BY <1>5, <2>1, <2>2, <2>3, <2>4 DEF BatchDelayFails, TypeOK, WorkTypeOK
<1> QED BY <1>1, <1>2, <1>4, <1>5 DEF BatchStep

(* Committing an attempt keeps the outbox well formed. *)
LEMMA BumpType ==
  ASSUME TypeOK, NEW j, Bump(j)
  PROVE  outbox' \in [Job -> {"none", "due", "backoff", "dispatched"}]
BY DEF TypeOK, Bump

(* Publishers keep TypeOK. *)
LEMMA PublisherType ==
  ASSUME TypeOK, NEW p \in Publisher,
         \/ p \in Api /\ SelectOwn(p)
         \/ p \in Beat /\ SelectPending(p)
         \/ PublisherStep(p) \/ PublisherFault(p)
  PROVE  TypeOK'
<1>0. pub[p] \in PubState
  BY DEF TypeOK, PubTypeOK
<1>1. ASSUME pub' = [pub EXCEPT ![p] = IdlePub] PROVE PubTypeOK'
  <2>1. IdlePub.pc = "idle"
    BY DEF IdlePub
  <2> QED BY <1>1, <2>1, IdleTypes, PubUpdate DEF TypeOK
<1>2. ASSUME NEW pc \in {"send", "mark"}, pub[p].pc \notin {"idle", "insert"},
             pub' = [pub EXCEPT ![p].pc = pc]
      PROVE  PubTypeOK'
  <2> DEFINE s == [pub[p] EXCEPT !.pc = pc]
  <2>1. s \in PubState /\ s.job \in Job
    BY <1>0, <1>2 DEF PubState, TypeOK, PubTypeOK
  <2>2. pub' = [pub EXCEPT ![p] = s]
    BY <1>2
  <2> QED BY <2>1, <2>2, PubUpdate DEF TypeOK
<1>3. ASSUME SelectOwn(p) PROVE TypeOK'
  <2>1. PubTypeOK'
    BY <1>1, <1>2, <1>3 DEF SelectOwn
  <2>2. outbox' \in [Job -> {"none", "due", "backoff", "dispatched"}]
    BY <1>3, BumpType DEF SelectOwn, TypeOK
  <2> QED BY <1>3, <2>1, <2>2 DEF SelectOwn, TypeOK, WorkTypeOK
<1>4. ASSUME SelectPending(p) PROVE TypeOK'
  <2> DEFINE j == Least(Due)
             s == [IdlePub EXCEPT !.pc = "send", !.job = j, !.rest = Due \ {j}]
  <2>1. j \in Job
    BY <1>4, LeastJob DEF SelectPending, Due
  <2>2. Bump(j) /\ pub' = [pub EXCEPT ![p] = s]
        /\ UNCHANGED <<job, canonical, rows, queue, work, stale, faults>>
    BY <1>4 DEF SelectPending
  <2> HIDE DEF j
  <2>3. s \in PubState /\ s.job \in Job
    BY <2>1, IdleTypes DEF PubState, IdlePub, Due
  <2>4. PubTypeOK'
    BY <2>2, <2>3, PubUpdate DEF TypeOK
  <2>5. outbox' \in [Job -> {"none", "due", "backoff", "dispatched"}]
    BY <2>2, BumpType
  <2> QED BY <2>2, <2>4, <2>5 DEF TypeOK, WorkTypeOK
<1>5. ASSUME BumpNext(p) PROVE TypeOK'
  <2>1. PubTypeOK'
    BY <1>2, <1>5 DEF BumpNext
  <2>2. outbox' \in [Job -> {"none", "due", "backoff", "dispatched"}]
    BY <1>5, BumpType DEF BumpNext
  <2> QED BY <1>5, <2>1, <2>2 DEF BumpNext, TypeOK, WorkTypeOK
<1>6. ASSUME Send(p) PROVE TypeOK'
  <2>1. PubTypeOK'
    BY <1>2, <1>6 DEF Send
  <2>2. queue' \in [Message -> Nat]
    BY <1>6, PutType DEF Send
  <2> QED BY <1>6, <2>1, <2>2 DEF Send, TypeOK, WorkTypeOK, jobDb
<1>7. ASSUME SendFails(p) PROVE TypeOK'
  <2>1. PubTypeOK'
    BY <1>7, NextRowType DEF SendFails, TypeOK
  <2>2. queue' \in [Message -> Nat]
    BY <1>7, PutType DEF SendFails, TypeOK
  <2>3. faults' \in Nat
    BY <1>7, FaultType DEF SendFails
  <2> QED BY <1>7, <2>1, <2>2, <2>3 DEF SendFails, TypeOK, WorkTypeOK, jobDb
<1>8. ASSUME Mark(p) PROVE TypeOK'
  <2>1. PubTypeOK'
    BY <1>8, NextRowType DEF Mark, TypeOK
  <2>2. outbox' \in [Job -> {"none", "due", "backoff", "dispatched"}]
    BY <1>8 DEF Mark, TypeOK
  <2> QED BY <1>8, <2>1, <2>2 DEF Mark, TypeOK, WorkTypeOK
<1>9. ASSUME MarkFails(p) \/ PublisherCrash(p) PROVE TypeOK'
  <2>1. PubTypeOK'
    BY <1>1, <1>9, NextRowType DEF MarkFails, PublisherCrash, TypeOK
  <2>2. faults' \in Nat
    BY <1>9, FaultType DEF MarkFails, PublisherCrash
  <2> QED BY <1>9, <2>1, <2>2 DEF MarkFails, PublisherCrash, TypeOK, WorkTypeOK, jobDb
<1> QED BY <1>3, <1>4, <1>5, <1>6, <1>7, <1>8, <1>9 DEF PublisherStep, PublisherFault

(* The newest of some analysis rows is one of them. *)
LEMMA GreatestRow ==
  ASSUME TypeOK, NEW j, ResultsSince(j) # {}
  PROVE  Greatest(ResultsSince(j)) \in ResultsSince(j) /\ ResultsSince(j) \subseteq 1..Len(rows)
<1>1. Len(rows) \in Nat
  BY LenProperties DEF TypeOK
<1>2. ResultsSince(j) \subseteq 1..Len(rows)
  BY DEF ResultsSince
<1> QED BY <1>1, <1>2, GreatestIn

(* The steps of a worker inside a delivery keep TypeOK. *)
LEMMA WorkerStepType ==
  ASSUME TypeOK, NEW w \in Worker, WorkerStep(w)
  PROVE  TypeOK'
<1> USE DEF outside, PubTypeOK
<1>1. CASE DropDuplicate(w)
  <2>1. WorkTypeOK'
    BY <1>1, StepTypes DEF DropDuplicate, At
  <2> QED BY <1>1, <2>1 DEF DropDuplicate, TypeOK
<1>2. CASE Claim(w)
  <2>1. WorkTypeOK'
    BY <1>2, StepTypes DEF Claim, At
  <2>2. job' \in [Job -> JobRow]
    BY <1>2, StepTypes, JobUpdate DEF Claim, At
  <2> QED BY <1>2, <2>1, <2>2 DEF Claim, TypeOK
<1>3. CASE Recover(w)
  <2> DEFINE j == work[w].msg.job
             r == Greatest(ResultsSince(j))
  <2>1. WorkTypeOK' /\ j \in Job
    BY <1>3, StepTypes DEF Recover, At
  <2>2. r \in Nat
    BY <1>3, GreatestRow, LenProperties DEF Recover, TypeOK
  <2>3. job' = [job EXCEPT ![j].status = "COMPLETED", ![j].analysisId = r]
        /\ UNCHANGED <<rows, queue, outside, faults>>
    BY <1>3 DEF Recover
  <2> HIDE DEF j, r
  <2>4. job' \in [Job -> JobRow]
    BY <2>1, <2>2, <2>3, JobUpdate
  <2> QED BY <2>1, <2>3, <2>4 DEF TypeOK
<1>4. CASE NoResult(w)
  <2>1. WorkTypeOK'
    BY <1>4, StepTypes DEF NoResult, At
  <2> QED BY <1>4, <2>1 DEF NoResult, TypeOK
<1>5. CASE EngineStart(w)
  <2>1. CASE Goto(w, "fail") /\ UNCHANGED rows
    <3>1. WorkTypeOK'
      BY <1>5, <2>1, StepTypes DEF EngineStart, At
    <3> QED BY <1>5, <2>1, <3>1 DEF EngineStart, TypeOK
  <2>2. CASE /\ rows' = Append(rows, "running")
             /\ work' = [work EXCEPT ![w].pc = "engine", ![w].row = Len(rows) + 1]
    <3> DEFINE s == [work[w] EXCEPT !.pc = "engine", !.row = Len(rows) + 1]
    <3>1. work[w] \in WorkState /\ work[w].msg \in Message
      BY <1>5 DEF EngineStart, TypeOK, WorkTypeOK, At
    <3>2. s \in WorkState /\ s.msg \in Message
      <4>1. Len(rows) + 1 \in Nat
        BY LenProperties DEF TypeOK
      <4> QED BY <3>1, <4>1 DEF WorkState
    <3>3. work' = [work EXCEPT ![w] = s]
      BY <2>2 DEF TypeOK, WorkTypeOK
    <3>4. WorkTypeOK'
      BY <3>2, <3>3, WorkUpdate DEF TypeOK
    <3>5. rows' \in Seq(RowStatus)
      BY <2>2, AppendProperties DEF TypeOK, RowStatus, EngineOutcome
    <3> QED BY <1>5, <3>4, <3>5 DEF EngineStart, TypeOK
  <2> QED BY <1>5, <2>1, <2>2 DEF EngineStart
<1>6. CASE EngineEnd(w)
  <2>1. PICK r \in RowStatus : /\ rows' = [rows EXCEPT ![work[w].row] = r]
                               /\ Goto(w, IF r \in {"failed", "running"} THEN "fail" ELSE "finish")
    BY <1>6 DEF EngineEnd, RowStatus
  <2>2. WorkTypeOK'
    BY <1>6, <2>1, StepTypes DEF EngineEnd, At
  <2>3. rows' \in Seq(RowStatus)
    <3>1. rows \in Seq(RowStatus) /\ rows \in [1..Len(rows) -> RowStatus]
      BY LenProperties DEF TypeOK
    <3>2. CASE work[w].row \in 1..Len(rows)
      BY <2>1, <3>1, <3>2, ExceptSeq
    <3>3. CASE work[w].row \notin 1..Len(rows)
      BY <2>1, <3>1, <3>3
    <3> QED BY <3>2, <3>3
  <2> QED BY <1>6, <2>2, <2>3 DEF EngineEnd, TypeOK
<1>7. CASE Finish(w)
  <2>1. WorkTypeOK' /\ work[w].row \in Nat
    BY <1>7, StepTypes DEF Finish, At, TypeOK, WorkTypeOK, WorkState
  <2>2. job' \in [Job -> JobRow]
    <3> DEFINE j == work[w].msg.job
               i == work[w].row
    <3>1. j \in Job /\ i \in Nat
      BY <1>7, <2>1, StepTypes DEF Finish, At
    <3>2. job' = [job EXCEPT ![j].status = "COMPLETED", ![j].analysisId = i]
      BY <1>7 DEF Finish
    <3> HIDE DEF j, i
    <3> QED BY <3>1, <3>2, JobUpdate
  <2> QED BY <1>7, <2>1, <2>2 DEF Finish, TypeOK
<1>8. CASE FailJob(w)
  <2>1. WorkTypeOK' /\ Len(rows) \in Nat
    BY <1>8, StepTypes, LenProperties DEF FailJob, At, TypeOK
  <2>2. job' \in [Job -> JobRow]
    <3> DEFINE j == work[w].msg.job
               i == IF job[j].analysisId = 0 THEN Len(rows) ELSE job[j].analysisId
    <3>1. j \in Job
      BY <1>8, StepTypes DEF FailJob, At
    <3>2. i \in Nat
      BY <2>1, <3>1 DEF TypeOK, JobRow
    <3>3. job' = [job EXCEPT ![j].status = "FAILED", ![j].analysisId = i]
      BY <1>8, <3>1 DEF FailJob, TypeOK, JobRow
    <3> HIDE DEF i
    <3> QED BY <3>1, <3>2, <3>3, JobUpdate
  <2> QED BY <1>8, <2>1, <2>2 DEF FailJob, TypeOK
<1>9. CASE FinalAudit(w) \/ Acknowledge(w)
  <2>1. WorkTypeOK'
    BY <1>9, StepTypes DEF FinalAudit, Acknowledge, At
  <2> QED BY <1>9, <2>1 DEF FinalAudit, Acknowledge, TypeOK
<1>10. CASE GiveUp(w) \/ MarkRetrying(w)
  <2>1. WorkTypeOK'
    BY <1>10, StepTypes DEF GiveUp, MarkRetrying, At
  <2>2. job' \in [Job -> JobRow]
    BY <1>10, StepTypes DEF GiveUp, MarkRetrying, At
  <2> QED BY <1>10, <2>1, <2>2 DEF GiveUp, MarkRetrying, TypeOK
<1>11. CASE PublishRetry(w)
  <2>1. WorkTypeOK'
    BY <1>11, StepTypes DEF PublishRetry, At
  <2>2. queue' \in [Message -> Nat]
    BY <1>11, PutType DEF PublishRetry
  <2> QED BY <1>11, <2>1, <2>2 DEF PublishRetry, TypeOK
<1> QED BY <1>1, <1>2, <1>3, <1>4, <1>5, <1>6, <1>7, <1>8, <1>9, <1>10, <1>11 DEF WorkerStep

(* Taking a message keeps TypeOK. *)
LEMMA DeliverType ==
  ASSUME TypeOK, NEW w \in Worker, NEW m \in Message, Deliver(w, m)
  PROVE  TypeOK'
<1> DEFINE s == [pc |-> "claim", msg |-> m, row |-> 0]
<1>1. s \in WorkState /\ s.msg \in Message
  BY DEF WorkState
<1>2. WorkTypeOK'
  BY <1>1, WorkUpdate DEF TypeOK, Deliver
<1>3. queue' \in [Message -> Nat]
  <2>1. queue \in [Message -> Nat] /\ queue[m] > 0 /\ queue' = [queue EXCEPT ![m] = queue[m] - 1]
    BY DEF TypeOK, Deliver
  <2>2. queue[m] - 1 \in Nat
    BY <2>1
  <2> QED BY <2>1, <2>2
<1> QED BY <1>2, <1>3 DEF Deliver, TypeOK, outside, PubTypeOK

(* Kills and losses of workers keep TypeOK. *)
LEMMA WorkerFaultType ==
  ASSUME TypeOK, NEW w \in Worker, WorkerFault(w)
  PROVE  TypeOK'
<1>1. CASE DbError(w) \/ SoftError(w)
  <2>1. WorkTypeOK'
    BY <1>1, StepTypes DEF DbError, SoftError, DbHandlers, At
  <2>2. faults' \in Nat
    BY <1>1, FaultType DEF DbError, SoftError
  <2> QED BY <1>1, <2>1, <2>2 DEF DbError, SoftError, TypeOK, outside, PubTypeOK
<1>2. CASE HandlerDbError(w) \/ PublishRetryFails(w) \/ HardKill(w)
  <2>1. WorkTypeOK'
    BY <1>2, StepTypes DEF HandlerDbError, PublishRetryFails, HardKill, At
  <2>2. faults' \in Nat
    BY <1>2, FaultType DEF HandlerDbError, PublishRetryFails, HardKill
  <2> QED BY <1>2, <2>1, <2>2 DEF HandlerDbError, PublishRetryFails, HardKill, TypeOK,
                                 outside, PubTypeOK
<1>3. CASE WorkerLost(w)
  <2>1. WorkTypeOK'
    BY <1>3, StepTypes DEF WorkerLost
  <2>2. queue' \in [Message -> Nat]
    BY <1>3, PutType DEF WorkerLost
  <2>3. faults' \in Nat
    BY <1>3, FaultType DEF WorkerLost
  <2> QED BY <1>3, <2>1, <2>2, <2>3 DEF WorkerLost, TypeOK, outside, PubTypeOK
<1>4. CASE RefreshFails(w)
  <2>1. WorkTypeOK'
    BY <1>4, StepTypes DEF RefreshFails, At
  <2>2. faults' \in Nat
    BY <1>4, FaultType DEF RefreshFails
  <2>3. rows' \in Seq(RowStatus)
    <3>1. rows \in Seq(RowStatus) /\ rows \in [1..Len(rows) -> RowStatus]
      BY LenProperties DEF TypeOK
    <3>2. rows' = rows \/ rows' = [rows EXCEPT ![work[w].row] = "withdrawn"]
      BY <1>4 DEF RefreshFails
    <3>3. rows' \in [1..Len(rows) -> RowStatus]
      BY <3>1, <3>2 DEF RowStatus
    <3> QED BY <3>1, <3>3, LenProperties
  <2> QED BY <1>4, <2>1, <2>2, <2>3 DEF RefreshFails, TypeOK, outside, PubTypeOK
<1> QED BY <1>1, <1>2, <1>3, <1>4 DEF WorkerFault

(* Passing time and the reconciler keep TypeOK. *)
LEMMA TimeAndReconcilerType ==
  ASSUME TypeOK, \/ \E j \in Job : BackoffElapsed(j) \/ LeaseExpires(j) \/ ReconcileFail(j)
                 \/ ReconcileRead \/ ReconcileAborts
  PROVE  TypeOK'
<1> USE DEF PubTypeOK, WorkTypeOK
<1>1. ASSUME NEW j \in Job, BackoffElapsed(j) PROVE TypeOK'
  BY <1>1 DEF BackoffElapsed, TypeOK
<1>2. ASSUME NEW j \in Job, LeaseExpires(j) PROVE TypeOK'
  <2>1. job' \in [Job -> JobRow]
    <3>1. \/ job' = [job EXCEPT ![j].queuedOld = TRUE]
          \/ job' = [job EXCEPT ![j].startedAt = "old"]
      BY <1>2 DEF LeaseExpires
    <3> QED BY <3>1, AgeUpdate
  <2> QED BY <1>2, <2>1 DEF LeaseExpires, TypeOK
<1>3. ASSUME NEW j \in Job, ReconcileFail(j) PROVE TypeOK'
  <2>1. job' \in [Job -> JobRow]
    BY <1>3 DEF ReconcileFail, TypeOK, JobRow
  <2> QED BY <1>3, <2>1 DEF ReconcileFail, TypeOK
<1>4. CASE ReconcileRead
  BY <1>4 DEF ReconcileRead, TypeOK, jobDb
<1>5. CASE ReconcileAborts
  <2>1. faults' \in Nat
    BY <1>5, FaultType DEF ReconcileAborts
  <2> QED BY <1>5, <2>1 DEF ReconcileAborts, TypeOK, jobDb
<1> QED BY <1>1, <1>2, <1>3, <1>4, <1>5

(* The initial state is well formed. *)
LEMMA TypeInit == Init => TypeOK
<1> SUFFICES ASSUME Init PROVE TypeOK
  OBVIOUS
<1>1. job \in [Job -> JobRow]
  BY DEF Init, NoJob, JobRow
<1>2. PubTypeOK
  BY IdleTypes DEF Init, PubTypeOK, IdlePub
<1>3. WorkTypeOK
  BY IdleTypes DEF Init, WorkTypeOK, IdleWork
<1> QED BY <1>1, <1>2, <1>3, EmptySeq DEF Init, TypeOK

(* Every step keeps TypeOK. *)
LEMMA TypeNext == TypeOK /\ [Next]_vars => TypeOK'
<1> SUFFICES ASSUME TypeOK, [Next]_vars PROVE TypeOK'
  OBVIOUS
<1>1. CASE UNCHANGED vars
  BY <1>1 DEF vars, TypeOK, PubTypeOK, WorkTypeOK
<1>2. ASSUME NEW a \in Api, (\E force \in BOOLEAN : QueueNew(a, force)) \/ RequestRead(a) \/ ApiStep(a)
      PROVE  TypeOK'
  BY <1>2, QueueingType, PublisherType DEF ApiStep, Publisher
<1>3. ASSUME NEW b \in Batch, BatchCheck(b) \/ BatchStep(b) \/ BatchDelayFails(b)
      PROVE  TypeOK'
  BY <1>3, BatchType
<1>4. ASSUME NEW b \in Beat, SelectPending(b) PROVE TypeOK'
  BY <1>4, PublisherType DEF Publisher
<1>5. ASSUME NEW p \in Publisher, PublisherStep(p) \/ PublisherFault(p) PROVE TypeOK'
  BY <1>5, PublisherType
<1>6. ASSUME NEW w \in Worker, WorkerStep(w) \/ WorkerFault(w) \/ \E m \in Message : Deliver(w, m)
      PROVE  TypeOK'
  BY <1>6, WorkerStepType, WorkerFaultType, DeliverType
<1>7. ASSUME \/ \E j \in Job : BackoffElapsed(j) \/ LeaseExpires(j) \/ ReconcileFail(j)
             \/ ReconcileRead \/ ReconcileAborts
      PROVE  TypeOK'
  BY <1>7, TimeAndReconcilerType
<1> QED BY <1>1, <1>2, <1>3, <1>4, <1>5, <1>6, <1>7 DEF Next

(* Whatever is submitted, published, delivered, retried, killed, reset or  *)
(* reconciled, every row, message and process stays within its type; in    *)
(* particular no message is consumed that the broker does not hold.        *)
THEOREM TypeCorrect == Spec => []TypeOK
<1>1. Init => TypeOK
  BY TypeInit
<1>2. TypeOK /\ [Next]_vars => TypeOK'
  BY TypeNext
<1> QED BY <1>1, <1>2, PTL DEF Spec

-----------------------------------------------------------------------------
(* What the steps do to the state of a job *)

(* A job is not made COMPLETED, and a COMPLETED one keeps its result. *)
ResultKept(j) == job'[j].status = "COMPLETED" =>
                   job[j].status = "COMPLETED" /\ job'[j].analysisId = job[j].analysisId

(* A job that is RUNNING after the step has kept its lease or got one. *)
LeaseKept(j) == job'[j].status = "RUNNING" =>
                  \/ job'[j].startedAt # "null"
                  \/ job[j].status = "RUNNING" /\ job'[j].startedAt = job[j].startedAt

(* A step that leaves a job's row alone leaves its lease alone. *)
LEMMA UnchangedJob ==
  ASSUME job' = job PROVE \A j \in Job : ResultKept(j) /\ LeaseKept(j)
BY DEF ResultKept, LeaseKept

(* What requests and batch calls do to the job rows. *)
LEMMA RequestSteps ==
  ASSUME TypeOK, NEW a \in Api,
         (\E force \in BOOLEAN : QueueNew(a, force)) \/ RequestRead(a) \/ ApiStep(a)
  PROVE  /\ rows' = rows /\ work' = work
         /\ \A j \in Job : ResultKept(j) /\ LeaseKept(j)
<1> USE DEF ResultKept, LeaseKept
<1>1. ASSUME NEW force \in BOOLEAN, QueueNew(a, force)
      PROVE  rows' = rows /\ work' = work /\ \A j \in Job : ResultKept(j) /\ LeaseKept(j)
  BY <1>1 DEF QueueNew, InsertJob, NoJob, TypeOK, JobRow
<1>2. CASE RequestRead(a)
  BY <1>2 DEF RequestRead, jobDb
<1>3. CASE RequestReset(a)
  BY <1>3 DEF RequestReset, TypeOK
<1>4. CASE SelectOwn(a)
  BY <1>4 DEF SelectOwn
<1> QED BY <1>1, <1>2, <1>3, <1>4 DEF ApiStep

(* What publishers do to the job rows. *)
LEMMA PublisherSteps ==
  ASSUME TypeOK,
         \/ \E b \in Batch : BatchCheck(b) \/ BatchStep(b) \/ BatchDelayFails(b)
         \/ \E b \in Beat : SelectPending(b)
         \/ \E p \in Publisher : PublisherStep(p) \/ PublisherFault(p)
  PROVE  /\ rows' = rows /\ work' = work
         /\ \A j \in Job : ResultKept(j) /\ LeaseKept(j)
<1> USE DEF ResultKept, LeaseKept
<1>1. ASSUME NEW b \in Batch, BatchInsert(b)
      PROVE  rows' = rows /\ work' = work /\ \A j \in Job : ResultKept(j) /\ LeaseKept(j)
  BY <1>1 DEF BatchInsert, InsertJob, NoJob, TypeOK, JobRow
<1>2. ASSUME NEW b \in Batch, BatchDelayFails(b)
      PROVE  rows' = rows /\ work' = work /\ \A j \in Job : ResultKept(j) /\ LeaseKept(j)
  BY <1>2 DEF BatchDelayFails, TypeOK, JobRow
<1>3. ASSUME NEW b \in Batch, BatchCheck(b) \/ BatchDelay(b)
      PROVE  rows' = rows /\ work' = work /\ job' = job
  BY <1>3 DEF BatchCheck, BatchDelay, jobDb
<1>4. ASSUME NEW b \in Beat, SelectPending(b)
      PROVE  rows' = rows /\ work' = work /\ job' = job
  BY <1>4 DEF SelectPending
<1>5. ASSUME NEW p \in Publisher, PublisherStep(p) \/ PublisherFault(p)
      PROVE  rows' = rows /\ work' = work /\ job' = job
  BY <1>5 DEF PublisherStep, PublisherFault, BumpNext, Send, Mark, SendFails, MarkFails,
              PublisherCrash, jobDb
<1> QED BY <1>1, <1>2, <1>3, <1>4, <1>5, UnchangedJob DEF BatchStep

(* What passing time and the reconciler do to the job rows. *)
LEMMA TimeSteps ==
  ASSUME TypeOK, \/ \E j \in Job : BackoffElapsed(j) \/ LeaseExpires(j) \/ ReconcileFail(j)
                 \/ ReconcileRead \/ ReconcileAborts
  PROVE  /\ rows' = rows /\ work' = work
         /\ \A j \in Job : ResultKept(j) /\ LeaseKept(j)
<1> USE DEF ResultKept, LeaseKept
<1>1. ASSUME NEW j \in Job, LeaseExpires(j)
      PROVE  rows' = rows /\ work' = work /\ \A k \in Job : ResultKept(k) /\ LeaseKept(k)
  BY <1>1 DEF LeaseExpires, TypeOK, JobRow
<1>2. ASSUME NEW j \in Job, ReconcileFail(j)
      PROVE  rows' = rows /\ work' = work /\ \A k \in Job : ResultKept(k) /\ LeaseKept(k)
  BY <1>2 DEF ReconcileFail, TypeOK, JobRow
<1>3. ASSUME (\E j \in Job : BackoffElapsed(j)) \/ ReconcileRead \/ ReconcileAborts
      PROVE  rows' = rows /\ work' = work /\ job' = job
  BY <1>3 DEF BackoffElapsed, ReconcileRead, ReconcileAborts, jobDb
<1> QED BY <1>1, <1>2, <1>3, UnchangedJob

(* The steps of a worker that neither run the engine nor store or take     *)
(* back a result.                                                          *)
OtherWorkerStep(w) ==
  \/ DropDuplicate(w) \/ Claim(w) \/ NoResult(w) \/ FailJob(w) \/ FinalAudit(w)
  \/ GiveUp(w) \/ MarkRetrying(w) \/ PublishRetry(w) \/ Acknowledge(w)
  \/ DbError(w) \/ HandlerDbError(w) \/ SoftError(w) \/ PublishRetryFails(w)
  \/ HardKill(w) \/ WorkerLost(w) \/ \E m \in Message : Deliver(w, m)

(* What these steps do to the job rows. *)
LEMMA OtherWorkerSteps ==
  ASSUME TypeOK, NEW w \in Worker, OtherWorkerStep(w)
  PROVE  /\ rows' = rows
         /\ \A v \in Worker : work'[v] = work[v] \/ work'[v].pc \notin {"engine", "finish"}
         /\ \A j \in Job : ResultKept(j) /\ LeaseKept(j)
<1>0. /\ \A pc : Goto(w, pc) /\ pc \notin {"engine", "finish"} =>
           \A v \in Worker : work'[v] = work[v] \/ work'[v].pc \notin {"engine", "finish"}
      /\ Return(w) \/ Ack(w) =>
           \A v \in Worker : work'[v] = work[v] \/ work'[v].pc \notin {"engine", "finish"}
  <2>1. work \in [Worker -> WorkState]
    BY DEF TypeOK, WorkTypeOK
  <2>2. \A pc : Goto(w, pc) => \A v \in Worker : work'[v] = work[v] \/ work'[v].pc = pc
    BY <2>1 DEF WorkState, Goto
  <2>3. Return(w) \/ Ack(w) => \A v \in Worker : work'[v] = work[v] \/ work'[v].pc \in {"idle", "return"}
    <3> DEFINE s == [IdleWork EXCEPT !.pc = "return", !.msg = work[w].msg]
    <3>1. s.pc = "return" /\ IdleWork.pc = "idle"
      BY DEF IdleWork
    <3>2. Return(w) \/ Ack(w) => work' \in {[work EXCEPT ![w] = s], [work EXCEPT ![w] = IdleWork]}
      BY DEF Return, Ack
    <3> HIDE DEF s
    <3> QED BY <2>1, <3>1, <3>2
  <2> QED BY <2>2, <2>3
<1>1. CASE Claim(w)
  <2>1. \A j \in Job : ResultKept(j) /\ LeaseKept(j)
    BY <1>1 DEF Claim, TypeOK, JobRow, ResultKept, LeaseKept
  <2> QED BY <1>0, <1>1, <2>1 DEF Claim
<1>2. CASE FailJob(w)
  <2>1. \A j \in Job : ResultKept(j) /\ LeaseKept(j)
    BY <1>2 DEF FailJob, TypeOK, JobRow, ResultKept, LeaseKept
  <2> QED BY <1>0, <1>2, <2>1 DEF FailJob
<1>3. CASE GiveUp(w) \/ MarkRetrying(w)
  <2>1. \A j \in Job : ResultKept(j) /\ LeaseKept(j)
    <3>1. PICK s \in {"FAILED", "RETRYING"} : job' = [job EXCEPT ![work[w].msg.job].status = s]
      BY <1>3 DEF GiveUp, MarkRetrying, SetStatus
    <3>2. job \in [Job -> JobRow]
      BY DEF TypeOK
    <3> QED BY <3>1, <3>2 DEF JobRow, ResultKept, LeaseKept
  <2> QED BY <1>0, <1>3, <2>1 DEF GiveUp, MarkRetrying
<1>4. CASE \/ DropDuplicate(w) \/ NoResult(w) \/ FinalAudit(w) \/ PublishRetry(w) \/ Acknowledge(w)
  BY <1>0, <1>4, UnchangedJob DEF DropDuplicate, NoResult, FinalAudit, PublishRetry, Acknowledge
<1>5. CASE \/ DbError(w) \/ HandlerDbError(w) \/ SoftError(w) \/ PublishRetryFails(w)
           \/ HardKill(w) \/ WorkerLost(w)
  BY <1>0, <1>5, UnchangedJob DEF DbError, DbHandlers, HandlerDbError, SoftError,
                                  PublishRetryFails, HardKill, WorkerLost, At
<1>6. CASE \E m \in Message : Deliver(w, m)
  BY <1>6, UnchangedJob DEF Deliver, TypeOK, WorkTypeOK
<1> QED BY <1>1, <1>2, <1>3, <1>4, <1>5, <1>6 DEF OtherWorkerStep

(* Every step of the system is one of the above or runs the engine or      *)
(* stores a result.                                                        *)
ResultStep(w) ==
  EngineStart(w) \/ EngineEnd(w) \/ Finish(w) \/ Recover(w) \/ RefreshFails(w)

(* A step is one of a request, a publisher, a worker, time or the          *)
(* reconciler.                                                             *)
LEMMA StepCases ==
  ASSUME TypeOK, [Next]_vars
  PROVE  \/ /\ rows' = rows
            /\ \A v \in Worker : work'[v] = work[v] \/ work'[v].pc \notin {"engine", "finish"}
            /\ \A j \in Job : ResultKept(j) /\ LeaseKept(j)
         \/ \E w \in Worker : ResultStep(w)
<1>1. CASE UNCHANGED vars
  BY <1>1, UnchangedJob DEF vars
<1>2. CASE Next
  <2>1. ASSUME NEW w \in Worker, WorkerStep(w) \/ WorkerFault(w) \/ \E m \in Message : Deliver(w, m)
        PROVE  OtherWorkerStep(w) \/ ResultStep(w)
    BY <2>1 DEF WorkerStep, WorkerFault, OtherWorkerStep, ResultStep
  <2> QED BY <1>2, <2>1, RequestSteps, PublisherSteps, TimeSteps, OtherWorkerSteps DEF Next
<1> QED BY <1>1, <1>2

-----------------------------------------------------------------------------
(* RunningHasLease *)

(* Every step keeps the lease of RUNNING jobs. *)
LEMMA LeaseNext == TypeOK /\ RunningHasLease /\ [Next]_vars => RunningHasLease'
<1> SUFFICES ASSUME TypeOK, RunningHasLease, [Next]_vars PROVE RunningHasLease'
  OBVIOUS
<1>1. ASSUME \A j \in Job : LeaseKept(j) PROVE RunningHasLease'
  BY <1>1 DEF LeaseKept, RunningHasLease
<1>2. ASSUME NEW w \in Worker, ResultStep(w) PROVE \A j \in Job : LeaseKept(j)
  <2>0. job \in [Job -> JobRow]
    BY DEF TypeOK
  <2>1. CASE EngineStart(w) \/ EngineEnd(w) \/ RefreshFails(w)
    BY <2>0, <2>1, UnchangedJob DEF EngineStart, EngineEnd, RefreshFails
  <2>2. CASE Finish(w)
    BY <2>0, <2>2 DEF Finish, JobRow, LeaseKept
  <2>3. CASE Recover(w)
    BY <2>0, <2>3 DEF Recover, JobRow, LeaseKept
  <2> QED BY <1>2, <2>1, <2>2, <2>3 DEF ResultStep
<1> QED BY <1>1, <1>2, StepCases

(* A RUNNING job can always be found by the reconciler: no overlap of a    *)
(* reset, built from an old read, with a claim or a retry leaves one       *)
(* without started_at.                                                     *)
THEOREM LeaseHeld == Spec => []RunningHasLease
<1>1. Init => RunningHasLease
  BY DEF Init, RunningHasLease, NoJob
<1> QED BY <1>1, LeaseNext, TypeCorrect, PTL DEF Spec

-----------------------------------------------------------------------------
(* CompletedHasResult *)

Results == {"completed", "not_applicable"}

(* Two attempts never write the same Analysis row, and the row of a        *)
(* running engine is still "running": no attempt finds its result undone   *)
(* before it has stored it or taken it back itself.                        *)
EngineRows ==
  \A w \in Worker : At(w, {"engine"}) =>
    /\ work[w].row \in 1..Len(rows) /\ rows[work[w].row] = "running"
    /\ \A v \in Worker : At(v, {"engine"}) /\ work[v].row = work[w].row => v = w
FinishRows ==
  \A w \in Worker : At(w, {"finish"}) =>
    /\ work[w].row \in 1..Len(rows) /\ rows[work[w].row] \in Results
    /\ \A v \in Worker : At(v, {"finish"}) /\ work[v].row = work[w].row => v = w

ResultInv == EngineRows /\ FinishRows /\ CompletedHasResult

(* Steps that store no result keep ResultInv. *)
LEMMA ResultFrame ==
  ASSUME TypeOK, ResultInv, rows' = rows,
         \A v \in Worker : work'[v] = work[v] \/ work'[v].pc \notin {"engine", "finish"},
         \A j \in Job : ResultKept(j)
  PROVE  ResultInv'
<1>1. EngineRows'
  BY DEF ResultInv, EngineRows, At
<1>2. FinishRows'
  BY DEF ResultInv, FinishRows, At
<1>3. CompletedHasResult'
  BY DEF ResultInv, CompletedHasResult, ResultKept
<1> QED BY <1>1, <1>2, <1>3 DEF ResultInv

(* Starting an engine keeps ResultInv: the row is new. *)
LEMMA EngineStartInv ==
  ASSUME TypeOK, ResultInv, NEW w \in Worker, EngineStart(w)
  PROVE  ResultInv'
<1>0. job' = job /\ work \in [Worker -> WorkState] /\ rows \in Seq(RowStatus) /\ Len(rows) \in Nat
  BY LenProperties DEF EngineStart, TypeOK, WorkTypeOK
<1>1. CASE Goto(w, "fail") /\ UNCHANGED rows
  <2>1. \A v \in Worker : work'[v] = work[v] \/ work'[v].pc = "fail"
    BY <1>0, <1>1 DEF Goto, WorkState
  <2> QED BY <1>0, <1>1, <2>1, ResultFrame, UnchangedJob
<1>2. CASE /\ rows' = Append(rows, "running")
           /\ work' = [work EXCEPT ![w].pc = "engine", ![w].row = Len(rows) + 1]
  <2>1. /\ Len(rows') = Len(rows) + 1
        /\ \A i \in 1..Len(rows) : rows'[i] = rows[i]
        /\ rows'[Len(rows) + 1] = "running"
    BY <1>0, <1>2, AppendProperties DEF RowStatus
  <2>2. /\ \A v \in Worker \ {w} : work'[v] = work[v]
        /\ work'[w].pc = "engine" /\ work'[w].row = Len(rows) + 1
    BY <1>0, <1>2 DEF WorkState
  <2>3. EngineRows'
    BY <1>0, <2>1, <2>2 DEF ResultInv, EngineRows, At
  <2>4. FinishRows'
    BY <1>0, <2>1, <2>2 DEF ResultInv, FinishRows, At
  <2>5. CompletedHasResult'
    BY <1>0, <2>1 DEF ResultInv, CompletedHasResult
  <2> QED BY <2>3, <2>4, <2>5 DEF ResultInv
<1> QED BY <1>1, <1>2 DEF EngineStart

(* Ending an engine keeps ResultInv: only the worker's own row changes. *)
LEMMA EngineEndInv ==
  ASSUME TypeOK, ResultInv, NEW w \in Worker, EngineEnd(w)
  PROVE  ResultInv'
<1> DEFINE k == work[w].row
<1>0. job' = job /\ work \in [Worker -> WorkState] /\ rows \in Seq(RowStatus) /\ Len(rows) \in Nat
  BY LenProperties DEF EngineEnd, TypeOK, WorkTypeOK
<1>1. PICK r \in EngineOutcome :
        /\ rows' = [rows EXCEPT ![k] = r]
        /\ Goto(w, IF r \in {"failed", "running"} THEN "fail" ELSE "finish")
  BY DEF EngineEnd
<1>2. k \in 1..Len(rows) /\ rows[k] = "running"
      /\ \A v \in Worker : At(v, {"engine"}) /\ work[v].row = k => v = w
  BY DEF EngineEnd, ResultInv, EngineRows
<1>3. /\ Len(rows') = Len(rows) /\ rows'[k] = r
      /\ \A i \in 1..Len(rows) : i # k => rows'[i] = rows[i]
  <2>1. rows \in [1..Len(rows) -> RowStatus]
    BY <1>0, LenProperties
  <2> QED BY <1>0, <1>1, <1>2, <2>1, ExceptSeq
<1>4. /\ \A v \in Worker \ {w} : work'[v] = work[v]
      /\ work'[w].pc \in {"fail", "finish"} /\ work'[w].row = k
      /\ work'[w].pc = "finish" => r \in Results
  BY <1>0, <1>1 DEF Goto, WorkState, EngineOutcome, Results
<1> HIDE DEF k
<1>5. EngineRows'
  BY <1>2, <1>3, <1>4 DEF ResultInv, EngineRows, At
<1>6. FinishRows'
  <2>1. \A v \in Worker : At(v, {"finish"}) => work[v].row # k
    BY <1>2 DEF ResultInv, FinishRows, Results
  <2> QED BY <1>2, <1>3, <1>4, <2>1 DEF ResultInv, FinishRows, At
<1>7. CompletedHasResult'
  BY <1>0, <1>2, <1>3 DEF ResultInv, CompletedHasResult
<1> QED BY <1>5, <1>6, <1>7 DEF ResultInv

(* An error after the result is committed keeps ResultInv: the row is one  *)
(* only this attempt still has to store.                                   *)
LEMMA RefreshFailsInv ==
  ASSUME TypeOK, ResultInv, NEW w \in Worker, RefreshFails(w)
  PROVE  ResultInv'
<1> DEFINE k == work[w].row
<1>0. job' = job /\ work \in [Worker -> WorkState] /\ rows \in Seq(RowStatus) /\ Len(rows) \in Nat
  BY LenProperties DEF RefreshFails, TypeOK, WorkTypeOK
<1>1. \A v \in Worker : work'[v] = work[v] \/ work'[v].pc \notin {"engine", "finish"}
  BY <1>0 DEF RefreshFails, Goto, WorkState
<1>2. CASE rows' = rows
  BY <1>0, <1>1, <1>2, ResultFrame, UnchangedJob
<1>3. CASE rows' = [rows EXCEPT ![k] = "withdrawn"] /\ Goto(w, "fail")
  <2>1. /\ k \in 1..Len(rows) /\ rows[k] \in Results
        /\ \A v \in Worker : At(v, {"finish"}) /\ work[v].row = k => v = w
    BY DEF RefreshFails, ResultInv, FinishRows
  <2>2. /\ Len(rows') = Len(rows) /\ rows'[k] = "withdrawn"
        /\ \A i \in 1..Len(rows) : i # k => rows'[i] = rows[i]
    <3>1. rows \in [1..Len(rows) -> RowStatus]
      BY <1>0, LenProperties
    <3> QED BY <1>0, <1>3, <2>1, <3>1, ExceptSeq DEF RowStatus
  <2>3. ~At(w, {"engine", "finish"})'
    BY <1>0, <1>3 DEF Goto, WorkState, At
  <2> HIDE DEF k
  <2>4. EngineRows'
    <3>1. \A v \in Worker : At(v, {"engine"}) => work[v].row # k
      BY <2>1 DEF ResultInv, EngineRows, Results
    <3> QED BY <1>1, <2>2, <3>1 DEF ResultInv, EngineRows, At
  <2>5. FinishRows'
    <3>1. \A v \in Worker : At(v, {"finish"})' => v # w /\ work'[v] = work[v] /\ work[v].row # k
      BY <1>1, <2>1, <2>3 DEF At
    <3> QED BY <1>1, <2>2, <3>1 DEF ResultInv, FinishRows, At
  <2>6. CompletedHasResult'
    BY <1>0, <2>1, <2>2 DEF ResultInv, CompletedHasResult
  <2> QED BY <2>4, <2>5, <2>6 DEF ResultInv
<1> QED BY <1>2, <1>3 DEF RefreshFails

(* Finish and Recover: the two ways to store a result. *)
LEMMA StoreInv ==
  ASSUME TypeOK, ResultInv, NEW w \in Worker, NEW i \in 1..Len(rows), rows[i] \in Results,
         job' = [job EXCEPT ![work[w].msg.job].status = "COMPLETED",
                            ![work[w].msg.job].analysisId = i],
         rows' = rows,
         \A v \in Worker : work'[v] = work[v] \/ work'[v].pc \notin {"engine", "finish"}
  PROVE  ResultInv'
<1>1. EngineRows'
  BY DEF ResultInv, EngineRows, At
<1>2. FinishRows'
  BY DEF ResultInv, FinishRows, At
<1>3. \A j \in Job : \/ job'[j] = job[j]
                     \/ job'[j].analysisId = i
  BY DEF TypeOK, JobRow
<1>4. CompletedHasResult'
  BY <1>3 DEF ResultInv, CompletedHasResult, Results
<1> QED BY <1>1, <1>2, <1>4 DEF ResultInv

(* Every step keeps ResultInv. *)
LEMMA ResultNext == TypeOK /\ ResultInv /\ [Next]_vars => ResultInv'
<1> SUFFICES ASSUME TypeOK, ResultInv, [Next]_vars PROVE ResultInv'
  OBVIOUS
<1>0. work \in [Worker -> WorkState]
  BY DEF TypeOK, WorkTypeOK
<1>1. ASSUME NEW w \in Worker, Finish(w) PROVE ResultInv'
  <2>1. work[w].row \in 1..Len(rows) /\ rows[work[w].row] \in Results
    BY <1>1 DEF Finish, ResultInv, FinishRows
  <2>2. \A v \in Worker : work'[v] = work[v] \/ work'[v].pc \notin {"engine", "finish"}
    BY <1>0, <1>1 DEF Finish, Goto, WorkState
  <2> QED BY <1>1, <2>1, <2>2, StoreInv DEF Finish
<1>2. ASSUME NEW w \in Worker, Recover(w) PROVE ResultInv'
  <2> DEFINE i == Greatest(ResultsSince(work[w].msg.job))
  <2>1. i \in 1..Len(rows) /\ rows[i] \in Results
    BY <1>2, GreatestRow DEF Recover, ResultsSince, Results
  <2>2. \A v \in Worker : work'[v] = work[v] \/ work'[v].pc \notin {"engine", "finish"}
    <3> DEFINE s == [IdleWork EXCEPT !.pc = "return", !.msg = work[w].msg]
    <3>1. s.pc = "return" /\ work' = [work EXCEPT ![w] = s]
      BY <1>2 DEF Recover, Return, IdleWork
    <3> HIDE DEF s
    <3> QED BY <1>0, <3>1
  <2>3. job' = [job EXCEPT ![work[w].msg.job].status = "COMPLETED",
                           ![work[w].msg.job].analysisId = i] /\ rows' = rows
    BY <1>2 DEF Recover
  <2> HIDE DEF i
  <2> QED BY <2>1, <2>2, <2>3, StoreInv
<1> QED BY <1>1, <1>2, StepCases, ResultFrame, EngineStartInv, EngineEndInv, RefreshFailsInv
        DEF ResultStep

(* A COMPLETED job always points to the row of an engine run that came to  *)
(* a result.                                                               *)
THEOREM ResultStored == Spec => []CompletedHasResult
<1>1. Init => ResultInv
  BY DEF Init, ResultInv, EngineRows, FinishRows, CompletedHasResult, NoJob, IdleWork, At
<1>2. ResultInv => CompletedHasResult
  BY DEF ResultInv
<1> QED BY <1>1, <1>2, ResultNext, TypeCorrect, PTL DEF Spec

(* However its attempts are duplicated, redelivered, killed or disturbed   *)
(* by errors, the pipeline only does to the rows what run_engine does: it  *)
(* ends a row once, and withdraws a result at most.                        *)
THEOREM PipelineKeepsLedger == Spec => ImplementsLedger
<1>1. Init => ResultInv /\ Ledger!Init
  BY DEF Init, ResultInv, EngineRows, FinishRows, CompletedHasResult, NoJob, IdleWork, At, Ledger!Init
<1>2. TypeOK /\ ResultInv /\ [Next]_vars => [Ledger!Next]_rows
  <2> SUFFICES ASSUME TypeOK, ResultInv, [Next]_vars PROVE Ledger!Next \/ rows' = rows
    OBVIOUS
  <2>1. \A w \in Worker : EngineStart(w) => Ledger!Next \/ rows' = rows
    BY DEF EngineStart, Ledger!Next, Ledger!Open
  <2>2. ASSUME NEW w \in Worker, EngineEnd(w) PROVE Ledger!Next \/ rows' = rows
    <3>1. PICK r \in EngineOutcome : rows' = [rows EXCEPT ![work[w].row] = r]
      BY <2>2 DEF EngineEnd
    <3>2. work[w].row \in 1..Len(rows) /\ rows[work[w].row] = "running"
      BY <2>2 DEF EngineEnd, ResultInv, EngineRows
    <3>3. CASE r = "running"
      <4>1. rows = [i \in 1..Len(rows) |-> rows[i]]
        BY DEF TypeOK
      <4> QED BY <3>1, <3>2, <3>3, <4>1
    <3>4. CASE r \in {"completed", "not_applicable", "failed"}
      BY <3>1, <3>2, <3>4 DEF Ledger!Next, Ledger!End, Ledger!Result
    <3> QED BY <3>3, <3>4 DEF EngineOutcome
  <2>3. ASSUME NEW w \in Worker, RefreshFails(w) PROVE Ledger!Next \/ rows' = rows
    <3>1. work[w].row \in 1..Len(rows) /\ rows[work[w].row] \in Results
      BY <2>3 DEF RefreshFails, ResultInv, FinishRows
    <3> QED BY <2>3, <3>1 DEF RefreshFails, Ledger!Next, Ledger!Withdraw, Ledger!Result, Results
  <2>4. \A w \in Worker : Finish(w) \/ Recover(w) => rows' = rows
    BY DEF Finish, Recover
  <2> QED BY <2>1, <2>2, <2>3, <2>4, StepCases DEF ResultStep
<1> QED BY <1>1, <1>2, ResultNext, TypeCorrect, PTL DEF Spec, ImplementsLedger, Ledger!Spec

-----------------------------------------------------------------------------
(* Exclusive *)

(* What duplicates can be told apart by status and started_at alone: no    *)
(* database or task error, no lost worker, no expired lease, no reset and  *)
(* no batch call, whose failure handler writes a job others may hold.      *)
Quiet ==
  /\ Faults \cap {"db", "soft", "lost", "expire"} = {}
  /\ MaxRequeues = 0
  /\ Batch = {}

Holds(w, j) == At(w, {"prepare", "start", "engine", "finish", "fail"}) /\ work[w].msg.job = j

(* A worker holds a job only while the row says so, alone, and nothing     *)
(* that overrides the row is under way.                                    *)
Calm ==
  /\ \A w \in Worker : /\ ~At(w, {"inner", "outer", "outerFail", "retryInner", "retryOuter"})
                       /\ ~work[w].msg.redelivered
  /\ \A m \in Message : queue[m] > 0 => ~m.redelivered
  /\ \A a \in Api : pub[a].pc # "reset"
  /\ \A j \in Job : job[j].startedAt # "old" /\ ~job[j].queuedOld
  /\ stale = {}
HolderRuns == \A w \in Worker, j \in Job :
  Holds(w, j) => job[j].status = "RUNNING" /\ job[j].startedAt = "fresh"
OneHolder == \A v, w \in Worker, j \in Job : Holds(v, j) /\ Holds(w, j) => v = w

ExclusiveInv == Calm /\ HolderRuns /\ OneHolder

(* A step that changes no worker and, of jobs, only those nobody holds. *)
LEMMA HolderFrame ==
  ASSUME ExclusiveInv, Calm', work' = work,
         \A j \in Job : job'[j] = job[j] \/ job[j].status # "RUNNING"
  PROVE  ExclusiveInv'
BY DEF ExclusiveInv, HolderRuns, OneHolder, Holds, At

(* A step of one worker that leaves it without a job, or with the one it   *)
(* held before.                                                            *)
LEMMA ReleaseFrame ==
  ASSUME TypeOK, ExclusiveInv, Calm', NEW w \in Worker,
         \A v \in Worker \ {w} : work'[v] = work[v],
         \/ ~At(w, {"prepare", "start", "engine", "finish", "fail"})'
            /\ \A j \in Job : job'[j] = job[j] \/ Holds(w, j)
         \/ /\ At(w, {"prepare", "start", "engine", "finish", "fail"})
            /\ work'[w].msg = work[w].msg /\ job' = job
  PROVE  ExclusiveInv'
BY DEF ExclusiveInv, HolderRuns, OneHolder, Holds, At

(* A worker's step keeps ExclusiveInv when no error is handled. *)
LEMMA ExclusiveWorkerStep ==
  ASSUME Quiet, TypeOK, ExclusiveInv, NEW w \in Worker, WorkerStep(w)
  PROVE  ExclusiveInv'
<1> DEFINE busy == {"prepare", "start", "engine", "finish", "fail"}
<1>0. /\ work \in [Worker -> WorkState] /\ queue \in [Message -> Nat] /\ job \in [Job -> JobRow]
      /\ work[w].pc # "idle" => work[w].msg \in Message /\ work[w].msg.job \in Job
  BY StepTypes DEF TypeOK, WorkTypeOK, At
<1>1. ASSUME NEW pc \in {"prepare", "start", "finish", "fail", "audit", "failAudit"}, Goto(w, pc)
      PROVE  /\ work'[w].pc = pc /\ work'[w].msg = work[w].msg
             /\ \A v \in Worker \ {w} : work'[v] = work[v]
  BY <1>0, <1>1 DEF Goto, WorkState
<1>2. ASSUME Return(w) \/ Ack(w)
      PROVE  /\ work'[w].pc \in {"idle", "return"} /\ ~work'[w].msg.redelivered
             /\ \A v \in Worker \ {w} : work'[v] = work[v]
  <2> DEFINE s == [IdleWork EXCEPT !.pc = "return", !.msg = work[w].msg]
  <2>1. /\ s.pc = "return" /\ s.msg = work[w].msg /\ IdleWork.pc = "idle"
        /\ ~IdleWork.msg.redelivered
    BY DEF IdleWork, NoMessage
  <2>2. work' \in {[work EXCEPT ![w] = s], [work EXCEPT ![w] = IdleWork]}
    BY <1>2 DEF Return, Ack
  <2>3. ~work[w].msg.redelivered
    BY DEF ExclusiveInv, Calm
  <2> HIDE DEF s
  <2> QED BY <1>0, <2>1, <2>2, <2>3
<1>3. ASSUME UNCHANGED <<job, queue, outside>>,
             ~work'[w].msg.redelivered,
             ~At(w, {"inner", "outer", "outerFail", "retryInner", "retryOuter"})',
             \A v \in Worker \ {w} : work'[v] = work[v]
      PROVE  Calm'
  BY <1>3 DEF ExclusiveInv, Calm, outside, At
<1>4. ASSUME UNCHANGED <<queue, outside>>,
             ~work'[w].msg.redelivered,
             ~At(w, {"inner", "outer", "outerFail", "retryInner", "retryOuter"})',
             \A v \in Worker \ {w} : work'[v] = work[v],
             \A j \in Job : job'[j].startedAt \in {"fresh", job[j].startedAt}
                            /\ job'[j].queuedOld = job[j].queuedOld
      PROVE  Calm'
  BY <1>4 DEF ExclusiveInv, Calm, outside, At
<1>5. ~work[w].msg.redelivered
  BY DEF ExclusiveInv, Calm
<1>a. CASE DropDuplicate(w) \/ FinalAudit(w) \/ Acknowledge(w)
  <2>1. /\ UNCHANGED <<job, queue, outside>> /\ ~At(w, busy)'
        /\ (Return(w) \/ Ack(w))
    BY <1>a, <1>2 DEF DropDuplicate, FinalAudit, Acknowledge, At
  <2>2. Calm'
    BY <2>1, <1>2, <1>3 DEF At
  <2> QED BY <2>1, <2>2, <1>2, ReleaseFrame
<1>b. CASE Claim(w)
  <2> DEFINE k == work[w].msg.job
  <2>1. /\ k \in Job /\ ~IsDuplicate(work[w].msg) /\ UNCHANGED <<rows, queue, outside, faults>>
        /\ job' = [job EXCEPT ![k].status = "RUNNING", ![k].startedAt = "fresh"]
        /\ Goto(w, "prepare") /\ ~At(w, busy)
    BY <1>0, <1>b DEF Claim, At
  <2>2. \A v \in Worker : ~Holds(v, k)
    BY <2>1, <1>5 DEF IsDuplicate, ExclusiveInv, HolderRuns
  <2>3. /\ \A j \in Job \ {k} : job'[j] = job[j]
        /\ job'[k].status = "RUNNING" /\ job'[k].startedAt = "fresh"
        /\ job'[k].queuedOld = job[k].queuedOld
    BY <1>0, <2>1 DEF JobRow
  <2>4. Calm'
    <3>1. \A j \in Job : job'[j].startedAt \in {"fresh", job[j].startedAt}
                         /\ job'[j].queuedOld = job[j].queuedOld
      BY <2>3
    <3> HIDE DEF k
    <3> QED BY <2>1, <3>1, <1>1, <1>4, <1>5 DEF At
  <2>5. /\ \A v \in Worker, j \in Job : Holds(v, j)' => Holds(v, j) \/ (v = w /\ j = k)
        /\ \A j \in Job : ~Holds(w, j)
    BY <2>1, <1>1 DEF Holds, At
  <2> HIDE DEF k
  <2>6. HolderRuns'
    BY <2>2, <2>3, <2>5 DEF ExclusiveInv, HolderRuns
  <2>7. OneHolder'
    BY <2>2, <2>5 DEF ExclusiveInv, OneHolder
  <2> QED BY <2>4, <2>6, <2>7 DEF ExclusiveInv
<1>c. CASE Recover(w) \/ Finish(w) \/ FailJob(w)
  <2> DEFINE k == work[w].msg.job
  <2>1. /\ k \in Job /\ Holds(w, k) /\ UNCHANGED <<queue, outside>>
        /\ Return(w) \/ Goto(w, "audit") \/ Goto(w, "failAudit")
    BY <1>0, <1>c DEF Recover, Finish, FailJob, Holds, At
  <2>2. \A j \in Job : /\ job'[j] = job[j] \/ j = k
                       /\ job'[j].startedAt = job[j].startedAt
                       /\ job'[j].queuedOld = job[j].queuedOld
    BY <1>0, <1>c, <2>1 DEF Recover, Finish, FailJob, JobRow
  <2>3. /\ ~At(w, busy)' /\ ~work'[w].msg.redelivered
        /\ ~At(w, {"inner", "outer", "outerFail", "retryInner", "retryOuter"})'
        /\ \A v \in Worker \ {w} : work'[v] = work[v]
    BY <2>1, <1>1, <1>2, <1>5 DEF At
  <2> HIDE DEF k
  <2>4. Calm'
    BY <2>1, <2>2, <2>3, <1>4
  <2> QED BY <2>1, <2>2, <2>3, <2>4, ReleaseFrame
<1>d. CASE NoResult(w) \/ EngineStart(w) \/ EngineEnd(w)
  <2>1. /\ At(w, busy) /\ UNCHANGED <<job, queue, outside>>
    BY <1>d DEF NoResult, EngineStart, EngineEnd, At
  <2>2. /\ work'[w].pc \in {"start", "engine", "finish", "fail"} /\ work'[w].msg = work[w].msg
        /\ \A v \in Worker \ {w} : work'[v] = work[v]
    <3>1. CASE NoResult(w) \/ EngineEnd(w)
      BY <1>1, <3>1 DEF NoResult, EngineEnd
    <3>2. CASE EngineStart(w)
      BY <1>0, <1>1, <3>2 DEF EngineStart, WorkState
    <3> QED BY <1>d, <3>1, <3>2
  <2>3. Calm'
    BY <2>1, <2>2, <1>3, <1>5 DEF At
  <2> QED BY <2>1, <2>2, <2>3, ReleaseFrame
<1>e. CASE GiveUp(w) \/ MarkRetrying(w) \/ PublishRetry(w)
  BY <1>e DEF GiveUp, MarkRetrying, PublishRetry, ExclusiveInv, Calm, At
<1> QED BY <1>a, <1>b, <1>c, <1>d, <1>e DEF WorkerStep

(* A delivery keeps ExclusiveInv: a RUNNING job is dropped as a duplicate. *)
LEMMA ExclusiveDelivery ==
  ASSUME Quiet, TypeOK, ExclusiveInv, NEW w \in Worker,
         WorkerFault(w) \/ \E m \in Message : Deliver(w, m)
  PROVE  ExclusiveInv'
<1>0. work \in [Worker -> WorkState] /\ queue \in [Message -> Nat]
  BY DEF TypeOK, WorkTypeOK
<1>1. ASSUME NEW m \in Message, Deliver(w, m) PROVE ExclusiveInv'
  <2>1. /\ work'[w].pc = "claim" /\ ~work'[w].msg.redelivered
        /\ \A v \in Worker \ {w} : work'[v] = work[v]
        /\ UNCHANGED <<job, outside>>
        /\ \A n \in Message : queue'[n] > 0 => queue[n] > 0
    BY <1>0, <1>1 DEF Deliver, ExclusiveInv, Calm
  <2>2. Calm'
    BY <2>1 DEF ExclusiveInv, Calm, outside, At
  <2> QED BY <2>1, <2>2, ReleaseFrame DEF At
<1>2. CASE HardKill(w)
  <2>1. IdleWork.pc = "idle" /\ ~IdleWork.msg.redelivered
    BY DEF IdleWork, NoMessage
  <2>2. /\ work'[w] = IdleWork /\ UNCHANGED <<job, queue, outside>>
        /\ \A v \in Worker \ {w} : work'[v] = work[v]
    BY <1>0, <1>2 DEF HardKill, Ack
  <2>3. Calm'
    BY <2>1, <2>2 DEF ExclusiveInv, Calm, outside, At
  <2> QED BY <2>1, <2>2, <2>3, ReleaseFrame DEF At
<1>3. ~(\/ DbError(w) \/ HandlerDbError(w) \/ SoftError(w) \/ RefreshFails(w)
        \/ WorkerLost(w) \/ PublishRetryFails(w))
  BY DEF Quiet, Fault, DbError, HandlerDbError, SoftError, RefreshFails, WorkerLost, PublishRetryFails,
         ExclusiveInv, Calm, At
<1> QED BY <1>1, <1>2, <1>3 DEF WorkerFault

(* Requests and publishers keep ExclusiveInv. *)
LEMMA ExclusivePublishing ==
  ASSUME Quiet, TypeOK, ExclusiveInv,
         \/ \E a \in Api : (\E force \in BOOLEAN : QueueNew(a, force)) \/ RequestRead(a) \/ ApiStep(a)
         \/ \E b \in Beat : SelectPending(b)
         \/ \E p \in Publisher : PublisherStep(p) \/ PublisherFault(p)
  PROVE  ExclusiveInv'
<1>0. /\ pub \in [Publisher -> PubState] /\ queue \in [Message -> Nat] /\ job \in [Job -> JobRow]
      /\ Api \subseteq Publisher /\ Beat \subseteq Publisher
  BY DEF TypeOK, PubTypeOK, Publisher
<1>1. ASSUME NEW a \in Api, NEW force \in BOOLEAN, QueueNew(a, force) PROVE ExclusiveInv'
  <2> DEFINE k == Least(Unborn)
  <2>1. k \in Unborn
    <3>1. Unborn \subseteq 1..MaxJobs /\ Unborn # {} /\ MaxJobs \in Nat
      BY <1>1, BoundsAssumption DEF QueueNew, Unborn, Job
    <3> QED BY <3>1, LeastIn
  <2>2. job' = [job EXCEPT ![k] = [NoJob EXCEPT !.status = "QUEUED", !.queuedAt = Len(rows)]]
        /\ UNCHANGED <<work, queue, stale>>
    BY <1>1 DEF QueueNew, InsertJob
  <2>3. pub'[a].pc = "select" /\ \A q \in Publisher \ {a} : pub'[q] = pub[q]
    BY <1>0, <1>1 DEF QueueNew, IdlePub
  <2> HIDE DEF k
  <2>4. \A j \in Job : job'[j] = job[j] \/ job[j].status # "RUNNING"
    BY <1>0, <2>1, <2>2 DEF Unborn
  <2>5. Calm'
    BY <1>0, <2>1, <2>2, <2>3 DEF ExclusiveInv, Calm, At, NoJob
  <2> QED BY <2>2, <2>4, <2>5, HolderFrame
<1>2. ASSUME NEW a \in Api PROVE ~RequestRead(a) /\ ~RequestReset(a)
  <2>1. ~RequestReset(a)
    BY DEF RequestReset, ExclusiveInv, Calm
  <2>2. ASSUME RequestRead(a) PROVE FALSE
    <3>1. ExistingJob \in Job
      <4>1. ApiJobs # {} => Greatest(ApiJobs) \in Job
        BY GreatestIn, BoundsAssumption DEF ApiJobs, Job
      <4> QED BY <2>2, <4>1 DEF RequestRead, ExistingJob, TypeOK
    <3>2. job[ExistingJob].requeued \in Nat /\ job[ExistingJob].requeued < 0
      BY <1>0, <2>2, <3>1 DEF RequestRead, JobRow, Quiet
    <3> QED BY <3>2
  <2> QED BY <2>1, <2>2
<1>3. ASSUME NEW p \in Publisher, UNCHANGED <<job, work, stale>>,
             \A m \in Message : queue'[m] > 0 => queue[m] > 0 \/ ~m.redelivered,
             \A q \in Publisher \ {p} : pub'[q] = pub[q], pub'[p].pc # "reset"
      PROVE  ExclusiveInv'
  <2>1. Calm'
    BY <1>0, <1>3 DEF ExclusiveInv, Calm, At
  <2> QED BY <1>3, <2>1, HolderFrame
<1>4. ASSUME NEW j \in Job, Put(FreshMessage(j))
      PROVE  \A m \in Message : queue'[m] > 0 => queue[m] > 0 \/ ~m.redelivered
  BY <1>0, <1>4 DEF Put, FreshMessage
<1>5. ASSUME NEW a \in Api, SelectOwn(a) PROVE ExclusiveInv'
  <2>1. /\ UNCHANGED <<job, work, stale, queue>> /\ pub'[a].pc # "reset"
        /\ \A q \in Publisher \ {a} : pub'[q] = pub[q]
    BY <1>0, <1>5 DEF SelectOwn, IdlePub, PubState
  <2> QED BY <1>0, <1>3, <2>1
<1>6. ASSUME NEW b \in Beat, SelectPending(b) PROVE ExclusiveInv'
  <2>1. /\ UNCHANGED <<job, work, stale, queue>> /\ pub'[b].pc # "reset"
        /\ \A q \in Publisher \ {b} : pub'[q] = pub[q]
    BY <1>0, <1>6 DEF SelectPending, IdlePub
  <2> QED BY <1>0, <1>3, <2>1
<1>7. ASSUME NEW p \in Publisher, PublisherStep(p) \/ PublisherFault(p) PROVE ExclusiveInv'
  <2>1. UNCHANGED <<job, work, stale>>
    BY <1>7 DEF PublisherStep, PublisherFault, BumpNext, Send, Mark, SendFails, MarkFails,
                PublisherCrash, jobDb
  <2>2. \A m \in Message : queue'[m] > 0 => queue[m] > 0 \/ ~m.redelivered
    <3>1. CASE Send(p) \/ SendFails(p)
      <4>1. pub[p].job \in Job
        BY <3>1 DEF Send, SendFails, TypeOK, PubTypeOK
      <4> QED BY <3>1, <4>1, <1>4 DEF Send, SendFails
    <3>2. CASE BumpNext(p) \/ Mark(p) \/ MarkFails(p) \/ PublisherCrash(p)
      BY <3>2 DEF BumpNext, Mark, MarkFails, PublisherCrash
    <3> QED BY <1>7, <3>1, <3>2 DEF PublisherStep, PublisherFault
  <2>3. pub'[p].pc # "reset" /\ \A q \in Publisher \ {p} : pub'[q] = pub[q]
    <3>1. NextRow(p) => pub'[p].pc \in {"idle", "bump"} /\ \A q \in Publisher \ {p} : pub'[q] = pub[q]
      BY <1>0 DEF NextRow, IdlePub, PubState
    <3> QED BY <1>0, <1>7, <3>1 DEF PublisherStep, PublisherFault, BumpNext, Send, Mark, SendFails,
                MarkFails, PublisherCrash, IdlePub, PubState
  <2> QED BY <1>3, <2>1, <2>2, <2>3
<1> QED BY <1>1, <1>2, <1>5, <1>6, <1>7 DEF ApiStep

(* Kills and time keep ExclusiveInv. *)
LEMMA ExclusiveTime ==
  ASSUME Quiet, TypeOK, ExclusiveInv,
         \/ \E j \in Job : BackoffElapsed(j) \/ LeaseExpires(j) \/ ReconcileFail(j)
         \/ ReconcileRead \/ ReconcileAborts
  PROVE  ExclusiveInv'
<1>1. ASSUME NEW j \in Job, BackoffElapsed(j) PROVE ExclusiveInv'
  <2>1. UNCHANGED <<job, work, queue, pub, stale>>
    BY <1>1 DEF BackoffElapsed
  <2>2. Calm'
    BY <2>1 DEF ExclusiveInv, Calm, At
  <2> QED BY <2>1, <2>2, HolderFrame
<1>2. ~(\E j \in Job : LeaseExpires(j) \/ ReconcileFail(j)) /\ ~ReconcileRead /\ ~ReconcileAborts
  BY DEF LeaseExpires, ReconcileFail, ReconcileRead, ReconcileAborts, IsStale, Fault, Quiet,
         ExclusiveInv, Calm
<1> QED BY <1>1, <1>2

(* Every step of a quiet pipeline keeps ExclusiveInv. *)
LEMMA ExclusiveNext == Quiet /\ TypeOK /\ ExclusiveInv /\ [Next]_vars => ExclusiveInv'
<1> SUFFICES ASSUME Quiet, TypeOK, ExclusiveInv, [Next]_vars PROVE ExclusiveInv'
  OBVIOUS
<1>1. CASE UNCHANGED vars
  BY <1>1 DEF vars, ExclusiveInv, Calm, HolderRuns, OneHolder, Holds, At
<1>2. CASE Next
  <2>1. Batch = {}
    BY DEF Quiet
  <2> QED BY <1>2, <2>1, ExclusiveWorkerStep, ExclusiveDelivery, ExclusivePublishing,
             ExclusiveTime DEF Next
<1> QED BY <1>1, <1>2

(* However many publishers, workers and copies of a message there are, and *)
(* wherever publishers die or workers are killed: a job is executed by one *)
(* worker at a time as long as Quiet holds. What breaks it without, is     *)
(* shown by the run overlap.                                               *)
THEOREM ExclusiveWhenQuiet ==
  ASSUME Quiet
  PROVE  Spec => []Exclusive
<1>1. Init => ExclusiveInv
  BY DEF Init, ExclusiveInv, Calm, HolderRuns, OneHolder, Holds, At, NoJob, IdleWork, NoMessage, IdlePub, Publisher
<1>2. TypeOK /\ ExclusiveInv => Exclusive
  BY DEF ExclusiveInv, OneHolder, Holds, Exclusive, Executing, At
<1>3. TypeOK /\ ExclusiveInv /\ [Next]_vars => ExclusiveInv'
  BY ExclusiveNext
<1> QED BY <1>1, <1>2, <1>3, TypeCorrect, PTL DEF Spec
=============================================================================
