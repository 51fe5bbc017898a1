# ForenSight: TLA+ models, checks and proofs

ForenSight is an image forensics platform: a FastAPI backend with a relational
database (PostgreSQL in the deployment, SQLite in the tests), Celery workers
behind a Redis broker, and a React frontend. Investigators open cases, upload
evidence, queue forensic analyses of it, and review what the engines find; every
step leaves an event in a per-case hash-chained audit log.

This directory holds TLA+ modules of the parts of the backend whose correctness
depends on order, concurrency and failure, TLC configurations that check them on
small instances, and TLAPS proofs of the results that matter most. Of the
forensic engines they hold what decides: the gates, thresholds, rankings, files
and observations; what is measured on the pixels is a choice among the values
that the decisions tell apart.

    tlc -workers 2 -config Jobs_faults.cfg MCAnalysisJobs.tla # any run below
    tlapm AnalysisJobsProofs.tla                              # any *Proofs module

## 1. Inventory

Paths are relative to `src/backend/app/` unless they start with `src/`.

| Component | State it keeps | Operations | What is hard |
|---|---|---|---|
| Analysis job queue `api/jobs.py` | `AnalysisJob` rows, unique `request_hash`, one `AnalysisJobOutbox` row per job | `queue_analysis_job`: find, reset or insert job and outbox row under an advisory lock on the hash | a FAILED job read without a lock is reset later, while old messages of it are delivered |
| Outbox dispatcher `services/job_dispatch.py` | `dispatched_at`, `attempts`, `available_at` of outbox rows | `publish_pending_analysis_jobs(job_id?)`, called by the API thread and by Celery Beat every 15 s | the attempt's commit releases the row locks of the whole batch; crash before and after the send; sends of doubtful outcome |
| Analysis worker `workers/analysis_worker.py` | `AnalysisJob.status`, `started_at`, `analysis_id` | `run_analysis_task`: claim, recover an earlier result, run the engine, store, audit; three layers of exception handlers; `self.retry` | at-least-once delivery, late acknowledgement, time limits, retries counted in the message |
| Reconciler (same file) | the jobs it has read | `reconcile_stale_analysis_jobs`, every 60 s | fails jobs by id whatever they have become since the read |
| Batch service `services/batch.py` | `AnalysisJob` rows without outbox | `queue_batch_analysis`, `import_batch`, `get_batch_status` | commit, then a direct send; checks without lock |
| Engine runner `engine_extensions/runner.py`, `forensics/*/analyzer.py` | `Analysis` rows with artifacts and observations | insert `running`, run, commit `completed`, `failed` or `not_applicable`, refresh | crash between the two commits; handlers that also cover what follows the second |
| Engines `engine_extensions/*/` (18), legacy analyzers (5) | files under `storage/analyses/<engine>` | applicability, decoding, measurement, files, observations | file names shared between runs; writes that fail silently; rounding and ranking at thresholds; damaged files |
| Camera references `engine_extensions/camera/camera_reference_library.py` | one directory per reference and case: fingerprint and metadata | store, list, read, delete | files come and go one by one while a run reads them |
| Audit log `services/audit.py` | `AuditEvent` rows with `sequence_number`, `previous_hash`, `event_hash` | `log_event` (append and commit), chain verification | concurrent appenders; the append commits its caller's pending changes |
| Evidence ingestion `services/evidence.py` | files under storage, `Evidence` rows | stage, verify, replace, commit | crash between the rename and the commit |
| Fusion `forensics/fusion/`, `api/fusion.py` | `Observation`, `ObservationCorrelation`, `EvidenceAssessment` rows | normalize, correlate, assess | regeneration deletes rows others refer to |
| Findings `services/correlation.py`, `services/findings.py` | `Finding` rows with a review status | generate, review | two generators insert the same finding; two reviews of one finding |
| Case export `services/case_export.py` | archives under storage | read a dozen tables, write and sign an archive | no common snapshot |
| Case import `src/backend/scripts/import_case_bundle.py` | staged and imported directories, all rows of a new case | verify, stage, insert, rebuild the audit chain, move, commit | rows, history and event share one commit that `log_event` makes; clean-up after errors |
| Authentication `api/auth.py`, `api/deps.py` | users, sessions, refresh tokens, lock-out counters | login, refresh with rotation, logout, second factor | refresh racing refresh, reuse detection |
| Lineage `services/lineage.py`, `api/lineage.py` | `EvidenceLineageRelation` rows, one per pair of images, with a review | refresh (compare, upsert), review | no row lock; a flush writes the changed columns only; the event of a review is made of the row re-read after the commit |
| Cases, notes `api/cases.py`, `services/cases.py`, `services/notes.py` | `Case`, `Note` rows | CRUD with an audit event | only the audit log's |
| Custody, processing history, graph, search, heat maps, reports, manifest, replay, assistant | none | views over the tables | none |
| Provenance `services/c2pa_provenance.py` | none | runs an external tool | none |
| Benchmark `benchmark/` | files | sequential evaluation of the engines | none |
| Frontend `src/frontend/src/` | the browser's session | calls the API, polls jobs | token refresh |

How they interact: an API thread commits a job and its outbox row and then
publishes the row itself; Beat publishes what is still due. The broker (Redis,
Celery) delivers each message to some worker, at least once. The worker claims
the job row, calls the engine runner, which writes `Analysis` rows, and stores the
row's id in the job. The reconciler fails jobs whose lease has run out. Clients
poll the job and ask again for a failed one, which resets it. Observations,
correlations, assessments and findings are computed from `Analysis` rows on
request. All of them append to the audit log through `log_event`, which commits.

PROJECT.json lists the components with the modules that cover them, and the
hazards with the line where each bites.

## 2. What correct means

* **Jobs.** An accepted job is settled in the end. No job is lost between the
  database and the broker. A COMPLETED job points to a finished result of an
  engine, not older than the request. One worker executes a job at a time. A
  submission stores at most one completed result.
* **Audit log.** Numbers of a case are consecutive and the hash chain verifies,
  whoever appends at the same time.
* **Storage.** A committed row always has its file; a failed upload or import
  leaves no file behind; an imported case is complete, with its audit chain, or
  absent.
* **Engine runs.** A row that was started is ended, once; what a completed row
  records is there and comes from its run; a run that did not complete leaves
  nothing behind that is read as a result.
* **Engines.** A verdict follows from the measurements by the documented
  thresholds; a well-formed file shows no anomaly, of however many scans, and a
  damaged one does (`several_scans` shows that the first is not so); an estimate
  finds the parameter that the file was written with.
* **Derived records.** A relation refers to stored observations, a rerun replaces
  what it computed before, an assessment is of the relations that are stored, and
  a bundle refers to rows it holds.
* **Findings.** Generation neither doubles a finding nor undoes a review, and each
  finding and each review has its audit event.
* **Lineage.** A refresh stores every pair that it counts and takes back no review;
  what a reviewed link shows, and what an analyst decided, is in the audit trail.
* **Sessions.** A code and a refresh token are used once; failures lock the
  account; a logout ends its session (`logout_missed` shows when it does not) and a
  revocation is final; tabs that take turns keep their session.

## 3. Modules

### AnalysisJobs

One evidence file and one analysis type: API threads, batch calls, publishers,
workers and the reconciler over the shared tables and the broker. One action is
one database transaction or one call to the broker; what a handler does between
two of them is interleaved with everything else.

| Variable | Code |
|---|---|
| `job` | `AnalysisJob` rows (`models/domain.py:183-207`). `queued_at` is the number of `Analysis` rows at that moment, which is all the filter `created_at >= queued_at` compares; `queuedOld` and `startedAt = "old"` say that the reconciler's 900 s have passed. `requeued` counts resets |
| `canonical` | the job holding the unforced `request_hash` |
| `outbox` | `"due"` (`available_at <= now`), `"backoff"`, `"dispatched"` (`dispatched_at` set), `"none"` for a batch job |
| `rows` | statuses of the `Analysis` rows in id order; `"withdrawn"` for a result that its handler has failed after the commit |
| `queue` | the broker: a bag of messages `[job, retries, redelivered]` |
| `pub`, `work` | where a thread or worker is between two transactions, with what it has read |
| `stale` | what the reconciler has read |
| `faults` | faults so far, bounded by `MaxFaults` |

| Actions | Code |
|---|---|
| `QueueNew`, `RequestRead`, `RequestReset` | `api/jobs.py` `queue_analysis_job` |
| `BatchCheck`, `BatchInsert`, `BatchDelay`, `BatchDelayFails` | `services/batch.py` `queue_batch_analysis` |
| `SelectOwn`, `SelectPending`, `BumpNext`, `Send`, `SendFails`, `Mark`, `MarkFails`, `BackoffElapsed` | `services/job_dispatch.py` |
| `PublisherCrash` | a publisher dies between any two steps |
| `Deliver`, `DropDuplicate`, `Claim`, `Recover`, `NoResult`, `Finish`, `FinalAudit`, `FailJob` | `run_analysis_task` |
| `EngineStart`, `EngineEnd`, `RefreshFails` | `engine_extensions/runner.py` `run_engine`. The row stays running when the engine raises a ValueError (118-119); an error between the commit of a result and its refresh fails the row (115-126) |
| `DbError`, `SoftError`, `HandlerDbError`, `GiveUp`, `MarkRetrying`, `PublishRetry`, `PublishRetryFails` | the exception handlers, inner (157-172) and outer (206-238) |
| `Acknowledge`, `HardKill`, `WorkerLost` | `acks_late`, `time_limit`, `reject_on_worker_lost` |
| `LeaseExpires`, `ReconcileRead`, `ReconcileFail`, `ReconcileAborts` | the reconciler |

An SQLAlchemy update writes only the columns that differ from what was read:
`RequestReset` therefore keeps a `started_at` set after a read of NULL, and
`ReconcileFail` writes the status alone. The branch for missing evidence
(`analysis_worker.py:61-67`) is left out: nothing in the program deletes
evidence. `LeaseExpires` does not happen while an attempt runs, because the hard
limit of 330 s ends it before the 900 s of the lease (`core/config.py:25-27`).
`DbHandlers` says where a database error is caught: the engine makes one of its last
commit an unexpected error, but one of reading back a row reaches the worker as it is.
Redis' visibility timeout (3600 s) is longer than both and is not modelled.

### JobService

What a client relies on: an open job ends done or failed, a failed one may be
opened again, a done one stays done, and a submission stores at most one result.
AnalysisJobs maps its statuses to `phase` and counts the completed rows since the
last queueing as `results`; `ImplementsService` is the refinement.

### RunLedger

What the pipeline relies on in the table of engine runs: a row is added as running
and never removed, it is ended at most once, and a result can be withdrawn but
neither replaced nor brought back. AnalysisJobs, which abstracts the engines to
`EngineStart`, `EngineEnd` and `RefreshFails`, and EngineRuns, which has them in
detail, both implement it (`ImplementsLedger` in each): a row is withdrawn in
EngineRuns when its caller was left by a failing refresh.

### AuditTrail

The hash chain of every case on PostgreSQL: `log_event` (`services/audit.py:39-81`)
in the steps that other sessions can come between, and the part of `import_bundle`
that writes the history of a new case without the lock.

| Variable | Code |
|---|---|
| `events` | committed `AuditEvent` rows (`models/domain.py:223-235`) as `[case, seq, prev, id]` |
| `at` | where a session is in `log_event` or in the import's loop |
| `draft` | the row in the making: `sequence_number`, `previous_hash`, `id` |
| `own` | rows a session has inserted but not committed: only its own queries see them |
| `nextId` | the sequence of `audit_events.id`; a rollback does not give ids back |

`LogEvent`, `Acquire` (`pg_advisory_xact_lock`, held until commit or rollback),
`ReadLatest`, `Draw` (`nextval`), `Commit`, `Return`, `Rollback` and
`RaiseAfterCommit` follow the code line by line. The last two differ in what is
stored when the caller sees the exception. `StartImport`, `AddHistory` and
`EndHistory` are the import's.

The hash covers the id, so two events have the same hash only if they have the
same id: `prev` is the id whose hash `previous_hash` repeats, and 0 for the
genesis hash. The timestamp is drawn with the id and not modelled. Events without
a case form one more chain. A statement sees what is committed when it starts
(READ COMMITTED), which is what makes the read after the lock current. The SQLite
branch, a process-wide lock for tests and development, is not modelled.

### EvidenceStore

Extends AuditTrail with what uploads and imports do around their audit event: the
bitstreams in the storage directory and the rows that point to them.

| Variable | Code |
|---|---|
| `staging` | `.ingest-*.part` files, `.staging-*` directories |
| `files` | files and `imported/` directories under their final name |
| `rows` | the files and imported cases with committed rows |
| `task` | where a session is in `upload_evidence` or `import_bundle`, and with which item |
| `seen` | history: which kinds of fault have occurred |

| Actions | Code |
|---|---|
| `Stage`, `Refuse`, `Move`, `StoreRow`, `StoreRowFails`, `RefreshFails` | `services/evidence.py:18-117` |
| `LogUpload` | `api/cases.py:107-112`; from an idle session, `log_event` called by any other handler |
| `StageImport`, `MoveImport`, `CommitAll`, `Finish`, `AppendFails` | `import_bundle`, its call of `log_event` and its clean-up |
| `AppendStep` | the steps of `log_event` and of the history loop that touch neither files nor rows |
| `Crash` | the process dies anywhere: the database rolls back, files stay |

A file and the rows of its case are one item: the import moves one directory and
commits once. The checks of an upload's content are the choice between `Refuse`
and `Move`, those of a bundle that between going on and `AppendFails`. `Fault`
names three kinds: an `error` before the commit or at the read-back of an
upload, a `doubt` (an exception although the commit has stored the rows), a
`crash`. Failures of `os.remove` and `rmtree` are ignored, as in the code.

### FusionRules and CaseRecords

One evidence item, its analyses and what is derived from them. FusionRules holds
the pure part: what each analyzer writes into `structured_findings`, what each
adapter reads of it, the relations, families and levels, the rules of the
findings and the transitions of a review. An image is the set of the traits that
its analyses measure; a path that nobody writes yields the reader's default, as
in the code. An extension engine stores its observation itself, "elevated" or not;
the assessment lists it, and no family or relation counts it. CaseRecords cuts the requests at their database statements.

| Variable | Code |
|---|---|
| `anl` | the status of each `Analysis` row |
| `obs`, `rel`, `assess`, `find` | committed observations, relations, assessments, findings (`models/domain.py`) |
| `announced`, `reviews` | `FINDING_GENERATED` and review events |
| `at`, `mem` | the next statement of each request and what it has read |
| `target`, `held` | the rows a `DELETE` found, and those it removed without having committed |
| `served`, `fails` | bounds; `overlapped`, `refused`, `dropped`, `cut`: history for the properties |

| Actions | Code |
|---|---|
| `Normalize`, `NormSelect`, `NormRemove`, `NormCheck`, `NormStore` | `forensics/fusion/normalizer.py` |
| `Correlate`, `CorrSelect`, `CorrRemove`, `CorrNothing`, `CorrStore`, `CorrRefused` | `forensics/fusion/correlation/engine.py` |
| `AssessObs`, `AssessRel`, `AssessSelect`, `AssessRemove`, `AssessStore` | `forensics/fusion/assessment/engine.py`, in the same session |
| `Evaluate`, `EvalObs`, `EvalSkip`, `EvalUpdate`, `EvalInsert`, `EvalLost`, `EvalEnd` | `services/correlation.py` `evaluate_evidence`; `EvalInsert` includes the commit of `log_event` |
| `Review`, `ReviewWrite`, `ReviewAppend` | `services/findings.py` |
| `Export`, `ExportObs` ... `ExportEnd` | the reads of `services/case_export.py` that refer to each other |
| `StartAnalysis`, `EndAnalysis` | the workers |
| `Error`, `Deadlock` | any statement fails; PostgreSQL ends one of two requests that wait for each other |

The database runs at READ COMMITTED. A `DELETE` finds rows, waits until nobody
holds one of them, and removes those that are still there: two steps, so that
another commit fits between. The foreign keys of the relations are checked when
the `DELETE` ends, and an insert waits for a row another transaction is removing.
A commit expires the objects of the session: what an evaluation reads after its
first insert is the current row, or `EvalLost` if there is none. A flush writes
only the columns that were set.

### AuthSessions

One user whose browser has several tabs, with shared cookies (`api/auth.py`,
`api/deps.py`, and `fetchApi`, `refreshApiSession` and the logout of the frontend).
Handlers are cut where their transactions wait for a row.

| Variable | Code |
|---|---|
| `pw`, `mfa` | `auth_failed_attempts`, `auth_locked_until`, `mfa_failed_attempts`, `mfa_locked_until` |
| `enabled`, `last`, `codes` | `totp_enabled`, `totp_last_step`, `totp_recovery_hashes` |
| `sess` | session rows: current and previous token, revoked, expiry |
| `jar` | the cookies, shared by the tabs |
| `at`, `mem` | what a tab's request does next and what it holds |
| `now`, `requests`, `fails`, `sessions`, `tokens` | time and bounds |
| `wrong`, `used`, `rotated`, `signedOut`, `blamed`, `mishap`, `astray`, and `meant` in `mem` | history for the properties |

| Actions | Code |
|---|---|
| `Login`, `LoginRead`, `LoginRefused`, `LoginAccepted` | `login_access_token`, `_record_failed_auth` |
| `Verify`, `VerifyRead`, `VerifyRefused`, `VerifyAccepted`, `Abandon` | `verify_mfa_challenge`, `_consume_mfa_code`, `_record_failed_mfa` |
| `Issue`, `Receive` | `_issue_session`, the answer that sets the cookies |
| `Call`, `RefreshSend`, `RefreshRead`, `RefreshEnded`, `RefreshRotate`, `RefreshReuse` | `get_current_user` refuses, the tab refreshes: `refresh_session` |
| `Logout`, `LogoutFound`, `LogoutNothing`, `LogoutWrite`, `LogoutReply`, `Revoke`, `RevokeWrite` | `logout`, `revoke_session` |
| `Tick`, `Fail` | time passes; a request is cut off, its transaction rolled back, its answer lost |

A row lock needs no variable: the user row is held by the tab between its
`SELECT ... FOR UPDATE` and its commit (`UserFree`), a session row likewise
(`RowFree`). A statement that waited evaluates its condition on what was committed
meanwhile. The refresh token and the CSRF token are always set and compared
together and are one token. The access cookie lives one tick of time.

What a logout means is a session, the one whose cookies the tab sends (`meant`); what
the code looks for is a token (`auth.py:349`). `signedOut` are the sessions meant by
the logouts that were answered, `astray` those of which a refresh met a logout (was
under way when it was sent, or was sent before it was read) or lost its answer, so
that the browser's token is not the current one. The run `logout_missed` states
`LogoutEnds` of all that was meant, the run `sessions` `LogoutEndsAlone` of what
did not go astray: there another tab's sign-in, revocation or refresh of another
session, the end of a cookie or of the session come between the logout's read and
its write.

### EngineContract, the engine families and Engines

`EngineContract` says what an engine is given and returns; each engine `E` is four
operators: `EGates` (which early return ends it), `EFacts` (what it can measure,
reduced to what its decisions tell apart), `EFiles` (what it writes, in order),
`EObserved` (metrics and directions).

| Module | Engines |
|---|---|
| `CompressionEngines` | BLOCKING-ARTIFACT, JPEG-GHOST, ADJPEG, NADJPEG |
| `SignalEngines` | ADVANCED-NOISE, RESAMPLING, HISTOGRAM, COLOR-CHANNEL, FOURIER |
| `CloneEngines` | CLONE-BLOCK, CLONE-KEYPOINT |
| `JpegStream`, `JpegEngines` | JPEG-STRUCTURE, JPEG-QT, JPEG-HUFFMAN |
| `SourceEngines` | PRNU, CAMERA-ID |
| `SceneEngines` | GEOMETRY-PERSPECTIVE, PHYSICS-LIGHTING |
| `LegacyAnalyzers` | metadata, ELA, noise residual, JPEG DCT, copy-move |
| `Engines` | the registry: each engine under its name |

Fractions are integers in the unit the comment names, one value on each side of a
threshold and one on it. `JpegStream` is the marker parser as a fold over tokens
(`jpeg/parser.py`: two nested loops, the inner one of which ends both), and the
estimate of the quality (`jpeg/qt_engine.py`) with the table that libjpeg writes.
What a well-formed stream is follows the documents and T.81, not the parser:
`Matching` (the list of flaws of src/docs/JPEG_STRUCTURE_ANALYSIS.md:14: EOI at the
end, no malformed segment, one frame header with its tables, no data before the
first scan) and `Framed`, which adds the order of a frame with any number of scans.
`Nominal` is the parser's verdict.

### EngineRuns

Callers (a request thread or a worker) that run engines on evidence: rows, files
and the library of camera references.

| Variable | Code |
|---|---|
| `scene` | constant of a behaviour: the images, who runs which engines, which references move |
| `rows` | `Analysis` rows with the recorded files and the observations |
| `disk` | each file name, and the run that wrote it last |
| `lib` | the directory of each reference, which is written and deleted file by file |
| `run` | where each caller is, with what it has measured, compared and recorded |
| `faults` | faults so far |

| Actions | Code |
|---|---|
| `Begin`, `Execute` | `run_engine` up to the engine's gates; `Refused` are the checks before the row |
| `Compare`, `Judge` | CAMERA-ID: the references are listed, then read one by one; ranking and verdict |
| `Write`, `Written`, `WriteFails`, `WriteLost` | the files; `cv2.imwrite` that reports a failure in a result nobody reads |
| `Commit`, `CommitFails`, `Refresh`, `RefreshFails` | the second commit, the refresh and the handler that covers both |
| `Crash` | the process dies |
| `Library` | `save_reference`, `delete_reference` |

### Lineage

The candidate links between the images of a case (`services/lineage.py`,
`api/lineage.py`): refreshes that compare the images and store a row for each pair
that matches, next to analysts who review the rows and uploads that add images.

| Variable | Code |
|---|---|
| `stored` | the images of the case |
| `link` | `EvidenceLineageRelation` per pair, unique (`models/domain.py:87`): kind, status, parent, reviewer |
| `trail`, `refreshes` | the events IMAGE_LINEAGE_REVIEWED and IMAGE_LINEAGE_REFRESHED |
| `at`, `refresh`, `review`, `told` | the next statement of each request and the objects of its session |
| `served`, `fails` | bounds |
| `answered`, `crossed`, `clashed`, `refused`, `lost` | history for the properties |

| Actions | Code |
|---|---|
| `RefreshBegin`, `RefreshFind` | `refresh_case`: the images and their comparison (`Compare`, from the traits of a pair that decide); one query per matching pair |
| `RefreshCommit`, `RefreshRefused` | the flush of all pairs in one commit, or the unique constraint refuses it |
| `ReviewBegin`, `ReviewWrite` | `review_lineage_relation`: read and checks (`Acceptable`, `DecidedParent`); the flush of the changed columns (`Changed`) |
| `ReviewReread`, `ReviewLog`, `RefreshLog` | the expired row is read again for the metadata of the event; `log_event` |
| `Error` | any statement of a request fails, or its process dies |
| `Upload` | an image is added to the case |

No statement of these handlers locks a row, and autoflush is off
(`db/database.py:9`), so that between the read of a row and the commit that writes
it every other request may go on.

## 4. Runs

The `MC*` modules instantiate the modules; workers, sessions, files, tabs and
requests are symmetric in the runs of invariants (`engine_runs` has no symmetry:
its scenes name callers). Deadlock is checked in `engine_runs`, whose end is the
action `Finished`; the other models stop when all is settled or a bound is used up.

| Run | Question | Instance | States |
|---|---|---|---|
| `faults` | `CompletedHasResult`, `RunningHasLease`, `FreshResult` | 2 workers, 1 retry, no expired lease; one job of a request, 1 requeue, two faults of any kind; then a second job, API and Beat publish in turn, one worker at a time, one fault | 1.8 M |
| `deliveries` | `Exclusive`, `DispatchCovered`, `ImplementsService` | 1 job, 2 workers, two faults; "twice": published by API and Beat, crashes, refused sends; "again": published once, lost workers | 140 k |
| `liveness` | `Findable`, `Settles` | batch call and API, 1 worker, one fault of any kind, expired leases, fairness | 360 k |
| `store_faults` | `RowHasFile`, `NoOrphans`, `ImportComplete`, and the chain: `ChainVerifies`, `NeverRejected`, `IdsFollowChain` | 2 sessions, 2 files, a case and an imported one, 3 ids, faults unbounded | 330 k |
| `case_records` | `RelationsAnchored`, `FindingAudited`, `IdempotentAlone`, `AssessmentCurrent`, `BundleExplained`, `StatusAudited`, `SomeoneGoesOn`, `ReviewStays` | 2 sessions, 3 requests, 4 analyses, one of which ends meanwhile, one error | 760 k |
| `sessions` | `LockoutHolds`, `CodeOnce`, `TokenOnce`, `LogoutEndsAlone`, `ReuseMeansMishap`, `RevokedFinal` | 2 tabs, 6 requests, 2 sessions, 4 tokens, 3 ticks, a limit of 2, one request cut off | 1.1 M |
| `engine_runs` | `RunsTypeOK`, `RunningExplained`, `ArtifactsBacked`, `CameraBacked`, `RowsEndOnce`, `StructureSound`, `QualityExact` | see below | 1.0 M |
| `lineage` | `LinkAudited`, `DirectionSound`, `DecisionRecordedAlone`, `RefusedOnlyInClash`, `ReviewedStays` | 2 sessions, 5 images, 4 requests, one error | 2.2 M |
| `stuck_retrying` | `Settles` violated | a database error and a refused retry | |
| `case_refused` | `NormalizeAccepted` violated | 1 session, 3 requests, no fault | |
| `logout_missed` | `LogoutEnds` violated | 2 tabs, 1 session, 3 requests, no fault | |
| `several_scans` | `StructureNominal` violated | JPEG files of two and three scans, no fault needed | |

The passing runs cover every action and every disjunct of the next-state
relations. The type invariants of the modules, `ObservationsBacked` and
`RefreshComplete` are theorems (section 5) and not repeated here, but for
`RunsTypeOK`; to have TLC check one, add it to the
`INVARIANTS` of the module's configuration, and `ImplementsLedger` of AnalysisJobs
or of EngineRuns to its `PROPERTIES`.

### Bounds

*Jobs.* One job suffices for what concerns one row; two are needed where jobs of
one evidence share results (`FreshResult`) or a batch of the publisher holds
several rows (`BumpNext`). As two jobs with two workers and two faults are too much
for TLC, `FewerSpec` (MCAnalysisJobs) withholds steps and adds none: what has begun
goes on, and a request, a delivery, a round of Beat or a fault is only added while
there is one job (`OneRequest`: any interleaving of both workers, two faults, Beat
idle) or in `Rerun`: two jobs, neither failed nor reset, at most one fault, one
publisher past its selection and one worker busy, as `FreshResult` concerns what one
attempt finds in the table and not a race. `MCJobScenes` puts two instances into one
run: `Init` picks a scene, which withholds steps too. Batch calls are in `liveness`.
`DispatchCovered` and the refinement need `deliveries` without kills, errors and
resets (below, and section 5, where `Exclusive` is proved with kills and for any
number of jobs). Two workers suffice for a race on one row: every property relates
at most two deliveries. `MaxRetries` is 2 in the code and 0 or 1 here: a second retry goes through the same handlers with a larger counter.
`MaxFaults` is 1 or 2: the findings need no more, and the proved theorems hold for
any number. A lease may expire as often as it can, without being counted.

*Store and chain.* Two sessions, because a race on a chain is between two appenders
and a property relates one session's clean-up to one other's item; three ids are a
history, its event and one of another handler. Faults are not counted. A third
session, a second case and five ids are in `Audit_chain.cfg`.

*Records.* Two sessions with three requests in all: a race is between two, and the
third is the rerun that follows (normalise, correlate, normalise). Three finished
analyses of different families give relations of both kinds, assessments and
findings; the fourth is of an extension engine, which stores its observation
itself, and may end at any moment. The image has an elevated ELA mean and residual,
so that rules trigger and observations contribute. Initially the item may have
been normalised before.

*Sessions.* Two tabs, because each race is between two requests for one row; a
limit of 2 (10 in the code) so that the count reaches it, passes the end of the
lock and starts again within six requests; a lock of one tick, an access cookie of
one and a session of two, so that each runs out while requests are under way. Four
tokens are two sign-ins and two rotations, or one and three. `MaxTime` is 2: a lock
is set, ends and may be set again. One request cut off is what `ReuseMeansMishap`
allows for.

*Engine runs.* One caller runs every engine on nine kinds of image (formats, a file
that is missing or garbled, sides below and above the limits, a row that does not
agree with its file). Two runs next to each other on two items: every extension
engine next to BLOCKING-ARTIFACT, whose file name is shared by all evidence, and
next to JPEG-GHOST, whose name holds the item. One run of CAMERA-ID or PRNU while
references `r1` (stored) and `r2` (not) come and go. One fault. `Facts` has a value
on each side of every threshold and on it. The parser is compared with `Matching`
and `Framed` over all streams of four tokens of 16 kinds, over the prefixes of two
framed streams of eight tokens and over all their changes in one or two places, and
over two streams of several scans (43 k streams, of which 80 are `Framed`, 75 with
one scan); the quality estimate over all 100 qualities.

*Lineage.* Two sessions, because each race is between two requests for one row; four
requests are a refresh, another that finds its rows, and two reviews, or three
reviews. An image, a version of it, a byte-for-byte copy and a file that cannot be
decoded give pairs of every kind and none; three are there at the start, the others
may be uploaded at any time and in either order, so that later refreshes both find
and insert rows, and with the fifth the case is too large (`MAX_CASE_IMAGES` is 80
in the code and 4 here).

### What the violated runs show

* `stuck_retrying`: a job that fails in its first claim is RETRYING with a NULL
  `started_at`; when the retry cannot be published, no query selects it again.
* `case_refused`: once relations have been correlated, the next normalisation's
  `DELETE` of the observations is refused by the foreign keys of the relations,
  where src/docs/forensics/evidence-fusion.md:31 promises safe reruns. Every later
  normalisation of the item fails too, because a correlation only ever replaces
  the relations by new ones.
* `logout_missed`: one tab's refresh has rotated the session's token and another
  tab's logout, sent before with the old one, reads next. `auth.py:349` finds no row,
  nothing is revoked, and the answer is 204 without cookies. The session lives on;
  if the refresh's answer comes last, its cookies are in the browser that has signed
  out. src/docs/SECURITY.md:24 has the logout take effect on the next request.
* `several_scans`: the parser ends both loops at the first marker after a scan that
  is neither RST nor EOI (`parser.py:313-326`), never reads the second scan or the
  EOI, and reports "Missing EOI (0xFFD9) marker." of a well-formed progressive file,
  where src/docs/JPEG_STRUCTURE_ANALYSIS.md:57 has "nominal". `ScansDecide`
  (section 5) proves that the number of scans is all that it takes.

### Further configurations

They check properties, or larger instances, that a reader may want to see for
themselves, and are not among the runs of PROJECT.json.

| Configuration, module | What TLC shows |
|---|---|
| `Jobs_lost_dispatch.cfg`, MCAnalysisJobs | `DispatchCovered` violated: a publisher that has sent the message is slow to mark the row; the job fails, the user asks again, the reset makes the row due, and the publisher marks it dispatched (`services/job_dispatch.py:40`). The job is failed by the reconciler after 900 s |
| `Jobs_regress.cfg` | `CompletedFinal` violated: `log_event` raises after the commit of COMPLETED; the handlers meant for the engine set the completed job RETRYING or FAILED, where src/docs/architecture.md:81 has COMPLETED as an end |
| `Jobs_overlap.cfg` | `Exclusive` violated: a delivery that meets a database error in its claim writes RETRYING over another delivery's RUNNING, and a third is then not recognised as a duplicate (src/docs/architecture.md:79) |
| `Jobs_withdrawn.cfg` | `ResultStands` violated: an attempt commits its result and an error strikes before the row is read back; meanwhile the redelivery of a second publication adopts the row and completes the job, and then the first attempt's handler sets the row to failed (`engine_extensions/runner.py:120-125`). The job stays COMPLETED with a row that says "failed" |
| `Store_doubt.cfg`, MCEvidenceStore | `FilesKept` violated: the commit stores the rows, its answer is lost, the handler takes the exception for a failure and removes the file or the directory; in the import it suffices that the `refresh` inside `log_event` fails. `RowHasFile` says that there is no other way |
| `Case_unread.cfg`, MCCaseRecords | `ObservationsReport` violated: the adapters of ELA, metadata and DCT read paths that their analyzers never write, so their observations say "informational", "absent" or "suppressed" whatever the image shows |
| `Artifact_overwritten.cfg`, MCEngineRuns | `ArtifactKept` violated: nine engines write under fixed names into one directory for all evidence, the other extension engines under one name per item, so that the path that a completed row records leads to the file of another run (`engine_extensions/artifact.py:38` has the digest be that of the file) |
| `Lineage_decision.cfg`, MCLineage | `DecisionRecorded` violated: two analysts review one link at once; the first commits, the second commits, and the event of the first, made of the row as read again, has the verdict of the second. The decision of the first is in no event, although `src/frontend/src/pages/ImageLineagePage.tsx:88` says that it is recorded. Since a flush writes only the columns that differ from what the request has read, a rejected link may also keep the parent of the other's confirmation; `LinkAudited` says that even then some event says what the row shows |
| `Structure_unscanned.cfg`, MCEngineRuns | `StructureObjects` violated: a file without any scan, or with a restart marker before its frame header, is reported as nominal: nothing in the parser asks for a scan, and RST has no place of its own outside one |
| `Audit_chain.cfg`, MCAuditTrail | holds: the properties of the chain with 3 sessions, 2 cases, an imported one and 5 ids (860 k states) |

`Exclusive` and `ImplementsService` hold in `deliveries` because no fault there
makes a handler write RETRYING, and a message is redelivered in the scene "again"
only; with redelivery the code takes a RUNNING job over on purpose, and with a
second publication next to the redelivered message two workers may overlap. "again"
therefore has one publisher. `ExclusiveWhenSentOnce` and `ServiceWhenRedelivered`
(section 5) prove that a second publication is indeed what it takes.
`DispatchCovered` excludes kills because a process that is killed before its claim
acknowledges a message nobody has acted upon.

### Where code and documents part

Met while modelling; the models follow the code.

* `forensics/fusion/adapters/metadata.py` reads `metadata.Software`;
  `forensics/metadata/analyzer.py:63-66` writes `findings` and
  `extracted_metadata`. `Case_unread.cfg` shows the consequence.
* The assessment counts only the directions of the legacy adapters
  (`forensics/fusion/assessment/rules.py:32`); the extension engines write
  `anomalous`, `nominal`, `custom_entropy` and `standard_baseline`, which neither
  the assessment nor the comment at `engine_extensions/observation.py:34` knows.
* A logout that a refresh overtakes revokes nothing (`api/auth.py:349`,
  src/docs/SECURITY.md:24): `logout_missed`.
* The parser reports a multi-scan (progressive) JPEG as "Missing EOI"
  (src/docs/JPEG_STRUCTURE_ANALYSIS.md:13 and :57): `several_scans`. It does not
  miss a scan that is not there (`Structure_unscanned.cfg`), although :14 has it
  evaluate "missing or misplaced markers".
* DAC has no name in the parser's table, so the branch of
  `jpeg/huffman_engine.py:153` that looks for it is never taken
  (src/docs/JPEG_HUFFMAN_ANALYSIS.md:54).
* `physics/lighting_engine.py` takes the verdict from the share of the divergent
  patches (154-172) and the direction of the observation from a score of 1.5 times
  that share (195); it averages ray angles arithmetically (443), so that rays at 10
  and 350 degrees give 180.
* `geometry/perspective_engine.py` sets the score 0.5 when it finds no vanishing
  point (143): the verdict is INCONCLUSIVE_GEOMETRY, the observation "anomalous"
  (209).
* `camera/camera_id_engine.py` takes verdicts on exact values, stores rounded ones
  and ranks by energy alone: an inconclusive reference may be the candidate before
  a consistent one (236-260).
* A CAMERA-ID job without `case_id` looks in the directory of a case "default"; the
  HTTP request never passes PRNU a reference. Digests of artifacts are computed and
  not stored.

### Fairness

`FairSpec` asks weak fairness of every thread's and worker's own steps (a process
that is not killed goes on), of Beat's selection and of the reconciler's read and
updates (`core/celery_app.py:20-36` schedules both), of the passing of time
(`BackoffElapsed`, `LeaseExpires`), and strong fairness of the delivery of each
message: Redis lists are queues, so a message is reached even if other workers
take others in between. No fairness is asked of requests, faults or kills.

## 5. Proofs

Eight `*Proofs` modules, each of which extends the module it is about;
`PipelineProofs` extends `AnalysisJobsProofs`. The only
assumptions are those on the constants, named in the modules that declare them:
`ThreadsAssumption`, `BoundsAssumption`, `CaseAssumption`, `MaxIdsAssumption`, `FilesAssumption`, `FaultsAssumption`, `AuthAssumption`,
`RunsAssumption`, `RefAssumption`, `StreamsAssumption`, `LineageAssumption`. The
theorems about the pipeline whose names say When or With are about a system
without certain disturbances; they state that as an assumption of the theorem,
and a configuration shows what goes wrong without it.

`AnalysisJobsProofs` proves, for every number of threads, workers, jobs, retries,
requeues and faults:

* `TypeCorrect`: `Spec => []TypeOK`. `TypeOK` is inductive; it is split into the
  publishers' and the workers' part. `MinimalSet`, `LeastIn` and `GreatestIn` show
  that the `CHOOSE` of the least and greatest job returns a member.
* `LeaseHeld`: `Spec => []RunningHasLease`, inductive with `TypeOK`. The delicate
  step is `RequestReset`, which leaves QUEUED behind, so that the next `Claim`
  sets the lease again.
* `ResultStored`: `Spec => []CompletedHasResult`. It is not inductive alone:
  `EngineRows` adds that a worker in the engine has a row of its own still to be
  ended, `FinishRows` that a worker about to store its result has a row that was
  ended with one.
* `PipelineKeepsLedger`: `Spec => ImplementsLedger`, from the same invariant: only the
  owner of a running row ends it, and what is withdrawn was a result.
* `ExclusiveWhenQuiet`: without database and task errors, lost workers, expired
  leases, resets and batch calls (`Quiet`), `[]Exclusive`, whatever crashes,
  doubled messages and kills occur. The invariant is `Calm` (no handler of errors
  runs, no message is redelivered), `HolderRuns` (who executes a job finds it
  RUNNING with a fresh lease) and `OneHolder`. The run `deliveries` and
  `Jobs_overlap.cfg` show that the assumption separates what holds from what does
  not.

`PipelineProofs`, for every number of publishers, workers, jobs, attempts and
messages:

* `NoOrphans`: `BornInv`, what is in the outbox, sent, taken up by a publisher or
  delivered names a job whose INSERT is committed. The theorems below rest on it: a
  job that is created finds nothing under way for it.
* `FreshAlways`: `[]FreshResult`, under all faults. `FreshInv` adds that a row which a
  worker owns, or may adopt, is younger than the submission of its job
  (`YoungRows`), and that submissions lie in the past (`QueuedInPast`); a reset is the
  one step that breaks it, and the property speaks of jobs that were never reset.
* `CoveredWhenUndisturbed`: `[]DispatchCovered` if no job is reset and no database
  error, task error or kill happens (`Undisturbed`). Publishers may still die at
  every step, the broker may refuse a message or lose its answer, workers may be
  lost and batch calls send messages of their own. `CoverInv` says that an outbox
  row is marked only after its message was sent, and that the message stays until
  a worker has claimed the job. The assumption excludes what breaks this: a reset
  answers a message of the job's former life (`Jobs_lost_dispatch.cfg`), and a
  process that is killed, or fails, between the delivery and the claim
  acknowledges a message nobody has acted upon.
* `CompletedFinalWhenQuiet`: the promise of docs/architecture.md:81, which
  `Jobs_regress.cfg` refutes when the database can fail, holds if the pipeline is
  `Quiet`.
* `ServiceWhenQuiet`: the refinement of JobService for one job and a quiet pipeline.
  Initial states map to initial states and each action to `Submit`, `Store`,
  `Settle`, `Reopen` or a stutter. `OnceInv` says that the engine is started only while
  no completed result is stored. One job, because `results` counts the completed
  rows of the evidence and the engine since the submission: forced reruns of one
  analysis count each other's, and the runs of `ImplementsService` have one job for
  the same reason.
* `ExclusiveWhenSentOnce`: `[]Exclusive` if nobody but its own request publishes a job
  (`SentOnce`: no Beat run, no reset, and not both database errors and lost workers).
  Retries, redeliveries, batch calls, kills, crashes, errors and expiring leases are
  all allowed. `SingleInv` follows what may bring a job to execution, the thread about
  to send it, the message, the worker with its delivery: there is one of them at
  most (`OneCarrier`), in one copy (`OneCopy`), and every step hands it on or drops it.
  Trying to prove more showed the last condition to be needed: a task that has
  published its retry and is lost before the acknowledgement is delivered twice.
* `CompletedFinalWhenRedelivered` and `ServiceWhenRedelivered`: what holds in a quiet
  pipeline also holds when workers are lost and messages redelivered, as long as
  the job is published once and no error is handled (`OnlyRedelivered`, which the
  scene "again" of `deliveries` satisfies). `OrderlyInv` adds to `SingleInv` that the reconciler finds
  nothing old and that who holds a job finds it RUNNING, although its started_at was
  set by an attempt that is gone.
* `ResultStandsWhenSentOnce`: for one job and under `SentOnce`, the row of a COMPLETED
  job is not withdrawn (`ExecutedOpen`: while an attempt is under way its job is not
  COMPLETED). `Jobs_withdrawn.cfg` shows that a second publication breaks it; so
  would a forced rerun, which may adopt the row of the first job.
* `FindableWithOneFault`: `[]Findable` if `MaxFaults` is at most 1, with any number of
  publishers, jobs, requeues, retries and expired leases. This is the safety half of
  `Settles`: whatever the one fault is, an open job either has a started_at, so that
  the reconciler's query selects it in the end, or its retry is under way.
  `FaultSpent` says that a job which waits for a retry has already used up the
  fault, so that nothing can strike between its claim, its handler and the
  publication; `RetriesLeft` that what is published is a legal message. The run
  `liveness` checks it next to `Settles`, and `stuck_retrying` has the two faults that
  it takes.

`AuditTrailProofs`, for every number of sessions, cases and ids:

* `TrailTypeCorrect`, `ChainsVerify`, `AppendsAccepted` and `IdsFollow`: the state
  is well formed and the chain properties of `store_faults` hold. They follow from
  `ChainInvariant`. The properties speak of committed rows, which is too weak to be
  inductive: `ChainInv` is about all rows inserted, committed or not (`Written`). It
  says that the lock of a case has one holder (`OneHolder`), that only an import has uncommitted rows
  and that its case is nobody else's (`Private`), that drawn ids are unique and
  below `nextId` (`IdsDrawn`), that the rows of a case are numbered, linked and
  ordered by id, and that what a session has read is still the end of its chain
  (`ReadStands`). The last is what the lock is for.

`EvidenceStoreProofs`, which extends it:

* `StoreImplementsTrail`: every step of the store is a step of AuditTrail or leaves
  its variables alone, so its theorems hold in the store.
* `StoreTypeCorrect`: files, rows and tasks are well formed.
* `FilesInPlace`, `NothingLeftBehind` and `ImportsAtomic` are the properties of
  `store_faults`, for any number of sessions, files and faults. `StoreInv` adds to
  them that no item has two sessions (`OneTask`), where an item is at each point of
  a task (`Places`), where the append is (`AtTask`), and that a handler other than
  the import appends to an imported case only after it is stored (`Found`).

`CaseRecordsProofs`, for any number of sessions, analyses, requests and errors:

* `RecordsTypeCorrect`: `TypeInv` adds the type of what a request has in memory,
  without which neither an insert nor a flush is typed.
* `RelationsStayAnchored`: `AnchorInv` adds that the rows a normalisation holds are
  referred to by no relation once `NormCheck` has passed. The proof is the argument
  that the check of the `DELETE` and the wait of the `INSERT` never miss each
  other.
* `EveryFindingAudited`: with the ids below `nextId`, an insert draws a new one, and
  the commit of `log_event` stores finding and event together.
* `ReviewsStay`: an evaluation never writes the status, so a review that was
  committed after its read survives the flush.
* `StatusesAudited`: `ReviewInv` says of each status which event accounts for it; the
  strengthening is in `AboutToAppend`: a request between its write and its append
  knows the status that it has written, even when another review follows it.
* `BundlesExplained`: `CitedInv` says that rows, and what requests remember, cite only
  what is stored or was dropped (`RowsKnown`, `Remembers`), and that what an export
  has read of a table holds all that is there now but the newer rows (`Covers`).
  Every step only adds rows with new ids and records those that go (`Grows`).
* `RerunsIdempotent` and `AssessmentsCurrent` from `AloneInv`: while requests have not
  overlapped one of them is open at most (`Lone`), the tables hold one row of each
  kind (`Single`), a request that deletes has found all that it replaces (`Sure`),
  and what the assessment does not name is only between the commits of one request
  (`Current`).
* `WaitsResolve`: for any number of requests that wait for the rows of each other,
  some open request waits for nobody or is one of two of which the database ends
  one. `LockInv` says that ids are of one kind of row (`Distinct`), which kind a request
  holds and has found at each of its steps (`Locks`), and that of two normalisations
  at most one holds observations (`Facing`): each has found all that the other is
  about to remove, or a row that the other holds. So a wait for observations is a
  wait for the one normalisation that holds some, and a ring of waits can only be
  that normalisation and one correlation. This is `SomeoneGoesOn` without `ENABLED`,
  and without the bound of two requests that its run has.

`AuthSessionsProofs`, for any number of tabs, sessions, tokens and requests:

* `AuthTypeCorrect`: a counter stays within the limit only because the one that a
  handler increments is below it: the typing rests on the lock.
* `LockoutStands` and `CodesOnce` from `UserInv`: at most one handler is between the
  locking read of the user row and its commit, and what it has read is the row
  (`UserHeld`); the guesses made are those counted (`Counted`); a code that was
  used is no longer acceptable (`Spent`).
* `TokensOnce` from `TokenInv`: tokens are issued in order, no two
  sessions share the current one (`Issued`), an exchanged token is no session's
  (`Exchanged`), and a handler about to rotate finds its token still current and
  its row alive, although another tab may have asked for the same (`RowHeld`).
* `LogoutsEndAlone`: who carries a token means the session that has it (`Named`), a token
  on its way to the browser is nowhere else (`Private`), and of a session that did not
  go astray the answers, the cookies and the logouts have the current token
  (`Current`), since a refresh and a logout of it never meet (`Meet`). So the logout's
  query finds the row of the session that it meant.
* `RevocationFinal`: an action property from the same invariant; whoever writes a
  row after a revocation writes the revocation again.
* `ReuseIsMishap` from `TurnInv`: as long as no answer was lost and no two refreshes
  carried one token, the token that a tab sends is the current one of its session
  (`SentCurrent`), what tabs are answered is new (`AnswersNew`), no two of them are at
  the same session (`Apart`), and so nobody is blamed.

`EngineRunsProofs`, for any number of callers, runs, items and references, any
scene and any faults, and whatever the engines measure:

* `RunningIsExplained`, `ObservationsAreBacked`, `ArtifactsAreBacked` and
  `RowsEndOnlyOnce`. The invariant says that the rows of the callers at work are
  different and open until the commit (`Working`), that a file on the disk comes
  from a run and, if its name holds an item, from a run of that item (`DiskHeld`),
  and that what a caller has recorded so far is there (`Recording`), which its
  commit turns into the property (`RowsBacked`). The lemma `NamedAfterItem` says that
  the name of a file holds the item of its run or none.
* `RunsFormLedger`: `Spec => ImplementsLedger`. The refinement mapping reads a row as
  withdrawn when a failing refresh has left it failed. Together with
  `PipelineKeepsLedger` it says that the three actions by which AnalysisJobs stands
  for the engines leave no other trace in the table than the engines do.
  Stating it found what AnalysisJobs lacked: the row that a ValueError leaves
  running, and the result that is failed after its commit. An earlier version proved
  that the result of a COMPLETED job never changes, which is more than the code
  keeps; `CompletedHasResult` and `ResultStands` now say what is true, and when.
* `RunsAreTyped` and `CamerasAreBacked`. `Measured` says of each row, and of each
  caller about to commit, that its metrics are indicators. It needs a lemma for each of the
  engines. For the camera, `FirstHighest` shows that the
  best comparison exists and is one of those made, and `RoundedUp` that rounding
  takes no measure below its threshold.
* `ParserExact`: for every sequence of tokens, of any length, the parser reports no
  anomaly exactly if the stream is `Unobjected`, which says without loops what it has
  no objection to. From it `ScansDecide`: of the streams that are `Framed` the parser
  calls nominal those with one scan and no others, so that `several_scans` shows not
  one odd file but all of that kind; and `StructureIsSound`: what is called nominal is
  `Matching`, and what is `Framed` with one scan is called nominal. `Reading` is a
  recursive function; that it exists is proved by taking the first prefix for which it would not (`Least`, from the well-foundedness
  of the numbers, as the induction theorems themselves cannot be used). The invariant
  over the prefixes has three cases: the reading is still free of anomalies and
  `Going`, it has met its EOI at the end, or it is spoiled for good. The proof found a
  flaw of the model: `Step` was a CASE two of whose guards could hold at once, and
  TLA+ does not say which arm is taken then, although TLC takes the first. It is an
  IF now, as in the code.

`LineageProofs`, for any number of analysts, images, requests and errors, proves
every property of the run `lineage`, its type invariant and `RefreshComplete`:

* `LineageTypeCorrect`: `TypeInv` adds that a request carries out one decision and
  that its parent is one of the pair.
* `LinksAudited`: `Accounted` says, for each pair, who answers for what the row
  shows: an event, a request that has committed and will read the row again, or one
  that has read what the row still shows. A later writer takes over the account.
* `RefreshesComplete` and `ReviewedLinksStay` from `LinkInv`: the kind of a stored row
  is what the comparison yields, so that a refresh that flushes it changes nothing.
* `RefusalsNeedAClash` from `ClashInv`: while no two refreshes have met, one is open at
  most and what it is about to insert is still not there.
* `LinksDirected` and `DecisionsRecordedAlone` from `AloneInv`: on a link that no other
  review met, `OnCourse` follows a decision from its read (nobody has changed the
  row) through its write (the row shows it) to its event (what was read again is
  it). `Lineage_decision.cfg` shows that the premise is needed.

Only model-checked: `Settles`, as liveness under fairness is out of the prover's
reach (`FindableWithOneFault` is the part of it that is an invariant); `SomeoneGoesOn`, because of `ENABLED`, of which `WaitsResolve` is the part that
can be proved; and `QualityExact`, a computation on 100 qualities and one table that
no constant enters, so that TLC's evaluation covers every case. `DispatchCovered`,
`Exclusive` and the refinement of JobService are proved under the assumptions named
above, and model-checked under those of their runs. No operator here
is RECURSIVE: recursion is by functions.

## 6. Not modelled

* What the engines compute on pixels (transforms, correlations, key points,
  ephemeris): a choice among the values that the decisions tell apart. Wording,
  plots and JSON reports of the engines.
* Setting up, confirming and disabling the second factor, password changes and the
  administration of users: single handlers on one row. Hashes, signatures, TOTP
  arithmetic and the protection of cookies.
* What OpenCV measures on two images: the traits that decide their kind are a
  constant of the pair. The order in which links are listed.
* Case and note handlers: a change and its audit event; `EvidenceStore` has the
  pattern with `LogUpload`.
* Views, reports, search, graph, custody, processing history, provenance and the
  benchmark compute from the tables and keep no state. Uploads of a batch are
  uploads one after the other.
* The integrity of stored bytes (hashes, signatures, checkpoints) is a matter of
  cryptography; the models show that the code's rules about order and failure keep
  the right rows and files.
* The views of the frontend. Its session logic is in AuthSessions.
* Some reads are one step where the code has two: the job and its outbox row in
  `RequestRead` (`api/jobs.py:63, 90`), the token's row as current and as previous one
  in `RefreshRead` (`api/auth.py:300-305`). `NewestRow` of CaseRecords orders by id what
  `services/correlation.py:72` leaves unordered. A reference that is deleted next to a
  save may keep its metadata without a fingerprint; `DeleteEntry` has it as absent,
  which a run cannot tell from unreadable.

## 7. Plan

Done: AnalysisJobs with JobService, AuditTrail, EvidenceStore, CaseRecords with
FusionRules, AuthSessions, the engines with EngineRuns, Lineage, and their proofs.

Next, in this order:

1. EngineRuns under AnalysisJobs: the worker's three handlers around `run_engine`,
   in place of `EngineStart`, `EngineEnd` and `RefreshFails`. RunLedger is the
   interface that both implement; it speaks of the rows, not yet of the errors that
   a run passes on.
2. Theorems: `CompletedFinal` and the refinement of JobService with retries after
   database errors, for a job that is published once.
3. CaseRecords over AuditTrail: `log_event` as steps instead of one commit.
4. The second factor's setup next to sign-ins in AuthSessions.
