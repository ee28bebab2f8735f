# VendorOps AI: TLA+ models, checks and proofs

VendorOps AI takes finance documents (invoices, statements, e-mails) through upload, a durable job
queue, parsing, extraction by a language model, validation rules, and reports, for the workspaces of
many organizations. A second, newer part is the agent boundary: a policy gate and an execution engine
that carry out approved actions in an external vendor system.

This directory models the parts in which order, failure, time or tenancy decide whether the program is
right: **the job queue with its workers and the document handler they run**, **what a handler makes of a
document** (extraction, retries, rules, review), **the API around it** (sessions, tenants, upload, reports,
downloads, listings, over the tables and the object store), and **the agent execution engine with its
policy gate**. TLC checks the models on small instances; TLAPS proves the main invariants for every
value of the constants.

| module | models | used by |
| --- | --- | --- |
| `JobContract` | what the queue promises: status, attempts, and that every job ends | `JobQueue` (refinement) |
| `JobQueue` | `app/workers/durable.py`, the loop of `app/workers/document_jobs.py`, the run requests of `app/api/routes/jobs.py` | runs `queue_*`, `bug_*` |
| `DocumentWorker` | `JobQueue` with the handler opened up: `run_document_pipeline` and the commits of its repositories | run `doc_result` |
| `DocumentReview` | `app/extraction`, `app/observability/retry.py`, `app/validation/rules.py`, the review decision of `run_document_pipeline` | `MCDocumentReview` |
| `Workspace` | `app/api`, `app/auth`, `app/ingestion`, `app/storage`, `app/reports`, the reads of `app/analytics`, and what `app/db/repositories.py` does with tenants | `MCWorkspace` |
| `AgentExecution` | `app/agent/execution.py` and `app/agent/authorization.py` | `MCAgentExecution` |
| `MCJobQueue`, `MCAgentExecution`, `MCDocumentReview`, `MCWorkspace` | symmetry; tools, requests, grants and policy; documents and model answers; users and roles of the instances | TLC |
| `JobQueueProofs`, `JobQueueContractProofs`, `JobQueueWorkersProofs`, `DocumentWorkerProofs`, `DocumentQueueProofs`, `DocumentReviewProofs`, `WorkspaceProofs`, `AgentExecutionProofs` | theorems and proofs | TLAPS |

The three models of a job's execution fit together as follows. `JobQueue` says when executions of a job start,
overlap and end, and knows no handler; `DocumentWorker` extends it with the handler's commits, without contents, and
implements it (`FollowsQueue`, checked and proved);
`DocumentReview` has the contents, for executions that start at any time and end anywhere, which is more than the queue
allows; `Workspace` has the handler's commits again with the tenant they are for, next to requests that read
the same tables, for any succession of statuses.

To repeat a check: `tlc -config queue_requests.cfg MCJobQueue.tla`, `tlapm JobQueueProofs.tla`;
`PROJECT.json` names the module of each `.cfg`, and the source lines of each definition.

## 1. Inventory

### Components, their state and how they interact

**Durable job queue** (`app/workers/durable.py`, table `processing_jobs`). State: one row per job with
`status`, `attempts`, `max_attempts`, `next_run_at`, `lease_owner`, `lease_expires_at`,
`execution_id`. Operations: `claim_next_job`, `heartbeat_job`, `recover_expired_jobs`,
`request_job_run`, `complete_job`, `fail_job`. All actors meet only in these rows; there is no lock
outside the database. Hard: each operation is a transaction of its own; `request_job_run` decides on a
row read earlier and writes at commit; a worker keeps a *detached* copy of its row for the whole
execution; leases expire by the clock. Right when: no job is executed more often than its budget, every
job ends, a running job can always be recovered, a finished job stays finished, no two live workers
hold a job.

**Document worker** (`app/workers/document_jobs.py`, `run.py`). State: the job held, a heartbeat task,
a stopping event. One asyncio task runs recover -> claim -> handle -> settle, a second one extends
the lease. After a failure that is not a `PipelineError` the loop also writes an error row of its own, after `fail_job` has committed and
without a tenant. Hard: the handler is not told that its lease is lost; an exception of the heartbeat
task surfaces only when it is awaited; a stop signal reaches the heartbeat task first; a synchronous call
in the handler stops both tasks.

**Document pipeline** (`app/pipeline/document_pipeline.py`, `app/db/repositories.py`). Parses, extracts
(with `retry_async`), validates, and commits the record, then the validation errors, each in its own
transaction. Each of these functions commits and then reads its rows back, so an error may also come after the commit. Right when a
completed job has its result and no job has two.

**Job API** (`app/api/routes/jobs.py`). Creates jobs and asks for runs, next to the workers.

**Agent execution engine and policy gate** (`app/agent/execution.py`, `authorization.py`). State: receipts
by idempotency key, in memory. `execute` replays a receipt, asks the gate, checks the input, then calls
the adapter's `execute` and `verify` up to `max_attempts` times. Hard: replies get lost, effects settle late,
approvals expire while an attempt runs, a restart forgets every receipt. Right when nothing
unauthorized reaches the vendor system, a success really happened, and a receipt is final.

**Agent tool registry and run models** (`tool_registry.py`, `tool_catalog.py`, `models.py`): a dictionary of
tools; two tables that no code writes.

**Vendor case workflow** (`app/workflows/vendor_case.py`): a transition table without a caller.

**Intake classification** (`app/intake/classification.py`): patterns that score one text, without a caller.

**Extraction and retry** (`app/extraction`, `app/observability/retry.py`), **validation rules**
(`app/validation/rules.py`), **parsers** (`app/parsers`). State: none but the rows of `extraction_errors`. A parser makes text of a
file; the mock extractor finds values in it by patterns, the other asks a language model, up to
`extraction_max_attempts` times; five rules and two thresholds decide whether a person must look at the result.
Hard: three places compare a confidence, with two different limits; blank values are dropped after evidence was collected;
a later execution keeps the record of an earlier one and adds its own findings; the pipeline and the worker both write to
`extraction_errors`. Right when a record that
is not flagged passes every documented check, and every provider call is on the account.

**Upload and object storage** (`app/ingestion`, `app/storage`, `routes/files.py`). State: objects by key, the table
`uploaded_files`. The object is stored first, the row that names it is inserted second. **Reports** (`routes/reports.py`,
`app/reports`): two reads, an artifact, a row; a download goes from the row to the object. Hard: no transaction spans the
object store and the database, or two reads. Right when no row is without its object.

**Authentication and sessions** (`app/auth`, `app/api/dependencies.py`). State: users, memberships, bearer tokens with an
expiry. Each request gets its tenant from the token, and `apply_tenant_filter` and `is_tenant_match` hold every
statement to it; rows older than the tenant columns are everybody's. Right when no answer holds another tenant's row.

**Listings and observability**, **dashboard analytics** (`app/analytics`): reads of one table, or of six tables by six
statements. **API application and settings**: wiring. **Frontend** (`frontend/src`): uploads, asks for a run, polls the
job at most 30 times, lists the records.

`PROJECT.json` lists them with their status; "hazards" there names what is hard to test, at its line.

### Hazards the properties are for

Stale reads flushed late (`request_job_run`), the detached job object (`fail_job`), the two-statement
claim on SQLite, leases that expire under live workers, crashes between any two commits, takeovers that takeovers that run
next to their predecessor, errors after a commit, the boundary `attempts = max_attempts` seen from three functions, retries that
outlive an approval, lost replies and late settlement in the vendor system, keys used again after a failure
or a restart; requests that break off between the object store and the database, reports read while workers commit, rows of
no tenant (old ones, and the error rows of the worker), records and findings of different executions, thresholds compared in several places.

## 2. The models and the code

### JobQueue

*Atomicity.* An action is one SQL transaction, or the step of a process between two of them. On
PostgreSQL, `SELECT ... FOR UPDATE SKIP LOCKED` and the `UPDATE` of `claim_next_job` are one step
(`Claim`): the row is locked in between, so no other statement can see the difference, and what SKIP LOCKED
skips is what another step has already taken. On SQLite they are two (`Select`, `Update`), with the `now`,
the candidate and its attempt count carried from the one to the other. A run request is two steps on both:
`RequestRun` is the read, the check and the assignments in memory, `CommitRun` the flush, which writes *only
the columns that changed, by primary key* (`Dirty`, `Flushed`), on whatever the row is by then.

*Objects.* Sessions have `expire_on_commit=False`, so `held[w]` keeps the values of the claim; `fail_job` decides
on `held[w].attempts` and writes where `Owns(w, j)`.

*Time.* Every timestamp is relative to the present: 0 is now, `Tick` moves all of them one unit into the past.
The code only ever compares a timestamp with a `now`, so the model needs no absolute clock and no bound on
time. `MaxGap` bounds the age of a `now` that was read and is still to be used; a timestamp stops ageing at
`Past`, just beyond the oldest such `now`, where no comparison can tell the difference any more.

*Heartbeats.* With `Heartbeats = "punctual"`, time waits for a heartbeat that is due; with `"late"` a
heartbeat may be delayed for any time, which is what a loaded event loop or a slow database does.

*Faults.* A worker in `Unreliable` may crash at any point, be told to stop, or meet a database error in its
heartbeat (`Faults`). `Crash` also stands for every exception that leaves `run_once`, among them a failure of
`create_extraction_error` after `fail_job` has committed. `Restart` is the supervisor's (Docker's); nothing
obliges it to act.

*Ghosts.* `claims[j]` counts execution ids and serves as their supply (the code draws UUIDs: the model needs
only that a new one was never used before); `resets[j]` counts the requests that put `attempts` back;
`accepted` bounds the requests.

*Bounds.* `MaxRequests` (requests that pass the status check) and `MaxGap` are the only ones.

*Left out.* Audit rows, logging, tenant filters on reads, `created_at` (it only orders equal `next_run_at`, so
`First` leaves ties open), error texts, and the rows of `extraction_errors`: those of the pipeline and of the worker are in
`DocumentReview` and `Workspace`. What the worker's row means for the queue is only that the process may die between the commit of
`fail_job` and that row, which `Crash` covers.

### DocumentWorker

Extends `JobQueue` with the stage each handler is at. `Lookup`, `Parse`, `Extract`, `SelectRecord`,
`InsertRecord`, `CommitFindings` each end at an await or a commit of `run_document_pipeline`, in its order,
and each can end in the exceptions that stage can raise, before its commit or, where the row is read back,
after it; `DocFinish` hands the outcome to `CompleteJob` or `FailJob`. `create_extracted_record` is two stages, because its SELECT and its INSERT are two statements between which
another handler may insert; the unique index `uq_records_job` makes the second one fail. While the parser
runs, nothing else runs on that process's event loop (`Blocked`): no heartbeat, no signal handler.
`records` and `findings` carry the execution that wrote them; contents are left out.

### DocumentReview

The executions of one job over one document, each at a step between two awaits or commits of `run_document_pipeline`.
`setup` holds what no step changes: provider, review threshold, and the document as far as the code tells documents
apart. A document says how its parsing ends and which values the patterns of `MockExtractor` find in its text (`Document`);
from there the mock's path is computed as in the code (`MockRecord`, with confidence in percent: the code's
sums of 0.45, 0.15 and 0.10 reach 0.75 exactly when the percentages do). A model answer is any member of `Answers`, which need not agree with the
document, or an error.

`retry_async` is `CallModel`, `RecordRetry`, `NextAttempt` and the variable `attempt`: only `ExtractionError` is retried, every failed
attempt but the last commits a retryable row, a delay follows. `CreateExtractionError` is the `except` clause, which commits the final row,
names the stage and counts 1 for what was not retried; `RaisePipelineError` comes after it. `SelectRecord` and `InsertRecord` are the two
statements of `create_extracted_record`; an execution that finds a record keeps it and drops its own. `CreateValidationErrors` commits,
`ReturnResult` comes after it. The rules are sets of findings, one operator per function.

`Break` is an exception of the database, or any other that no clause of the pipeline names, at any step: also between a commit and the next
step, which is what a failing `refresh` is. It reaches `run_once`, whose own row (`stage="worker"`, the job's attempt, retryable or
not as `fail_job` decided) is `WorkerError`. `Stop` is the death of the process. Left out: dates (only an invalid one matters), key terms,
messages.

### Workspace

`request[q]` is a request in progress: endpoint, tenant, step, what it has found, the tables still to be read, the rows read so
far. An action is one statement or one access to the object store; between two of them everybody else goes on, and `End`
may end the request at any point, which stands for its answer, an exception, or the death of the process. Endpoints with the same effect are
one `kind`; `Needs` and `Granted` are the permissions, `Reads` the tables in the order of the code.

*Objects.* An object is a key with its content. A write that fails may leave a truncated object on the local disk
(`put_fails`, content `None`), never on S3. Keys come from UUIDs: `Fresh` means never drawn. Uploads are kept apart by workspace, reports are
not (`reports/report-<uuid>`), although criterion 3 of `docs/V1.4_PRODUCTION_OBJECT_STORAGE.md` asks for it; the UUID alone keeps them
apart, as `RowsHaveObjects` and `TypeOK` show.

*Tenants.* An organization and its workspace are one tenant, since every row gets both from the same membership. `NoTenant`
is the NULL of rows written before the columns existed: `Init` has files with it and may have jobs waiting for them.

*Worker.* `handler[j]` follows the commits of one execution, with the tenant of its job. `Settle` may send a job back to
`queued` or to `failed` from any step, which covers failure, crash and recovery; the budget and the leases that restrict this are
`JobQueue`'s. Overlapping executions are `DocumentWorker`'s. Any exception but a `PipelineError` makes the worker owe an error row (`owed`),
written after `fail_job`'s commit by `WorkerError`, without a tenant (`WorkerRow`), or never, if the process dies first. Of several equal rows of a
job the model keeps one.

*Ghost.* `known` is the set of records that existed when a request read the records; only `SnapshotsJoin` uses it.

*Bounds.* `MaxSessions`, the users logged in at a time, is the only one.

*Left out.* Contents of files and records; limits and order of listings; the arithmetic of the dashboard; audit rows, which are
added in the transaction of the row they are about.

### JobContract

Status and attempts of each job, and nothing else: the transitions of `ALLOWED_TRANSITIONS`, the re-run of a
failed job, and `Settles`: a job that is queued or running will be completed or failed. `JobQueue!Contract`
maps each row to its status and attempts. Several jobs may move in one step, since one recovery statement
moves several rows.

### AgentExecution

`Execute` is the part of `ExecutionEngine.execute` up to the first adapter call: `Replay`, `Reject`,
`RefuseInput`, `Start` are its exits in the order of the code. `AdapterExecutes` and `AdapterVerifies` are the two
calls of an attempt, `AttemptFails` the `except` clause with the loop's next iteration or the final
receipt. The gate (`Authorized`, `is_valid_for`, `action_fingerprint`) is translated condition by condition;
SHA-256 over the canonical JSON is taken to be injective. The engine has no concurrency of its own: one call at
a time. The vendor system is external: a submission reaches it or not whatever the reply
says, it settles later or never, and `verify` may confirm what has settled under the key and nothing else (it may also
fail to). This is an assumption on the adapter, whose `verify` is not given the key; `SuccessIsSettled` rests on it. Requests carry the tool as a record; payloads and capabilities are atoms. `left[g]` is the time until
an approval expires.

## 3. What each run checks

Passing runs (numbers are distinct states):

| run | instance | properties | shows |
| --- | --- | --- | --- |
| `queue_requests` (225k) | PostgreSQL, 1 job, 2 workers of which one has every fault, 2 requests in flight, 3 in all, late heartbeats | `TypeOK`, `AttemptBudget`, `SnapshotCurrent` | the budget holds across re-runs however requests overlap, and the count `fail_job` decides on is never outdated |
| `queue_contract` (36k) | the same with requests one at a time, 2 in all, under `FairSpec` | `RunningIsLeased`, `ImplementsContract`, `EndsByOwnerOrExpiry`, `RunningIsNotReassigned` | the queue implements `JobContract`, including that every job ends, only its owner or the end of its lease ends a run, and a running job is given to nobody else |
| `queue_sqlite` (39k) | SQLite, 2 jobs, 2 workers, crashes, punctual heartbeats, no run requests | `AttemptBudget`, `OneHandlerPerJob` | SELECT and compare-and-swap UPDATE suffice: no job is in two live hands |
| `doc_result` (811k) | the handler opened up, all faults, late heartbeats, 1 request | `DocTypeOK`, `CompletedHasResult`, `RecordsUnique`, `CompletedByItsExecution`, `FindingsAccounted`, `BatchesBounded`, `FollowsQueue` | no falsely completed job, no duplicate record, completion credited to an execution that did its work, at most one batch of findings per execution and no more than the budget, although takeovers overlap and errors follow commits; the handler stays within the queue |
| `agent_receipts` (228k) | 6 requests, 1 approval that expires, 2 keys, 2 attempts, restarts | `TypeOK`, `SubmissionsAuthorized`, `SuccessIsSettled`, `ReceiptsCountCalls`, `ReceiptsAreFinal`, `OneActionPerKey` | see below |
| `review` (284k) | 2 executions, 2 attempts, 78 documents with the mock extractor under thresholds 50 and 80, 13 model answers under 80 | `TypeOK`, `NotReviewedIsTrustworthy`, `ReviewCoversFindings`, `RetriesAccounted`, `ExecutionsEnd` | the review flag can be relied on, `extraction_errors` accounts for every failure, and executions end |
| `workspace` (2.6M) | 2 tenants with an owner each, one logged in at a time, a legacy file, one upload, 1 job, 1 report, 1 request at a time, both backends | `TypeOK`, `RowsHaveObjects`, `Lineage`, `AnswersWithinTenant`, `SnapshotsJoin`, `CompletedJobShowsRecord`, `StoredForGood` | failures between object and row do no harm, tenants stay apart but for the worker's error rows, what the page relies on holds, what was stored stays |

*Why the bounds are enough.* With `MaxAttempts = 2` there is a first, a middle and a last attempt of a job as
`recover_expired_jobs` and `fail_job` see it. Two workers give a holder and a successor; a third would only repeat the successor. Two overlapping requests give the stale
read, three in all let it hit a job that has been re-run. Lease 2 and heartbeat 1 make a lease that outlives one
interval; lease 1 (`doc_result`) makes takeovers frequent. Jobs interact only through the workers and
`recover_expired_jobs`, hence one job in most runs, two where a worker must choose. Two keys let a receipt
be mistaken for another's; two attempts give a first and a last. Each property has a mutant in
`PROJECT.json`, a plausible bug that TLC finds by that property.

In `review`, two executions give a record with an author and an execution that comes after or next to it; the model answers
differ from a flawless one in one field each, so that each rule decides alone, with a confidence below the constant limit, on it, and above
both limits; the mock's documents meet a threshold on either side of the constant. In `workspace`, one request at a time works next to the worker: a successor of a request meets
everything its predecessor left, at any point; two requests that overlap, and so two writers, make the
instance too large for a run: TLC checks none of the properties with overlapping writers, and only the proofs, which are for any number of
requests, cover them. Every user is an owner, whose permissions include those of all roles; the tenants are interchangeable (`Swap`). One legacy file and one uploaded file let a job of a tenant be on
a file of none.

*Queue properties.* `EndsByOwnerOrExpiry` is the fencing of a lease: a worker that lost its job and comes back late neither completes it nor
fails it, and a request does not requeue it. `FindingsAccounted` and `BatchesBounded` say what becomes of validation rows, which no
statement looks for before it inserts them: they add up, one batch per execution that reached the commit, so the attempt budget is all that
bounds them. The repository promises no duplicate *records*; of findings it says nothing. A handler whose database fails after
the commit of its findings (`repositories.py:273-275`) has a batch and fails all the same; `FindingsAccounted` says that this is the only way.
`RunningIsNotReassigned` is what the status checks of `claim_next_job` and `request_job_run` are for: while a job runs, neither gives it to
another execution or takes its lease.

*Review properties.* `NotReviewedIsTrustworthy` states the list of `README.md:479-489` on the stored record, in terms of the record and not
of the rules. `ReviewCoversFindings` relates rows of different transactions: it has a condition, because with a language model an
execution that follows a crash may store findings about an answer that was dropped, for a record that another answer left
unflagged (`AI_POWERED_DATA_PIPELINE_IMPLEMENTATION_PLAN.md:243` sends failed rules to human review): that case is a limit of the
code which the property does not exclude. `RetriesAccounted` relates all of `extraction_errors` to the loop and to how the execution ended.
A final row is written before `PipelineError` is raised, so an execution may have one and end otherwise; the converse does not happen.

*Workspace properties.* `RowsHaveObjects` is the reason for storing the object first. `StoredForGood` is its counterpart over time: neither a
later write nor one that breaks off (and truncates, on the local disk) reaches an object that a row names. `AnswersWithinTenant` is checked on everything read, a
downloaded report included, whose rows were selected by an earlier request. It asks whose file, job or report a row is *about*, and leaves out
the error rows without a tenant; `ErrorsWithinTenant` asks the same of those, and is violated (`bug_error_tenant`). `Lineage` allows an
error no tenant for the same reason. `SnapshotsJoin` says how far a report can be torn:
a finding without its record is of a record that came while it was read. `CompletedJobShowsRecord` is what
`frontend/src/App.tsx:232-238` relies on.

*Agent properties.* `SubmissionsAuthorized` states the security contract of
`docs/v1.10-authorization-policy-gate.md` field by field, without the fingerprint by which the code ensures it.
`SuccessIsSettled` ties a receipt, also a replayed one, to an effect. `ReceiptsAreFinal` is an action
property: within a process, a key with a receipt is never executed again. `OneActionPerKey` is the part of it that matters when a caller
uses a key twice: the second action gets the first one's receipt, and is not carried out, also when the first one failed.

### Disagreements between code and documentation

Runs in which TLC finds a property violated that the repository states:

- `bug_completed_is_final`: two requests read a failed job; one commits, a worker completes the job, the other
  commits and puts it back to `queued`. `durable.py:22` gives `completed` no transition.
- `bug_running_unleased`: a late flush as above leaves a queued row that still carries its lease. A third request
  reads that row, a worker claims it, and the request's flush sets `lease_expires_at` to NULL on the running row.
  Recovery tests `lease_expires_at < now`, which NULL never satisfies: the job stays running for ever once its
  worker dies. `README.md:574` says the lease expires and any worker recovers it.
- `bug_graceful_stop`: the heartbeat loop ends as soon as a stop is requested, the handler goes on. Without a
  crash, another worker takes the job over (`README.md:573-575`).
- `bug_approval_expiry`: the gate is asked once per call; an attempt handed out after a slow first one may
  come after the approval's expiry, which `docs/v1.10-authorization-policy-gate.md:13` rules out.
- `bug_error_tenant`: a handler raises something other than a `PipelineError`, an error of the database for instance; `run_once` records it
  without organization and workspace (`document_jobs.py:100-114`), and `apply_tenant_filter` shows rows without a tenant to every tenant. So
  a user of one tenant is answered with the error row of another tenant's job, exception text and worker details included.
  `AI_POWERED_DATA_PIPELINE_IMPLEMENTATION_PLAN.md:571` says "Tenant A cannot access Tenant B data", and
  `docs/PRODUCTION_SAAS_ARCHITECTURE.md:39` that tenant-owned tables carry the organization.

Four more have no run of their own.

- A single run request is enough to take a running job away from its worker, without any fault and on either dialect: `fail_job` leaves its
  `execution_id` in the row of a job that waits for its retry; a request that reads this row, and flushes after a worker has claimed it,
  writes `execution_id = NULL` on the running row (`durable.py:166`), whose worker then owns it no longer. Its heartbeats and its result are
  dropped, the lease runs out, and the job is executed again next to the first handler. `RunningIsNotReassigned` names this as the one
  thing that can happen to a running job's execution. It costs an attempt and breaks nothing that is proved of requests below; it is
  why `OneHandler` assumes that there are none.
- On SQLite the `UPDATE` of a claim writes the SELECT's `attempts + 1`, so a request that resets the counter in between and the claim overwrite
  each other, and a job may run more often than its budget: `queue_sqlite` has no run requests for this reason.
- `parse_file` is a plain call in a coroutine, so a long parse keeps the heartbeat from running and the job is taken over from a live worker
  without any fault; an interval longer than the lease, which the settings allow, does the same. `doc_result` includes these takeovers, and
  `RecordsUnique`, `CompletedHasResult` and `CompletedByItsExecution` hold in spite of them.
- With `storage_backend = s3` an uploaded file's path is an `s3://` address, and `parse_file` looks for it in the local file system
  (`parsers/dispatcher.py:12`), so every job of such a file fails. `README.md:449-450` and
  `docs/V1.4_PRODUCTION_OBJECT_STORAGE.md:21` say that the backend can be selected without changing pipeline and parsers. `Workspace` has it
  as `Readable`.

## 4. Fairness

`JobQueue!FairSpec` is used by `queue_contract`. It assumes that

- time passes (`Tick`);
- every handler ends (`Finish`): the pipeline awaits only database statements, the bounded loop of
  `retry_async` and one provider call, which the client library bounds by its default timeout;
- a worker outside `Unreliable` goes on polling and sending heartbeats (`Poll`, `Heartbeat`): `run` is an
  endless loop that sleeps between polls;
- a request that was read is committed or rolled back.

Nothing is assumed of faults, of restarts, of clients, or of the unreliable worker: one reliable worker is enough
for every job to end. Weak fairness suffices: each of these stays enabled until it is taken or its reason is gone.

`DocumentReview!FairSpec` is used by `review`. It assumes weak fairness of each execution's steps: a provider call returns,
because the client library bounds it by a timeout; a database statement returns or raises; a sleep ends. Nothing is assumed of
the outcome: every call may fail, and `ExecutionsEnd` rests on the loop's bound. This is what the first model assumes of
`Finish`. `workspace` states no liveness: clients may stop at any point.

## 5. Proofs

All theorems hold for every value of the constants that satisfies the named assumptions: finite or infinite
sets of jobs, workers, requests and keys, any lease, delay and attempt limit. Assumptions are
`QueueAssumption` (naturals where the settings are naturals, `max_attempts`, lease and interval at least 1,
`None` different from data), and `AttemptsAssumption`, `GrantAssumption`, `NoneAssumption` likewise.

**JobQueueProofs.** `TypeCorrect`: `Spec => []TypeOK`, including who holds a job and an execution id when.

`SnapshotKept`: `Spec => []SnapshotCurrent`, both dialects. `SnapshotCurrent` is not inductive. A new lease must get
an id that no worker still holds for the job (`ExecutionsIssued`: held ids are at most `claims`), and a
request that resets the counter of a row must take it out of `running` in the same flush (`RequestsWhole`), or an
owner's count would become outdated. `SnapshotInv` is their conjunction with `TypeOK`.

`BudgetKept`: on PostgreSQL, `Spec => []AttemptBudget`. The inductive invariant `BudgetInv` adds a per-row
account (`RowBudget`): `claims <= MaxAttempts * resets + attempts`, a queued row has an attempt left, a
running or failed row has used one. It needs `SnapshotCurrent`, because `fail_job` puts a row back by the count on
the detached object; `RequestsExact`, because a reset must hit `status` and `attempts` together or the account would
gain a budget for free; and `UpdatesFresh`, that an `UPDATE` of a claim never writes an outdated count. On PostgreSQL this
holds because no worker is ever between SELECT and UPDATE; on SQLite it needs the argument below, and is false once requests
interleave (section 3).

**JobQueueContractProofs.** Everything here is about behaviours in which no two re-runs of one failed job overlap: of two requests that
found their job failed and have not written yet, each found another job (`RerunsApart`). Requests that found their job queued may overlap
with anything. The condition is a hypothesis on the behaviour (`Spec /\ []RerunsApart`), since nothing in the code enforces it; it holds
wherever one person asks for runs, and `bug_completed_is_final` and `bug_running_unleased` show that it is needed.
`RunningStaysLeased`: `[]RunningIsLeased`, both dialects, every fault. The inductive invariant `LeaseInv` says that a row
has a lease exactly when it is running, and that what a request read is still so (`RequestsCurrent`): it found no lease, so its
flush takes none, and a row it found failed still is, so it leaves none behind. With a second re-run the failed row may have been
claimed in between, which is `bug_running_unleased`.
`EndsFenced`: the action property `EndsByOwnerOrExpiry`, both dialects, from the same invariant: every action that changes the status of a
running row tests either `Owns` or `Expired`, and a request never flushes a status onto one.
`RunningKept`: the action property `RunningIsNotReassigned`, both dialects, any number of requests: a lease needs a queued row; a flush that leaves
a row running has found no lease on the row it read (`RequestsCurrent`), so it takes none, and writes no execution id but NULL.
`CompletedStays`: a completed job stays completed, both dialects; two re-runs refute it in `bug_completed_is_final`.
`ImplementsContractSafety`: `Contract!SafeSpec` on PostgreSQL. Every step moves every row as a step of `JobContract` or not at
all (`RowsStep`); `RowBudget` gives that a row put back has an attempt left, `SnapshotCurrent` that `fail_job` knows,
`RequestsCurrent` that a request only re-runs a failed row.

**JobQueueWorkersProofs** (no run requests).
`OneHandler`: `Spec => []OneHandlerPerJob`, both dialects, if heartbeats are punctual, workers only fail by crashing, and
`HeartbeatInterval + MaxGap <= LeaseDuration`. `HandlerInv` says that a worker that runs owns its row and its next heartbeat
(`timer`) comes before its lease ends, so that no recovery selects the row. The inequality is needed because on SQLite a lease
counts from the SELECT. The defaults (15 s and 60 s) satisfy it; the settings do not compare the two.
`UnlockedBudgetKept`: `Spec => []AttemptBudget` on SQLite too, under every fault, if every retry waits (`retry_delay > 0`; the settings
also allow 0) and `MaxGap <= LeaseDuration`. `AsSelected` lists what a row may have become since the SELECT: whatever changed it
left it not eligible at the SELECT's instant, so the compare-and-swap fails, or left it as it was.
`UnlockedContractSafety`: under the same conditions the refinement of `JobContract` holds on SQLite as well, since `UpdatesFresh` is all that
the proof of `ImplementsContractSafety` takes from the row lock.

**DocumentWorkerProofs.** `DocTypeCorrect`, `NoFalseCompletion` (`[]CompletedHasResult`) and `OneRecordPerJob`
(`[]RecordsUnique`). `DocInv` adds `Progress`: a handler that validates has a record for its job, one that has returned
has findings as well, whoever wrote them. Records and findings only grow, so neither a crash nor a
takeover can take that away, and only `CompleteJob` after `returned` makes a job completed. The types of the queue's
part are those of `JobQueueProofs`.
`CompletionIsOwn` (`[]CompletedByItsExecution`) and `FindingsAreAccounted` (`[]FindingsAccounted`) rest on `AccountInv`: every handler holds
an id that was issued for its job (`IdsIssued`), and no other handler of the job holds it (`IdsDistinct`), though it may have lost the job. The
id tells apart who committed what. A handler that has its batch of findings has returned or met a database error after the commit.

**DocumentQueueProofs.** `ImplementsQueue`: `DocSpec => FollowsQueue`, step by step: the handler's stages leave the queue's
variables alone, and each way `DocFinish` settles a job is one that `Finish` allows. It assumes `Heartbeats = "late"`: a parse
that blocks the event loop delays heartbeats that are due, and the queue with punctual heartbeats rules this out, so that what is proved
under punctual heartbeats (`OneHandler`) is *not* true of the worker with its real handler. Everything else carries over:
`DocBudgetKept`, `DocEndsFenced`, `DocContractSafety`. Together with the invariants of the handler it gives two results that
neither model has alone: `FindingsAreBounded` (`[]BatchesBounded`, PostgreSQL), because batches are accounted to executions and
executions to the budget; and `ResultForGood`, both dialects: `[](Done(j) => [](Done(j) /\ HasResult(j)))`, a job that is
once completed stays so and keeps its record and findings while late handlers are still at work.

**DocumentReviewProofs.** `ReviewTypeCorrect`, `NothingUntrustworthyPasses`, `FindingsAreReviewed`, `EveryRetryAccounted`, `StepsCountDown`, for any settings,
documents, amounts, answers and number of executions. `CoverInv` ties rows to their authors: a record is its
author's result with the decision made of it, an execution that stored findings has a result the rules object to, and with the mock
extractor all results are the same. That an unflagged record is trustworthy follows from the record alone: no rule found anything.
`AccountInv` describes each execution's rows at each step: retryable ones for `1 .. attempt - 1`, and for the running attempt in the delay; the
final row from its commit on; the worker's row when `run_once` has written it.
`StepsCountDown` is the part of `ExecutionsEnd` that can be proved: `Left(e)`, a natural number of at most `3 * MaxAttempts + 5`, goes down
with every step of `e`, is left alone by the steps of others, and is 0 exactly when `e` is over. Fairness adds that the steps are taken.

**WorkspaceProofs.** `WorkspaceTypeCorrect`, `RowsAlwaysHaveObjects`, `LineageHolds`, `TenantsAreApart`, `OnlyNewFindingsDangle`,
`CompletedJobsShowRecords`, `NothingStoredIsLost`, for any number of tenants, users, files, jobs, reports and overlapping requests, and both backends. `WorkspaceInv` adds to the
checked invariants what a request relies on between its steps (`RequestInv`: what it stored is there and no row names it yet, what it
found is its tenant's, every record it knew of and may see is among its rows), that no two requests are about to name one
object (`StoredApart`, the point of drawing ids), that a row's path has the row's id, that what a stored report or a request in progress holds is about
its tenant's files, jobs and reports (`Shown`, stable because rows keep their owner), and that a handler past its insert has a record (`HandlersInv`). The key lemma is `Grows`: objects and rows are added and never
changed, so a step of one request or handler cannot undo what another relies on (`RequestStable`). `NothingStoredIsLost` (the action
property `StoredForGood`) follows from it and `RowsHaveObjects`. The assumptions are those of
`WorkspaceAssumption`: `None` is no row, and no tenant is `NoTenant`.

**AgentExecutionProofs.** `AgentTypeCorrect`, `NothingUnauthorized`, `SuccessIsReal`, `ReceiptsCount` and the action
properties `ReceiptsFinal` and `OneAction` (a key without a receipt and without a running call was never handed out, so a call
counted before belongs to the running one). `OnlyRetriesAreLate` bounds what `bug_approval_expiry` shows: an expired approval starts
nothing, only the retries of a call that started in time can be late. The gate's conditions imply the security contract (`GateAllows`, from `ApprovalBinds`: equal
fingerprints mean equal fields); `CallAllowed` carries them from the decision through every retry to the
submission; `ReceiptsTrue` extends `SuccessIsSettled` to all stored receipts, which a replay may return.

**Only model-checked.** Liveness (`ExecutionsEnd`, up to `StepsCountDown`; `Settles`), and with it the liveness part of the refinement `ImplementsContract`:
fairness is out of reach of the prover. Its safety part is `ImplementsContractSafety`. `RunningIsLeased` and `EndsByOwnerOrExpiry` are proved for
behaviours without overlapping re-runs, because they are false of others; so is `RunningIsNotReassigned`; `OneHandlerPerJob` is proved without
requests, likewise.
Every other invariant and action property of a passing run is proved of every behaviour of its specification.

## 6. Not modelled, and the plan

Not modelled:

- the branch of `run_document_pipeline` that manages job status itself, `update_processing_job_status`, `delete` and `presign_get` of the
  stores, `ToolRegistry`, the agent tables, `VendorCase`, intake classification: no caller in the application beyond tests;
- the texts parsers and patterns work on, password hashing, logging, middleware, settings (constants of the models), the averages and
  rankings of the dashboard, the page's own state;
- audit rows: written in the transaction of what they are about and read by their listing alone;
- the seeding of the demo identity at start-up, where two processes may race and one fails;
- migrations.

Left to do, in this order:

1. *Composition*: `Workspace` over `DocumentWorker`, so that reports meet overlapping executions of one job.
2. *Browser*: upload, run and poll over `JobContract`, with the limit of 30 looks, if the page comes to promise anything about it.
