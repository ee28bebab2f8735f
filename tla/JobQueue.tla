------------------------------- MODULE JobQueue -------------------------------
(***************************************************************************)
(* The durable job queue of app/workers/durable.py, the worker loop of     *)
(* app/workers/document_jobs.py that drives it, and the API requests of    *)
(* app/api/routes/jobs.py that write the same rows.                        *)
(*                                                                         *)
(* A worker runs one task loop and one heartbeat task; a request reads its *)
(* row, decides on what it read, and writes later.  Each SQL statement     *)
(* that the database executes atomically is one action.                    *)
(*                                                                         *)
(* Time.  Every timestamp is kept RELATIVE to the present: 0 is now, a     *)
(* positive value lies in the future, a negative one in the past, and Tick *)
(* moves all of them one unit into the past.  The age of a `now' that was  *)
(* read earlier and is still to be used is bounded by MaxGap, and a        *)
(* timestamp stops ageing at Past, one unit before the oldest such `now'.  *)
(* The code only compares timestamps with a `now', so nothing it can tell  *)
(* apart is lost, and time itself needs no bound.                          *)
(***************************************************************************)
EXTENDS Integers, FiniteSets

CONSTANTS
  Jobs,              \* ids of processing_jobs rows
  Workers,           \* worker_id of each worker process
  Clients,           \* API requests that may be in flight together
  Unreliable,        \* the workers that Faults may strike
  Faults,            \* subset of {"crash", "stop", "heartbeat_error"}
  Dialect,           \* "postgresql" or "sqlite" (session.bind.dialect.name)
  Heartbeats,        \* "punctual": one that is due is sent before time passes;
                     \* "late": it may wait for any time
  MaxAttempts,       \* ProcessingJob.max_attempts
  LeaseDuration,     \* worker_lease_duration_seconds, in time units
  HeartbeatInterval, \* worker_heartbeat_interval_seconds, in time units
  RetryBase,         \* worker_retry_base_seconds, in time units
  RetryMax,          \* worker_retry_max_seconds, in time units
  MaxGap,            \* bound: age of a `now' between its read and its use
  MaxRequests,       \* bound: run requests that pass the status check
  None               \* SQL NULL

ASSUME QueueAssumption ==
  /\ Unreliable \subseteq Workers
  /\ Faults \subseteq {"crash", "stop", "heartbeat_error"}
  /\ Dialect \in {"postgresql", "sqlite"}
  /\ Heartbeats \in {"punctual", "late"}
  /\ MaxAttempts \in Nat \ {0}
  /\ LeaseDuration \in Nat \ {0}
  /\ HeartbeatInterval \in Nat \ {0}
  /\ RetryBase \in Nat
  /\ RetryMax \in Nat
  /\ MaxGap \in Nat
  /\ MaxRequests \in Nat
  /\ None \notin Int
  /\ None \notin Jobs
  /\ None \notin Workers

VARIABLES
  job,       \* job[j]: the processing_jobs row of j
  pc,        \* pc[w]: where run/run_once of worker w is
  held,      \* held[w]: the detached ProcessingJob object run_once holds
  beat,      \* beat[w]: the heartbeat task of the current execution
  timer,     \* timer[w]: time left in the heartbeat task's sleep
  stopping,  \* the workers whose stopping event is set
  request,   \* request[c]: an API run request between its read and its write
  accepted,  \* run requests that passed the status check (bounded)
  claims,    \* claims[j]: execution ids issued for j; the last is the newest
  resets     \* resets[j]: times a request put the attempt counter back to 0

workerVars == <<pc, held, beat, timer, stopping>>
vars == <<job, workerVars, request, accepted, claims, resets>>

QUEUED    == "queued"
RUNNING   == "running"
COMPLETED == "completed"
FAILED    == "failed"
ABSENT    == "absent"     \* no row yet

Past == -(MaxGap + 1)

\* A row as create_processing_job inserts it, and the absence of one.
NewRow == [status |-> QUEUED, attempts |-> 0, next_run_at |-> 0,
           lease_owner |-> None, lease_expires_at |-> None,
           execution_id |-> None]
NoRow  == [NewRow EXCEPT !.status = ABSENT]
NoJob  == [job |-> None, exec |-> None, attempts |-> 0, age |-> 0]
NoRequest == [job |-> None, dirty |-> {}, age |-> 0]

\* Columns an ORM flush may find changed, next_run_at aside: a request always
\* changes that one.
Columns == {"status", "attempts", "lease_owner", "lease_expires_at",
            "execution_id"}

Init ==
  /\ job = [j \in Jobs |-> NoRow]
  /\ pc = [w \in Workers |-> "poll"]
  /\ held = [w \in Workers |-> NoJob]
  /\ beat = [w \in Workers |-> "off"]
  /\ timer = [w \in Workers |-> 0]
  /\ stopping = {}
  /\ request = [c \in Clients |-> NoRequest]
  /\ accepted = 0
  /\ claims = [j \in Jobs |-> 0]
  /\ resets = [j \in Jobs |-> 0]

-------------------------------------------------------------------------------
(***************************************************************************)
(* Row predicates and helpers.                                             *)
(***************************************************************************)

\* retry_delay: exponential in the attempt, capped.
retry_delay(attempt) ==
  LET doublings == IF attempt > 0 THEN attempt - 1 ELSE 0
      delay     == RetryBase * 2^doublings
  IN  IF delay > RetryMax THEN RetryMax ELSE delay

\* Mutant of Expired: a lease is over at its last instant already.
Expired_Early(row, now) ==
  row.lease_expires_at # None /\ row.lease_expires_at <= now

\* The lease ran out before the instant `now' (NULL compares as unknown).
Expired(row, now) ==
  row.lease_expires_at # None /\ row.lease_expires_at < now

\* The `eligible' condition of claim_next_job, at the instant `now'.
Eligible(row, now) ==
  /\ row.status = QUEUED
  /\ row.next_run_at <= now
  /\ row.lease_expires_at # None => row.lease_expires_at < now

\* ORDER BY next_run_at; created_at only orders equals, so a tie is open.
First(now) ==
  {j \in Jobs : /\ Eligible(job[j], now)
                /\ \A k \in Jobs : Eligible(job[k], now) =>
                     job[j].next_run_at <= job[k].next_run_at}

\* Mutant of Owns: the execution a worker holds is not compared.
Owns_AnyExecution(w, j) ==
  /\ held[w].job = j
  /\ job[j].status = RUNNING

\* The WHERE clause with which a worker writes the execution it holds.
Owns(w, j) ==
  /\ held[w].job = j
  /\ job[j].status = RUNNING
  /\ job[j].lease_owner = w
  /\ job[j].execution_id = held[w].exec

\* The columns request_job_run assigns whose value differs from the one read.
Dirty(row) ==
  {c \in Columns :
     \/ c = "status" /\ row.status = FAILED
     \/ c = "attempts" /\ row.status = FAILED /\ row.attempts # 0
     \/ c = "lease_owner" /\ row.lease_owner # None
     \/ c = "lease_expires_at" /\ row.lease_expires_at # None
     \/ c = "execution_id" /\ row.execution_id # None}

\* The flush: UPDATE ... SET <dirty columns> WHERE id, on whatever row is there.
Flushed(row, dirty, now) ==
  [status           |-> IF "status" \in dirty THEN QUEUED ELSE row.status,
   attempts         |-> IF "attempts" \in dirty THEN 0 ELSE row.attempts,
   next_run_at      |-> now,
   lease_owner      |-> IF "lease_owner" \in dirty
                          THEN None ELSE row.lease_owner,
   lease_expires_at |-> IF "lease_expires_at" \in dirty
                          THEN None ELSE row.lease_expires_at,
   execution_id     |-> IF "execution_id" \in dirty
                          THEN None ELSE row.execution_id]

-------------------------------------------------------------------------------
(***************************************************************************)
(* The worker.                                                             *)
(***************************************************************************)

\* A running row is given up: it gets a new status and next_run_at, and no
\* lease; execution_id is NULL or left as it was.
Released(row, status, next_run_at, execution_id) ==
  [status |-> status, attempts |-> row.attempts, next_run_at |-> next_run_at,
   lease_owner |-> None, lease_expires_at |-> None,
   execution_id |-> execution_id]

\* Mutant of Recovered: the second UPDATE, of rows without an attempt left, is
\* missing.
Recovered_NoTerminal(row) ==
  IF row.status = RUNNING /\ Expired(row, 0) /\ row.attempts < MaxAttempts
    THEN Released(row, QUEUED, 0, None)
    ELSE row

\* Mutant of Recovered: every expired row is queued again.
Recovered_Unbounded(row) ==
  IF row.status = RUNNING /\ Expired(row, 0)
    THEN Released(row, QUEUED, 0, None)
    ELSE row

\* recover_expired_jobs: what its two UPDATE statements make of one row.
Recovered(row) ==
  IF row.status = RUNNING /\ Expired(row, 0)
    THEN IF row.attempts < MaxAttempts
           THEN Released(row, QUEUED, 0, None)
           ELSE Released(row, FAILED, row.next_run_at, None)
    ELSE row

\* run_once begins: one transaction recovers every expired row.
Recover(w) ==
  /\ pc[w] = "poll"
  /\ w \notin stopping
  /\ job' = [j \in Jobs |-> Recovered(job[j])]
  /\ pc' = [pc EXCEPT ![w] = "claim"]
  /\ UNCHANGED <<held, beat, timer, stopping, request, accepted, claims, resets>>

\* claim_next_job found nothing: run waits for the next poll.
NoCandidate(w) ==
  /\ pc[w] = "claim"
  /\ First(0) = {}
  /\ pc' = [pc EXCEPT ![w] = "poll"]
  /\ UNCHANGED <<job, held, beat, timer, stopping, request, accepted, claims,
                 resets>>

\* Mutant of Lease: the object keeps the attempt count of the SELECT.
Lease_StaleObject(w, j, attempts, now) ==
  /\ claims' = [claims EXCEPT ![j] = @ + 1]
  /\ job' = [job EXCEPT ![j] =
               [status |-> RUNNING, attempts |-> attempts,
                next_run_at |-> job[j].next_run_at, lease_owner |-> w,
                lease_expires_at |-> now + LeaseDuration,
                execution_id |-> claims[j] + 1]]
  /\ held' = [held EXCEPT ![w] = [job |-> j, exec |-> claims[j] + 1,
                                  attempts |-> attempts - 1, age |-> 0]]
  /\ pc' = [pc EXCEPT ![w] = "run"]
  /\ beat' = [beat EXCEPT ![w] = IF w \in stopping THEN "off" ELSE "on"]
  /\ timer' = [timer EXCEPT ![w] = IF w \in stopping THEN 0
                                    ELSE HeartbeatInterval]
  /\ UNCHANGED <<stopping, request, accepted, resets>>

\* The UPDATE of claim_next_job wrote row j with a fresh execution id, and
\* run_once starts the handler and the heartbeat task, which ends at once if
\* the worker is stopping.
Lease(w, j, attempts, now) ==
  /\ claims' = [claims EXCEPT ![j] = @ + 1]
  /\ job' = [job EXCEPT ![j] =
               [status |-> RUNNING, attempts |-> attempts,
                next_run_at |-> job[j].next_run_at, lease_owner |-> w,
                lease_expires_at |-> now + LeaseDuration,
                execution_id |-> claims[j] + 1]]
  /\ held' = [held EXCEPT ![w] = [job |-> j, exec |-> claims[j] + 1,
                                  attempts |-> attempts, age |-> 0]]
  /\ pc' = [pc EXCEPT ![w] = "run"]
  /\ beat' = [beat EXCEPT ![w] = IF w \in stopping THEN "off" ELSE "on"]
  /\ timer' = [timer EXCEPT ![w] = IF w \in stopping THEN 0
                                    ELSE HeartbeatInterval]
  /\ UNCHANGED <<stopping, request, accepted, resets>>

\* PostgreSQL: the SELECT ... FOR UPDATE SKIP LOCKED holds the row until the
\* UPDATE commits, so the two are one step.
Claim(w) ==
  /\ Dialect = "postgresql"
  /\ pc[w] = "claim"
  /\ \E j \in First(0) : Lease(w, j, job[j].attempts + 1, 0)

\* SQLite: the SELECT takes no lock ...
Select(w) ==
  /\ Dialect = "sqlite"
  /\ pc[w] = "claim"
  /\ \E j \in First(0) :
       held' = [held EXCEPT ![w] = [job |-> j, exec |-> None,
                                    attempts |-> job[j].attempts, age |-> 0]]
  /\ pc' = [pc EXCEPT ![w] = "update"]
  /\ UNCHANGED <<job, beat, timer, stopping, request, accepted, claims, resets>>

\* ... and the UPDATE tests `eligible' again, at the SELECT's instant, and
\* writes the attempt count it computed from the SELECT's row.
Update(w) ==
  /\ pc[w] = "update"
  /\ LET now == -held[w].age
     IN  \/ /\ Eligible(job[held[w].job], now)
            /\ Lease(w, held[w].job, held[w].attempts + 1, now)
         \/ /\ ~Eligible(job[held[w].job], now)
            /\ pc' = [pc EXCEPT ![w] = "poll"]
            /\ held' = [held EXCEPT ![w] = NoJob]
            /\ UNCHANGED <<job, beat, timer, stopping, request, accepted,
                           claims, resets>>

\* The heartbeat task wakes up and extends the lease if this execution still
\* holds it; otherwise, or when the worker is stopping, the task ends.  The
\* handler is not told.
Heartbeat(w) ==
  /\ pc[w] = "run"
  /\ beat[w] = "on"
  /\ timer[w] = 0
  /\ LET j     == held[w].job
         alive == Owns(w, j) /\ job[j].lease_expires_at # None
                             /\ job[j].lease_expires_at >= 0
         again == alive /\ w \notin stopping
     IN  /\ job' = IF alive
                     THEN [job EXCEPT ![j] =
                             [@ EXCEPT !.lease_expires_at = LeaseDuration]]
                     ELSE job
         /\ beat' = [beat EXCEPT ![w] = IF again THEN "on" ELSE "off"]
         /\ timer' = [timer EXCEPT ![w] = IF again THEN HeartbeatInterval ELSE 0]
  /\ UNCHANGED <<pc, held, stopping, request, accepted, claims, resets>>

\* The heartbeat's statement fails: the exception ends the task and stays in
\* it until run_once awaits the task.
HeartbeatError(w) ==
  /\ "heartbeat_error" \in Faults
  /\ w \in Unreliable
  /\ pc[w] = "run"
  /\ beat[w] = "on"
  /\ timer[w] = 0
  /\ beat' = [beat EXCEPT ![w] = "raised"]
  /\ UNCHANGED <<job, pc, held, timer, stopping, request, accepted, claims,
                 resets>>

\* Mutant of EndRun: run_once does not let go of the job.
EndRun_KeepsJob(w) ==
  /\ pc' = [pc EXCEPT ![w] = IF beat[w] = "raised" THEN "dead" ELSE "poll"]
  /\ beat' = [beat EXCEPT ![w] = "off"]
  /\ timer' = [timer EXCEPT ![w] = 0]
  /\ UNCHANGED <<held, stopping, request, accepted, claims, resets>>

\* The end of run_once: the heartbeat task is cancelled and awaited, and an
\* exception that waits in it ends the worker.
EndRun(w) ==
  /\ pc' = [pc EXCEPT ![w] = IF beat[w] = "raised" THEN "dead" ELSE "poll"]
  /\ held' = [held EXCEPT ![w] = NoJob]
  /\ beat' = [beat EXCEPT ![w] = "off"]
  /\ timer' = [timer EXCEPT ![w] = 0]
  /\ UNCHANGED <<stopping, request, accepted, claims, resets>>

\* Mutant of CompleteJob: the UPDATE names the row by its id alone.
CompleteJob_Unfenced(w) ==
  /\ pc[w] = "run"
  /\ job' = [job EXCEPT ![held[w].job] =
               Released(@, COMPLETED, @.next_run_at, @.execution_id)]
  /\ EndRun(w)

\* The handler returned: complete_job.  Only the ownership of the row is
\* tested, not the lease's expiry.
CompleteJob(w) ==
  /\ pc[w] = "run"
  /\ LET j == held[w].job
     IN  job' = IF Owns(w, j)
                  THEN [job EXCEPT ![j] =
                          Released(job[j], COMPLETED, job[j].next_run_at,
                                   job[j].execution_id)]
                  ELSE job
  /\ EndRun(w)

\* What a handler raises: the pipeline's own errors, or anything else.
Errors == {"PipelineError", "PipelineInputError", "ValueError", "other"}

\* run_once: only an exception of no known kind is retryable.
Retryable(exc) == exc \notin {"PipelineError", "PipelineInputError", "ValueError"}

\* Mutant of FailJob: the last attempt is put back as well.
FailJob_OneMore(w, exc) ==
  /\ pc[w] = "run"
  /\ LET j == held[w].job
     IN  job' = IF Owns(w, j)
                  THEN [job EXCEPT ![j] =
                          IF ~Retryable(exc) \/ held[w].attempts > MaxAttempts
                            THEN Released(job[j], FAILED, job[j].next_run_at,
                                          job[j].execution_id)
                            ELSE Released(job[j], QUEUED,
                                          retry_delay(held[w].attempts),
                                          job[j].execution_id)]
                  ELSE job
  /\ EndRun(w)

\* The handler raised: fail_job.  Whether the failure is final is decided on
\* the detached object, and the row keeps its execution_id.
FailJob(w, exc) ==
  /\ pc[w] = "run"
  /\ LET j        == held[w].job
         terminal == ~Retryable(exc) \/ held[w].attempts >= MaxAttempts
         failed   == Released(job[j], FAILED, job[j].next_run_at,
                              job[j].execution_id)
         retried  == Released(job[j], QUEUED, retry_delay(held[w].attempts),
                              job[j].execution_id)
     IN  job' = IF Owns(w, j)
                  THEN [job EXCEPT ![j] = IF terminal THEN failed ELSE retried]
                  ELSE job
  /\ EndRun(w)

\* stop(): the event is set.  A heartbeat task that has not yet reached its
\* next sleep tests the event and ends; one that sleeps sends one heartbeat.
Stop(w) ==
  /\ "stop" \in Faults
  /\ w \in Unreliable
  /\ pc[w] # "dead"
  /\ w \notin stopping
  /\ stopping' = stopping \cup {w}
  /\ \/ UNCHANGED <<beat, timer>>
     \/ /\ beat[w] = "on"
        /\ timer[w] = HeartbeatInterval
        /\ beat' = [beat EXCEPT ![w] = "off"]
        /\ timer' = [timer EXCEPT ![w] = 0]
  /\ UNCHANGED <<job, pc, held, request, accepted, claims, resets>>

\* The process is gone with everything it held.
Gone(w) ==
  /\ pc' = [pc EXCEPT ![w] = "dead"]
  /\ held' = [held EXCEPT ![w] = NoJob]
  /\ beat' = [beat EXCEPT ![w] = "off"]
  /\ timer' = [timer EXCEPT ![w] = 0]
  /\ stopping' = stopping \ {w}
  /\ UNCHANGED <<job, request, accepted, claims, resets>>

\* run leaves its loop between two executions.
Exit(w) ==
  /\ pc[w] = "poll"
  /\ w \in stopping
  /\ Gone(w)

Crash(w) ==
  /\ "crash" \in Faults
  /\ w \in Unreliable
  /\ pc[w] # "dead"
  /\ Gone(w)

\* A new process takes the place of one that is gone.
Restart(w) ==
  /\ pc[w] = "dead"
  /\ pc' = [pc EXCEPT ![w] = "poll"]
  /\ stopping' = stopping \ {w}
  /\ UNCHANGED <<job, held, beat, timer, request, accepted, claims, resets>>

-------------------------------------------------------------------------------
(***************************************************************************)
(* The API and time.                                                       *)
(***************************************************************************)

\* POST /jobs: create_processing_job inserts the row.
CreateJob(j) ==
  /\ job[j].status = ABSENT
  /\ job' = [job EXCEPT ![j] = NewRow]
  /\ UNCHANGED <<workerVars, request, accepted, claims, resets>>

\* Mutant of RequestRun: a running job is not refused.
RequestRun_AnyStatus(c, j) ==
  /\ request[c] = NoRequest
  /\ accepted < MaxRequests
  /\ job[j].status \in {QUEUED, FAILED, RUNNING}
  /\ request' = [request EXCEPT ![c] = [job |-> j, dirty |-> Dirty(job[j]),
                                        age |-> 0]]
  /\ accepted' = accepted + 1
  /\ UNCHANGED <<job, workerVars, claims, resets>>

\* POST /jobs/{id}/run reads the row; request_job_run takes its `now', passes
\* the status check and assigns the attributes of the object in memory.
RequestRun(c, j) ==
  /\ request[c] = NoRequest
  /\ accepted < MaxRequests
  /\ job[j].status \in {QUEUED, FAILED}
  /\ request' = [request EXCEPT ![c] = [job |-> j, dirty |-> Dirty(job[j]),
                                        age |-> 0]]
  /\ accepted' = accepted + 1
  /\ UNCHANGED <<job, workerVars, claims, resets>>

\* session.commit() flushes the changed columns, whatever the row is now.
CommitRun(c) ==
  /\ request[c] # NoRequest
  /\ LET r == request[c]
     IN  /\ job' = [job EXCEPT ![r.job] = Flushed(@, r.dirty, -r.age)]
         /\ resets' = [resets EXCEPT ![r.job] =
                         IF "attempts" \in r.dirty THEN @ + 1 ELSE @]
  /\ request' = [request EXCEPT ![c] = NoRequest]
  /\ UNCHANGED <<workerVars, accepted, claims>>

\* The request dies before its commit.
AbortRun(c) ==
  /\ request[c] # NoRequest
  /\ request' = [request EXCEPT ![c] = NoRequest]
  /\ UNCHANGED <<job, workerVars, accepted, claims, resets>>

Older(t) == IF t = None THEN None ELSE IF t > Past THEN t - 1 ELSE Past

\* The row, one unit later.
Aged(row) ==
  [status |-> row.status, attempts |-> row.attempts,
   next_run_at |-> Older(row.next_run_at), lease_owner |-> row.lease_owner,
   lease_expires_at |-> Older(row.lease_expires_at),
   execution_id |-> row.execution_id]

\* One unit of time passes.  It waits for a `now' that is MaxGap old to be
\* used.
Elapse ==
  /\ \A c \in Clients : request[c] # NoRequest => request[c].age < MaxGap
  /\ \A w \in Workers : pc[w] = "update" => held[w].age < MaxGap
  /\ job' = [j \in Jobs |->
               IF job[j].status = ABSENT THEN job[j] ELSE Aged(job[j])]
  /\ timer' = [w \in Workers |-> IF timer[w] > 0 THEN timer[w] - 1 ELSE 0]
  /\ held' = [w \in Workers |->
                IF pc[w] = "update" THEN [held[w] EXCEPT !.age = @ + 1]
                ELSE held[w]]
  /\ request' = [c \in Clients |->
                   IF request[c] = NoRequest THEN NoRequest
                   ELSE [request[c] EXCEPT !.age = @ + 1]]
  /\ UNCHANGED <<pc, beat, stopping, accepted, claims, resets>>

HeartbeatDue(w) == pc[w] = "run" /\ beat[w] = "on" /\ timer[w] = 0

\* In a punctual system time also waits for every heartbeat that is due.
Tick ==
  /\ Heartbeats = "punctual" => \A w \in Workers : ~HeartbeatDue(w)
  /\ Elapse

-------------------------------------------------------------------------------
Poll(w) == Recover(w) \/ NoCandidate(w) \/ Claim(w) \/ Select(w) \/ Update(w)

Finish(w) == CompleteJob(w) \/ \E exc \in Errors : FailJob(w, exc)

Fault(w) == Stop(w) \/ Crash(w) \/ HeartbeatError(w)

WorkerStep(w) ==
  Poll(w) \/ Heartbeat(w) \/ Finish(w) \/ Fault(w) \/ Exit(w) \/ Restart(w)

ClientStep(c) ==
  CommitRun(c) \/ AbortRun(c) \/ \E j \in Jobs : RequestRun(c, j)

Next ==
  \/ Tick
  \/ \E j \in Jobs : CreateJob(j)
  \/ \E w \in Workers : WorkerStep(w)
  \/ \E c \in Clients : ClientStep(c)

(***************************************************************************)
(* Time passes, a worker that no fault can strike goes on polling and      *)
(* sending heartbeats, every handler ends, and a request is committed or   *)
(* rolled back.  Nothing obliges a client to ask, a fault to strike, or a  *)
(* process that is gone to be started again.                               *)
(***************************************************************************)
Fairness ==
  /\ WF_vars(Tick)
  /\ \A w \in Workers : WF_vars(Finish(w))
  /\ \A w \in Workers \ Unreliable : WF_vars(Poll(w)) /\ WF_vars(Heartbeat(w))
  /\ \A c \in Clients : WF_vars(CommitRun(c) \/ AbortRun(c))

Spec == Init /\ [][Next]_vars

FairSpec == Spec /\ Fairness

-------------------------------------------------------------------------------
(***************************************************************************)
(* Properties.                                                             *)
(***************************************************************************)

Row == [status : {ABSENT, QUEUED, RUNNING, COMPLETED, FAILED},
        attempts : Nat,
        next_run_at : Int,
        lease_owner : Workers \cup {None},
        lease_expires_at : Int \cup {None},
        execution_id : Nat \cup {None}]

Held == [job : Jobs \cup {None}, exec : Nat \cup {None}, attempts : Nat,
         age : 0..MaxGap]

Request == [job : Jobs \cup {None}, dirty : SUBSET Columns, age : 0..MaxGap]

\* The variables have their types; a worker holds a job exactly when it is
\* between its SELECT and the end of its handler, and an execution id exactly
\* while the handler runs.
TypeOK ==
  /\ job \in [Jobs -> Row]
  /\ pc \in [Workers -> {"poll", "claim", "update", "run", "dead"}]
  /\ held \in [Workers -> Held]
  /\ \A w \in Workers : held[w].job \in Jobs <=> pc[w] \in {"update", "run"}
  /\ \A w \in Workers : held[w].exec \in Nat <=> pc[w] = "run"
  /\ beat \in [Workers -> {"off", "on", "raised"}]
  /\ timer \in [Workers -> 0..HeartbeatInterval]
  /\ stopping \in SUBSET Workers
  /\ request \in [Clients -> Request]
  /\ \A c \in Clients : request[c].job \in Jobs \/ request[c] = NoRequest
  /\ accepted \in 0..MaxRequests
  /\ claims \in [Jobs -> Nat]
  /\ resets \in [Jobs -> Nat]

\* recover_expired_jobs, durable.py:103: a job is handed to a worker at most
\* max_attempts times, and max_attempts times more for each accepted request
\* that put its attempt counter back, whatever crashes and however the writes
\* of workers and requests interleave.
AttemptBudget == \A j \in Jobs : claims[j] <= MaxAttempts * (resets[j] + 1)

\* fail_job decides on the detached object of the claim (durable.py:222): as
\* long as its execution owns the row, that object's attempt count is the
\* row's, so that the decision is never made on an outdated count.
SnapshotCurrent ==
  \A w \in Workers, j \in Jobs :
    pc[w] = "run" /\ Owns(w, j) => held[w].attempts = job[j].attempts

\* README.md:574: when the worker of a running job dies, the lease expires and
\* any worker recovers the job.  A running job therefore always has a lease
\* that can expire: `lease_expires_at < now' never selects a NULL.
RunningIsLeased ==
  \A j \in Jobs : job[j].status = RUNNING => job[j].lease_expires_at # None

\* A job is never in the hands of two live workers: while heartbeats are
\* punctual, a lease lasts as long as the execution it was given for.
OneHandlerPerJob ==
  \A w1, w2 \in Workers :
    pc[w1] = "run" /\ pc[w2] = "run" /\ held[w1].job = held[w2].job => w1 = w2

\* README.md:574 and the WHERE clauses of durable.py:109 and 184-189: a running
\* job stops running only once its lease has run out, or by the one worker that
\* holds its current execution and ends it.  A worker that lost its job to
\* another, or a late request, cannot end it.
EndsByOwnerOrExpiry ==
  [][\A j \in Jobs :
       job[j].status = RUNNING /\ job'[j].status # RUNNING =>
         \/ Expired(job[j], 0) /\ job'[j].status \in {QUEUED, FAILED}
         \/ \E w \in Workers : /\ pc[w] = "run" /\ Owns(w, j)
                               /\ pc'[w] # "run"]_vars

\* ALLOWED_TRANSITIONS, durable.py:18-24: a completed job stays completed.
CompletedIsFinal ==
  [][\A j \in Jobs : job[j].status = COMPLETED => job'[j].status = COMPLETED]_vars

\* claim_next_job takes queued rows alone and request_job_run refuses a running
\* job (durable.py:46-50, 154-155): as long as a job stays running it is never
\* given to another execution, and its lease stays.  What a request that read
\* the job before it was leased may still take from it is its execution id:
\* request_job_run flushes the NULL after the refusal can no longer come.
RunningIsNotReassigned ==
  [][\A j \in Jobs :
       job[j].status = RUNNING /\ job'[j].status = RUNNING =>
         \/ job'[j].execution_id = job[j].execution_id
         \/ /\ job'[j].execution_id = None
            /\ job'[j].lease_expires_at # None
            /\ \E c \in Clients : /\ request[c].job = j
                                  /\ "execution_id" \in request[c].dirty
                                  /\ request'[c] = NoRequest]_vars

(***************************************************************************)
(* As long as run requests do not overlap, the queue keeps the contract of *)
(* JobContract: workers, leases, heartbeats, crashes and clocks are gone   *)
(* from it, and what is left is the state machine, the budget and the end. *)
(***************************************************************************)
Contract == INSTANCE JobContract
              WITH status <- [j \in Jobs |-> job[j].status],
                   attempts <- [j \in Jobs |-> job[j].attempts]

\* The queue's rows change as JobContract allows, and every job that is queued
\* or running is completed or failed in the end.
ImplementsContract == Contract!Spec

===============================================================================
