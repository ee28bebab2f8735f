---------------------------- MODULE JobQueueProofs ----------------------------
(***************************************************************************)
(* Proofs about JobQueue, for every set of jobs, workers and requests and  *)
(* every value of the other constants that QueueAssumption allows: the     *)
(* type invariant, and the attempt budget on PostgreSQL.                   *)
(***************************************************************************)
EXTENDS JobQueue, TLAPS

-------------------------------------------------------------------------------
(***************************************************************************)
(* What the operators on rows return.                                      *)
(***************************************************************************)

Statuses == {ABSENT, QUEUED, RUNNING, COMPLETED, FAILED}

\* A row that is given up is a row.
LEMMA ReleasedType ==
  ASSUME NEW row \in Row, NEW status \in Statuses, NEW next \in Int,
         NEW exec \in Nat \cup {None}
  PROVE  Released(row, status, next, exec) \in Row
  BY DEF Released, Row, Statuses

\* Recovery maps rows to rows.
LEMMA RecoveredType ==
  ASSUME NEW row \in Row
  PROVE  Recovered(row) \in Row
  BY QueueAssumption
  DEF Recovered, Released, Row, QUEUED, RUNNING, COMPLETED, FAILED, ABSENT

\* Time maps rows to rows.
LEMMA AgedType ==
  ASSUME NEW row \in Row
  PROVE  Aged(row) \in Row
  BY QueueAssumption DEF Aged, Older, Past, Row

\* A flush maps rows to rows.
LEMMA FlushedType ==
  ASSUME NEW row \in Row, NEW dirty \in SUBSET Columns, NEW now \in Int
  PROVE  Flushed(row, dirty, now) \in Row
  BY DEF Flushed, Row, QUEUED

\* A heartbeat maps rows to rows.
LEMMA ExtendedType ==
  ASSUME NEW row \in Row
  PROVE  [row EXCEPT !.lease_expires_at = LeaseDuration] \in Row
  BY QueueAssumption DEF Row

\* The backoff is an instant.
LEMMA DelayType ==
  ASSUME NEW attempt \in Nat
  PROVE  retry_delay(attempt) \in Int
  <1> DEFINE doublings == IF attempt > 0 THEN attempt - 1 ELSE 0
  <1>1. doublings \in Nat
    OBVIOUS
  <1>2. 2^doublings \in Int
    <2> HIDE DEF doublings
    <2> QED
      BY <1>1
  <1> QED
    BY <1>2, QueueAssumption DEF retry_delay

-------------------------------------------------------------------------------
(***************************************************************************)
(* Type correctness, one step of the proof per action.                     *)
(***************************************************************************)

\* Init puts every variable in its type.
LEMMA InitType == Init => TypeOK
  <1> SUFFICES ASSUME Init PROVE TypeOK
    OBVIOUS
  <1>1. NoRow \in Row
    BY DEF NoRow, NewRow, Row, ABSENT, QUEUED
  <1>2. NoJob \in Held /\ NoJob.job \notin Jobs /\ NoJob.exec \notin Nat
    BY QueueAssumption DEF NoJob, Held
  <1>3. NoRequest \in Request
    BY QueueAssumption DEF NoRequest, Request
  <1> QED
    BY <1>1, <1>2, <1>3, QueueAssumption DEF Init, TypeOK

\* Recovery rewrites rows and moves one worker on.
LEMMA RecoverType ==
  ASSUME TypeOK, NEW w \in Workers, Recover(w)
  PROVE  TypeOK'
  BY RecoveredType DEF TypeOK, Recover

\* A worker that found no candidate keeps holding nothing.
LEMMA NoCandidateType ==
  ASSUME TypeOK, NEW w \in Workers, NoCandidate(w)
  PROVE  TypeOK'
  BY DEF TypeOK, NoCandidate

\* A lease turns a row into a row and gives the worker what it holds.
LEMMA LeaseType ==
  ASSUME TypeOK, NEW w \in Workers, NEW j \in Jobs, NEW n \in Nat,
         NEW now \in Int, Lease(w, j, n, now)
  PROVE  TypeOK'
  BY QueueAssumption DEF TypeOK, Lease, Row, Held, RUNNING

\* Claiming on PostgreSQL is leasing a row as it is.
LEMMA ClaimType ==
  ASSUME TypeOK, NEW w \in Workers, Claim(w)
  PROVE  TypeOK'
  <1>1. PICK j \in Jobs : Lease(w, j, job[j].attempts + 1, 0)
    BY DEF Claim, First
  <1>2. job[j].attempts + 1 \in Nat
    BY DEF TypeOK, Row
  <1> QED
    BY <1>1, <1>2, LeaseType

\* The SELECT of SQLite only fills what the worker holds.
LEMMA SelectType ==
  ASSUME TypeOK, NEW w \in Workers, Select(w)
  PROVE  TypeOK'
  <1>1. PICK j \in Jobs :
          held' = [held EXCEPT ![w] = [job |-> j, exec |-> None,
                                       attempts |-> job[j].attempts, age |-> 0]]
    BY DEF Select, First
  <1>2. job[j].attempts \in Nat
    BY DEF TypeOK, Row
  <1> QED
    BY <1>1, <1>2, QueueAssumption DEF TypeOK, Select, Held

\* The UPDATE of SQLite leases the row or lets go of it.
LEMMA UpdateType ==
  ASSUME TypeOK, NEW w \in Workers, Update(w)
  PROVE  TypeOK'
  <1>1. held[w].job \in Jobs /\ held[w].attempts + 1 \in Nat /\ -held[w].age \in Int
    BY QueueAssumption DEF TypeOK, Update, Held
  <1>2. CASE Lease(w, held[w].job, held[w].attempts + 1, -held[w].age)
    BY <1>1, <1>2, LeaseType
  <1>3. CASE /\ pc' = [pc EXCEPT ![w] = "poll"]
             /\ held' = [held EXCEPT ![w] = NoJob]
             /\ UNCHANGED <<job, beat, timer, stopping, request, accepted,
                            claims, resets>>
    BY <1>3, QueueAssumption DEF TypeOK, NoJob, Held
  <1> QED
    BY <1>2, <1>3 DEF Update

\* A heartbeat changes one timestamp of one row, and the timer.
LEMMA HeartbeatType ==
  ASSUME TypeOK, NEW w \in Workers, Heartbeat(w)
  PROVE  TypeOK'
  <1> DEFINE j == held[w].job
  <1>1. j \in Jobs
    BY DEF TypeOK, Heartbeat
  <1>2. job' \in [Jobs -> Row]
    <2>1. [job[j] EXCEPT !.lease_expires_at = LeaseDuration] \in Row
      BY <1>1, ExtendedType DEF TypeOK
    <2>2. \/ job' = job
          \/ job' = [job EXCEPT ![j] =
                       [job[j] EXCEPT !.lease_expires_at = LeaseDuration]]
      BY <1>1 DEF Heartbeat
    <2> QED
      BY <1>1, <2>1, <2>2 DEF TypeOK
  <1>3. beat' \in [Workers -> {"off", "on", "raised"}]
    BY DEF TypeOK, Heartbeat
  <1>4. timer' \in [Workers -> 0..HeartbeatInterval]
    BY QueueAssumption DEF TypeOK, Heartbeat
  <1> QED
    BY <1>2, <1>3, <1>4 DEF TypeOK, Heartbeat

\* A heartbeat leaves status, count, owner and execution of every row.
LEMMA HeartbeatRows ==
  ASSUME TypeOK, NEW w \in Workers, Heartbeat(w), NEW j \in Jobs
  PROVE  /\ job'[j].status = job[j].status
         /\ job'[j].attempts = job[j].attempts
         /\ job'[j].lease_owner = job[j].lease_owner
         /\ job'[j].execution_id = job[j].execution_id
  <1>1. ASSUME NEW row \in Row, NEW new,
               new = [row EXCEPT !.lease_expires_at = LeaseDuration]
        PROVE  /\ new.status = row.status
               /\ new.attempts = row.attempts
               /\ new.lease_owner = row.lease_owner
               /\ new.execution_id = row.execution_id
    BY <1>1 DEF Row
  <1>2. job[j] \in Row
    BY DEF TypeOK
  <1>3. \/ job'[j] = job[j]
        \/ job'[j] = [job[j] EXCEPT !.lease_expires_at = LeaseDuration]
    BY DEF TypeOK, Heartbeat
  <1> QED
    BY <1>1, <1>2, <1>3

\* A heartbeat that raises only changes the task.
LEMMA HeartbeatErrorType ==
  ASSUME TypeOK, NEW w \in Workers, HeartbeatError(w)
  PROVE  TypeOK'
  BY DEF TypeOK, HeartbeatError

\* The end of run_once lets go of the job.
LEMMA EndRunType ==
  ASSUME TypeOK, NEW w \in Workers, EndRun(w), job' \in [Jobs -> Row]
  PROVE  TypeOK'
  BY QueueAssumption DEF TypeOK, EndRun, NoJob, Held

\* complete_job releases the row it owns or leaves the table alone.
LEMMA CompleteType ==
  ASSUME TypeOK, NEW w \in Workers, CompleteJob(w)
  PROVE  TypeOK'
  <1> DEFINE j == held[w].job
  <1>1. j \in Jobs
    BY DEF TypeOK, CompleteJob
  <1>2. Released(job[j], COMPLETED, job[j].next_run_at, job[j].execution_id) \in Row
    BY <1>1, ReleasedType DEF TypeOK, Row, Statuses
  <1>3. job' \in [Jobs -> Row]
    BY <1>1, <1>2 DEF TypeOK, CompleteJob
  <1> QED
    BY <1>3, EndRunType DEF CompleteJob

\* fail_job does, with one of two statuses.
LEMMA FailType ==
  ASSUME TypeOK, NEW w \in Workers, NEW exc \in Errors, FailJob(w, exc)
  PROVE  TypeOK'
  <1> DEFINE j == held[w].job
  <1>1. j \in Jobs /\ held[w].attempts \in Nat
    BY DEF TypeOK, FailJob, Held
  <1>2. Released(job[j], FAILED, job[j].next_run_at, job[j].execution_id) \in Row
    BY <1>1, ReleasedType DEF TypeOK, Row, Statuses
  <1>3. Released(job[j], QUEUED, retry_delay(held[w].attempts),
                 job[j].execution_id) \in Row
    BY <1>1, ReleasedType, DelayType DEF TypeOK, Row, Statuses
  <1>4. job' \in [Jobs -> Row]
    BY <1>1, <1>2, <1>3 DEF TypeOK, FailJob
  <1> QED
    BY <1>4, EndRunType DEF FailJob

\* A worker that stops may lose its heartbeat task.
LEMMA StopType ==
  ASSUME TypeOK, NEW w \in Workers, Stop(w)
  PROVE  TypeOK'
  BY QueueAssumption DEF TypeOK, Stop

\* A process that is gone holds nothing.
LEMMA GoneType ==
  ASSUME TypeOK, NEW w \in Workers, Gone(w)
  PROVE  TypeOK'
  BY QueueAssumption DEF TypeOK, Gone, NoJob, Held

\* A process that starts holds nothing.
LEMMA RestartType ==
  ASSUME TypeOK, NEW w \in Workers, Restart(w)
  PROVE  TypeOK'
  BY DEF TypeOK, Restart

\* The API inserts a row.
LEMMA CreateType ==
  ASSUME TypeOK, NEW j \in Jobs, CreateJob(j)
  PROVE  TypeOK'
  BY DEF TypeOK, CreateJob, workerVars, NewRow, Row, QUEUED

\* A request remembers which columns it changed.
LEMMA RequestType ==
  ASSUME TypeOK, NEW c \in Clients, NEW j \in Jobs, RequestRun(c, j)
  PROVE  TypeOK'
  <1>1. Dirty(job[j]) \in SUBSET Columns
    BY DEF Dirty
  <1>2. [job |-> j, dirty |-> Dirty(job[j]), age |-> 0] \in Request
    BY <1>1, QueueAssumption DEF Request
  <1> QED
    BY <1>2, QueueAssumption DEF TypeOK, RequestRun, workerVars

\* A request that commits flushes one row.
LEMMA CommitType ==
  ASSUME TypeOK, NEW c \in Clients, CommitRun(c)
  PROVE  TypeOK'
  <1> DEFINE r == request[c]
  <1>1. r \in Request /\ r.job \in Jobs /\ -r.age \in Int
    BY QueueAssumption DEF TypeOK, CommitRun, Request
  <1>2. Flushed(job[r.job], r.dirty, -r.age) \in Row
    BY <1>1, FlushedType DEF TypeOK, Request
  <1>3. job' \in [Jobs -> Row]
    BY <1>1, <1>2 DEF TypeOK, CommitRun
  <1>4. resets' \in [Jobs -> Nat]
    BY <1>1 DEF TypeOK, CommitRun
  <1>5. request' \in [Clients -> Request]
    BY QueueAssumption DEF TypeOK, CommitRun, NoRequest, Request
  <1> QED
    BY <1>3, <1>4, <1>5 DEF TypeOK, CommitRun, workerVars

\* A request that dies leaves nothing.
LEMMA AbortType ==
  ASSUME TypeOK, NEW c \in Clients, AbortRun(c)
  PROVE  TypeOK'
  <1>1. NoRequest \in Request
    BY QueueAssumption DEF NoRequest, Request
  <1>2. request' \in [Clients -> Request]
    BY <1>1 DEF TypeOK, AbortRun
  <1>3. \A d \in Clients : request'[d].job \in Jobs \/ request'[d] = NoRequest
    BY DEF TypeOK, AbortRun
  <1> QED
    BY <1>2, <1>3 DEF TypeOK, AbortRun, workerVars

\* Time ages rows, timers and the instants that were read.
LEMMA ElapseType ==
  ASSUME TypeOK, Elapse
  PROVE  TypeOK'
  <1>1. job' \in [Jobs -> Row]
    BY AgedType DEF TypeOK, Elapse
  <1>2. timer' \in [Workers -> 0..HeartbeatInterval]
    BY QueueAssumption DEF TypeOK, Elapse
  <1>3. held' \in [Workers -> Held]
    BY QueueAssumption DEF TypeOK, Elapse, Held
  <1>4. \A w \in Workers : held'[w].job = held[w].job /\ held'[w].exec = held[w].exec
    BY DEF TypeOK, Elapse, Held
  <1>5. request' \in [Clients -> Request]
    <2>1. NoRequest \in Request
      BY QueueAssumption DEF NoRequest, Request
    <2>2. ASSUME NEW r \in Request, r.age < MaxGap
          PROVE  [r EXCEPT !.age = @ + 1] \in Request
      BY <2>2, QueueAssumption DEF Request
    <2>3. ASSUME NEW c \in Clients PROVE request'[c] \in Request
      <3>1. request[c] \in Request
        BY DEF TypeOK
      <3>2. \/ request'[c] = NoRequest
            \/ /\ request[c].age < MaxGap
               /\ request'[c] = [request[c] EXCEPT !.age = @ + 1]
        BY DEF Elapse
      <3> QED
        BY <2>1, <2>2, <3>1, <3>2
    <2>4. request' = [c \in Clients |-> request'[c]]
      BY DEF Elapse
    <2> QED
      BY <2>3, <2>4
  <1>6. \A c \in Clients : request'[c].job \in Jobs \/ request'[c] = NoRequest
    BY DEF TypeOK, Elapse, Request
  <1> QED
    BY <1>1, <1>2, <1>3, <1>4, <1>5, <1>6 DEF TypeOK, Elapse

\* Every step keeps the types.
LEMMA NextType == TypeOK /\ [Next]_vars => TypeOK'
  <1> SUFFICES ASSUME TypeOK, [Next]_vars PROVE TypeOK'
    OBVIOUS
  <1>1. CASE Tick
    BY <1>1, ElapseType DEF Tick
  <1>2. ASSUME NEW j \in Jobs, CreateJob(j) PROVE TypeOK'
    BY <1>2, CreateType
  <1>3. ASSUME NEW w \in Workers, WorkerStep(w) PROVE TypeOK'
    <2>1. CASE Poll(w)
      BY <2>1, RecoverType, NoCandidateType, ClaimType, SelectType, UpdateType
      DEF Poll
    <2>2. CASE Heartbeat(w)
      BY <2>2, HeartbeatType
    <2>3. CASE Finish(w)
      BY <2>3, CompleteType, FailType DEF Finish
    <2>4. CASE Fault(w)
      BY <2>4, StopType, GoneType, HeartbeatErrorType DEF Fault, Crash
    <2>5. CASE Exit(w)
      BY <2>5, GoneType DEF Exit
    <2>6. CASE Restart(w)
      BY <2>6, RestartType
    <2> QED
      BY <1>3, <2>1, <2>2, <2>3, <2>4, <2>5, <2>6 DEF WorkerStep
  <1>4. ASSUME NEW c \in Clients, ClientStep(c) PROVE TypeOK'
    BY <1>4, RequestType, CommitType, AbortType DEF ClientStep
  <1>5. CASE UNCHANGED vars
    BY <1>5 DEF vars, workerVars, TypeOK
  <1> QED
    BY <1>1, <1>2, <1>3, <1>4, <1>5 DEF Next

\* The queue's variables keep their types, and a worker holds a job and an
\* execution exactly while it works on one (durable.py:41-80 and
\* document_jobs.py:67-143), whatever the constants.
THEOREM TypeCorrect == Spec => []TypeOK
  <1>1. Init => TypeOK
    BY InitType
  <1>2. TypeOK /\ [Next]_vars => TypeOK'
    BY NextType
  <1> QED
    BY <1>1, <1>2, PTL DEF Spec

-------------------------------------------------------------------------------
(***************************************************************************)
(* The snapshot a worker decides on.  SnapshotCurrent alone is not         *)
(* inductive: a new lease of a job must get an execution id that no worker *)
(* still holds for it, and a request that resets the counter of a row must *)
(* also take it out of `running'.                                          *)
(***************************************************************************)

ExecutionsIssued ==
  \A w \in Workers : pc[w] = "run" => held[w].exec <= claims[held[w].job]

RequestsWhole ==
  \A c \in Clients : "attempts" \in request[c].dirty =>
                       "status" \in request[c].dirty

SnapshotInv == TypeOK /\ RequestsWhole /\ ExecutionsIssued /\ SnapshotCurrent

\* A lease issues a fresh execution id and hands out the count it writes.
LEMMA LeaseSnapshot ==
  ASSUME SnapshotInv, NEW w \in Workers, NEW j \in Jobs, NEW n \in Nat,
         NEW now \in Int, Lease(w, j, n, now)
  PROVE  ExecutionsIssued' /\ SnapshotCurrent'
  <1>1. /\ claims \in [Jobs -> Nat]
        /\ \A v \in Workers : pc[v] = "run" => /\ held[v].exec \in Nat
                                              /\ held[v].job \in Jobs
    BY DEF SnapshotInv, TypeOK
  <1>2. \A v \in Workers : pc'[v] = "run" =>
          IF v = w
            THEN held'[v].job = j /\ held'[v].exec = claims[j] + 1
                   /\ held'[v].attempts = n
            ELSE pc[v] = "run" /\ held'[v] = held[v]
    BY DEF SnapshotInv, TypeOK, Lease
  <1>3. \A k \in Jobs : IF k = j
                          THEN /\ claims'[k] = claims[k] + 1
                               /\ job'[k].execution_id = claims[k] + 1
                               /\ job'[k].attempts = n
                          ELSE claims'[k] = claims[k] /\ job'[k] = job[k]
    BY DEF SnapshotInv, TypeOK, Lease
  <1>4. ExecutionsIssued'
    BY <1>1, <1>2, <1>3 DEF SnapshotInv, ExecutionsIssued
  <1>5. ASSUME NEW v \in Workers, NEW k \in Jobs, pc'[v] = "run", Owns(v, k)'
        PROVE  held'[v].attempts = job'[k].attempts
    <2>1. CASE k = j
      <3>1. v = w
        BY <1>1, <1>2, <1>3, <1>5, <2>1 DEF SnapshotInv, ExecutionsIssued, Owns
      <3> QED
        BY <1>2, <1>3, <1>5, <2>1, <3>1
    <2>2. CASE k # j
      <3>1. v # w
        BY <1>2, <1>5, <2>2 DEF Owns
      <3>2. pc[v] = "run" /\ held'[v] = held[v] /\ job'[k] = job[k]
        BY <1>2, <1>3, <1>5, <2>2, <3>1
      <3>3. Owns(v, k)
        BY <1>5, <3>2 DEF Owns
      <3> QED
        BY <3>2, <3>3 DEF SnapshotInv, SnapshotCurrent
    <2> QED
      BY <2>1, <2>2
  <1> QED
    BY <1>4, <1>5 DEF SnapshotCurrent

\* Every other step: who still runs holds what it held, no execution id is
\* issued, and a row that still runs keeps its execution and its count.
LEMMA OtherSnapshot ==
  ASSUME SnapshotInv, TypeOK',
         \A w \in Workers : pc'[w] = "run" => pc[w] = "run" /\ held'[w] = held[w],
         claims' = claims,
         \A j \in Jobs : job'[j].status = RUNNING =>
           /\ job[j].status = RUNNING
           /\ job'[j].attempts = job[j].attempts
           /\ job'[j].execution_id # None =>
                job'[j].execution_id = job[j].execution_id
           /\ job'[j].lease_owner # None =>
                job'[j].lease_owner = job[j].lease_owner
  PROVE  ExecutionsIssued' /\ SnapshotCurrent'
  <1>1. ExecutionsIssued'
    BY DEF SnapshotInv, ExecutionsIssued
  <1>2. ASSUME NEW w \in Workers, NEW j \in Jobs, pc'[w] = "run", Owns(w, j)'
        PROVE  held'[w].attempts = job'[j].attempts
    <2>1. pc[w] = "run" /\ held'[w] = held[w] /\ held[w].exec \in Nat
      BY <1>2 DEF SnapshotInv, TypeOK
    <2>2. held[w].exec # None /\ w # None
      BY <2>1, QueueAssumption
    <2>3. Owns(w, j) /\ job'[j].attempts = job[j].attempts
      BY <1>2, <2>1, <2>2 DEF Owns
    <2> QED
      BY <2>1, <2>3 DEF SnapshotInv, SnapshotCurrent
  <1> QED
    BY <1>1, <1>2 DEF SnapshotCurrent

\* A request that resets the counter has read a failed row.
LEMMA NextWhole == TypeOK /\ RequestsWhole /\ [Next]_vars => RequestsWhole'
  <1> SUFFICES ASSUME TypeOK, RequestsWhole, [Next]_vars PROVE RequestsWhole'
    OBVIOUS
  <1>1. ASSUME NEW c \in Clients, ClientStep(c) PROVE RequestsWhole'
    <2>1. CASE CommitRun(c) \/ AbortRun(c)
      BY <2>1 DEF RequestsWhole, CommitRun, AbortRun, NoRequest, TypeOK
    <2>2. ASSUME NEW j \in Jobs, RequestRun(c, j) PROVE RequestsWhole'
      BY <2>2 DEF RequestsWhole, RequestRun, Dirty, Columns, TypeOK
    <2> QED
      BY <1>1, <2>1, <2>2 DEF ClientStep
  <1>2. CASE Tick
    <2>1. \A c \in Clients : request'[c].dirty = request[c].dirty
      BY <1>2 DEF Tick, Elapse, TypeOK, Request
    <2> QED
      BY <2>1 DEF RequestsWhole
  <1>3. ASSUME NEW w \in Workers, WorkerStep(w) PROVE request' = request
    BY <1>3 DEF WorkerStep, Poll, Recover, NoCandidate, Claim, Select, Update,
                Lease, Heartbeat, Finish, CompleteJob, FailJob, EndRun, Fault,
                Stop, Crash, HeartbeatError, Gone, Exit, Restart
  <1>4. ASSUME NEW j \in Jobs, CreateJob(j) PROVE request' = request
    BY <1>4 DEF CreateJob
  <1>5. CASE UNCHANGED vars
    BY <1>5 DEF vars, RequestsWhole
  <1> QED
    BY <1>1, <1>2, <1>3, <1>4, <1>5 DEF Next, RequestsWhole

\* SnapshotInv is inductive, on either dialect.
LEMMA NextSnapshot == SnapshotInv /\ [Next]_vars => SnapshotInv'
  <1> SUFFICES ASSUME SnapshotInv, [Next]_vars
               PROVE  ExecutionsIssued' /\ SnapshotCurrent'
    BY NextType, NextWhole DEF SnapshotInv
  <1>t. TypeOK /\ TypeOK'
    BY NextType DEF SnapshotInv
  <1>1. CASE Tick
    <2>1. \A j \in Jobs : IF job[j].status = ABSENT THEN job'[j] = job[j]
                                                    ELSE job'[j] = Aged(job[j])
      BY <1>1 DEF Tick, Elapse
    <2>2. \A w \in Workers : pc'[w] = "run" => pc[w] = "run" /\ held'[w] = held[w]
      BY <1>1, <1>t DEF Tick, Elapse, TypeOK
    <2>3. claims' = claims
      BY <1>1 DEF Tick, Elapse
    <2>4. ASSUME NEW j \in Jobs
          PROVE  /\ job'[j].status = job[j].status
                 /\ job'[j].attempts = job[j].attempts
                 /\ job'[j].lease_owner = job[j].lease_owner
                 /\ job'[j].execution_id = job[j].execution_id
      <3>1. job'[j] = job[j] \/ job'[j] = Aged(job[j])
        BY <2>1
      <3> QED
        BY <3>1 DEF Aged
    <2> QED
      BY <1>t, <2>2, <2>3, <2>4, OtherSnapshot
  <1>2. ASSUME NEW j \in Jobs, CreateJob(j)
        PROVE  ExecutionsIssued' /\ SnapshotCurrent'
    BY <1>2, <1>t, OtherSnapshot
    DEF CreateJob, NewRow, TypeOK, workerVars, QUEUED, RUNNING
  <1>3. ASSUME NEW w \in Workers, WorkerStep(w)
        PROVE  ExecutionsIssued' /\ SnapshotCurrent'
    <2>1. CASE Recover(w)
      <3>1. \A j \in Jobs : job'[j].status = RUNNING => job'[j] = job[j]
        BY <2>1, <1>t
        DEF Recover, Recovered, Released, TypeOK, QUEUED, RUNNING, FAILED
      <3>2. \A v \in Workers : pc'[v] = "run" => pc[v] = "run" /\ held'[v] = held[v]
        BY <2>1, <1>t DEF Recover, TypeOK
      <3>3. claims' = claims
        BY <2>1 DEF Recover
      <3> QED
        BY <1>t, <3>1, <3>2, <3>3, OtherSnapshot
    <2>2. CASE Claim(w)
      <3>1. PICK j \in Jobs : Lease(w, j, job[j].attempts + 1, 0)
        BY <2>2 DEF Claim, First
      <3>2. job[j].attempts + 1 \in Nat
        BY <1>t DEF TypeOK, Row
      <3> QED
        BY <3>1, <3>2, LeaseSnapshot
    <2>3. CASE Update(w)
      <3>1. held[w].job \in Jobs /\ held[w].attempts + 1 \in Nat
              /\ -held[w].age \in Int
        BY <1>t, <2>3, QueueAssumption DEF TypeOK, Update, Held
      <3>2. CASE Lease(w, held[w].job, held[w].attempts + 1, -held[w].age)
        BY <3>1, <3>2, LeaseSnapshot
      <3>3. CASE /\ pc' = [pc EXCEPT ![w] = "poll"]
                 /\ held' = [held EXCEPT ![w] = NoJob]
                 /\ UNCHANGED <<job, beat, timer, stopping, request, accepted,
                                claims, resets>>
        BY <1>t, <3>3, OtherSnapshot DEF TypeOK
      <3> QED
        BY <2>3, <3>2, <3>3 DEF Update
    <2>4. CASE NoCandidate(w) \/ Select(w)
      BY <1>t, <2>4, OtherSnapshot DEF TypeOK, NoCandidate, Select
    <2>5. CASE Heartbeat(w)
      <3>1. \A j \in Jobs : /\ job'[j].status = job[j].status
                            /\ job'[j].attempts = job[j].attempts
                            /\ job'[j].lease_owner = job[j].lease_owner
                            /\ job'[j].execution_id = job[j].execution_id
        BY <1>t, <2>5, HeartbeatRows
      <3> QED
        BY <1>t, <2>5, <3>1, OtherSnapshot DEF Heartbeat
    <2>6. ASSUME EndRun(w),
                 \A j \in Jobs : job'[j].status = RUNNING => job'[j] = job[j]
          PROVE  ExecutionsIssued' /\ SnapshotCurrent'
      BY <1>t, <2>6, OtherSnapshot DEF EndRun, TypeOK
    <2>7. CASE CompleteJob(w)
      BY <1>t, <2>6, <2>7
      DEF CompleteJob, TypeOK, Released, COMPLETED, RUNNING
    <2>8. ASSUME NEW exc \in Errors, FailJob(w, exc)
          PROVE  ExecutionsIssued' /\ SnapshotCurrent'
      BY <1>t, <2>6, <2>8
      DEF FailJob, TypeOK, Released, FAILED, QUEUED, RUNNING
    <2>9. CASE Fault(w) \/ Exit(w)
      BY <1>t, <2>9, OtherSnapshot
      DEF Fault, Exit, Stop, Crash, HeartbeatError, Gone, TypeOK
    <2>10. CASE Restart(w)
      BY <1>t, <2>10, OtherSnapshot DEF Restart, TypeOK
    <2> QED
      BY <1>3, <2>1, <2>2, <2>3, <2>4, <2>5, <2>7, <2>8, <2>9, <2>10
      DEF WorkerStep, Poll, Finish
  <1>4. ASSUME NEW c \in Clients, ClientStep(c)
        PROVE  ExecutionsIssued' /\ SnapshotCurrent'
    <2>1. CASE CommitRun(c)
      <3>1. \A j \in Jobs :
              \/ job'[j] = job[j]
              \/ /\ request[c].job = j
                 /\ job'[j] = Flushed(job[j], request[c].dirty, -request[c].age)
        BY <1>t, <2>1 DEF TypeOK, CommitRun
      <3>2. "attempts" \in request[c].dirty => "status" \in request[c].dirty
        BY DEF SnapshotInv, RequestsWhole
      <3>3. ASSUME NEW j \in Jobs, job'[j].status = RUNNING
            PROVE  /\ job[j].status = RUNNING
                   /\ job'[j].attempts = job[j].attempts
                   /\ job'[j].execution_id # None =>
                        job'[j].execution_id = job[j].execution_id
                   /\ job'[j].lease_owner # None =>
                        job'[j].lease_owner = job[j].lease_owner
        <4>1. CASE job'[j] = job[j]
          BY <3>3, <4>1
        <4>2. CASE job'[j] = Flushed(job[j], request[c].dirty, -request[c].age)
          BY <3>2, <3>3, <4>2 DEF Flushed, QUEUED, RUNNING
        <4> QED
          BY <3>1, <4>1, <4>2
      <3>4. claims' = claims /\ pc' = pc /\ held' = held
        BY <2>1 DEF CommitRun, workerVars
      <3> QED
        BY <1>t, <3>3, <3>4, OtherSnapshot
    <2>2. CASE AbortRun(c) \/ \E j \in Jobs : RequestRun(c, j)
      BY <1>t, <2>2, OtherSnapshot DEF AbortRun, RequestRun, workerVars
    <2> QED
      BY <1>4, <2>1, <2>2 DEF ClientStep
  <1>5. CASE UNCHANGED vars
    BY <1>t, <1>5, OtherSnapshot DEF vars, workerVars
  <1> QED
    BY <1>1, <1>2, <1>3, <1>4, <1>5 DEF Next

\* The count fail_job decides on (durable.py:222) is the row's count as long
\* as the execution owns the row, whatever the constants and the dialect.
THEOREM SnapshotKept == Spec => []SnapshotCurrent
  <1>1. Init => SnapshotInv
    <2>1. Init => TypeOK
      BY InitType
    <2>2. Init => RequestsWhole /\ ExecutionsIssued /\ SnapshotCurrent
      BY DEF Init, RequestsWhole, NoRequest, ExecutionsIssued, SnapshotCurrent
    <2> QED
      BY <2>1, <2>2 DEF SnapshotInv
  <1>2. SnapshotInv /\ [Next]_vars => SnapshotInv'
    BY NextSnapshot
  <1>3. SnapshotInv => SnapshotCurrent
    BY DEF SnapshotInv
  <1> QED
    BY <1>1, <1>2, <1>3, PTL DEF Spec

-------------------------------------------------------------------------------
(***************************************************************************)
(* The attempt budget on PostgreSQL.  AttemptBudget alone is not           *)
(* inductive: a claim must be known to start from a row that has an        *)
(* attempt left, a reset to hit the counter of a row that has used one,    *)
(* and fail_job to put back only a row that has one left, which is what    *)
(* SnapshotCurrent tells it.                                               *)
(***************************************************************************)

RowBudget(j) ==
  /\ job[j].attempts <= MaxAttempts
  /\ claims[j] <= MaxAttempts * resets[j] + job[j].attempts
  /\ job[j].status \in {ABSENT, QUEUED} => job[j].attempts < MaxAttempts
  /\ job[j].status = ABSENT => job[j].attempts = 0
  /\ job[j].status \in {RUNNING, FAILED} => job[j].attempts > 0

RequestsExact ==
  \A c \in Clients : "status" \in request[c].dirty <=>
                       "attempts" \in request[c].dirty

BudgetInv ==
  /\ SnapshotInv
  /\ RequestsExact
  /\ \A j \in Jobs : RowBudget(j)

\* No worker is between a SELECT and its UPDATE.
Unlocked == \A w \in Workers : pc[w] # "update"

\* An UPDATE that will write its row counts from the row as it is.
UpdatesFresh ==
  \A w \in Workers :
    pc[w] = "update" /\ Eligible(job[held[w].job], -held[w].age) =>
      held[w].attempts = job[held[w].job].attempts

\* What the row invariant gives for one more reset.
LEMMA OneReset ==
  ASSUME NEW m \in Nat, NEW r \in Nat
  PROVE  m * (r + 1) = m * r + m /\ m * r \in Nat
  OBVIOUS

\* A row whose counter and ghosts stay keeps its budget if its status stays,
\* or if it stops running and, to be queued again, has an attempt left.
LEMMA RowKept ==
  ASSUME TypeOK, NEW j \in Jobs, RowBudget(j),
         claims'[j] = claims[j], resets'[j] = resets[j],
         job'[j].attempts = job[j].attempts,
         \/ job'[j].status = job[j].status
         \/ /\ job[j].status = RUNNING
            /\ \/ job'[j].status \in {COMPLETED, FAILED}
               \/ job'[j].status = QUEUED /\ job[j].attempts < MaxAttempts
  PROVE  RowBudget(j)'
  BY DEF RowBudget, ABSENT, QUEUED, RUNNING, COMPLETED, FAILED

\* A lease counts one claim and one attempt.
LEMMA LeaseBudget ==
  ASSUME BudgetInv, NEW w \in Workers, NEW j \in Jobs, NEW now \in Int,
         job[j].status = QUEUED, Lease(w, j, job[j].attempts + 1, now)
  PROVE  \A k \in Jobs : RowBudget(k)'
  <1>1. TypeOK /\ RowBudget(j)
    BY DEF BudgetInv, SnapshotInv
  <1>2. /\ job[j].attempts \in Nat /\ claims[j] \in Nat /\ resets[j] \in Nat
        /\ MaxAttempts \in Nat
    BY <1>1, QueueAssumption DEF TypeOK, Row
  <1>3. MaxAttempts * resets[j] \in Nat
    BY <1>2, OneReset
  <1>4. /\ job'[j].attempts = job[j].attempts + 1
        /\ job'[j].status = RUNNING
        /\ claims'[j] = claims[j] + 1
        /\ resets'[j] = resets[j]
    BY <1>1 DEF Lease, TypeOK
  <1>5. RowBudget(j)'
    BY <1>1, <1>2, <1>3, <1>4
    DEF RowBudget, ABSENT, QUEUED, RUNNING, FAILED
  <1>6. ASSUME NEW k \in Jobs, k # j PROVE RowBudget(k)'
    BY <1>1, <1>6, RowKept DEF Lease, TypeOK, BudgetInv
  <1> QED
    BY <1>5, <1>6

\* A flush changes the counter and the status together, or neither.
LEMMA FlushBudget ==
  ASSUME BudgetInv, NEW c \in Clients, CommitRun(c)
  PROVE  \A j \in Jobs : RowBudget(j)'
  <1> DEFINE r == request[c]
  <1>1. TypeOK /\ \A j \in Jobs : RowBudget(j)
    BY DEF BudgetInv, SnapshotInv
  <1>2. PICK k \in Jobs :
          k = r.job /\ ("status" \in r.dirty <=> "attempts" \in r.dirty)
    BY <1>1 DEF CommitRun, TypeOK, BudgetInv, RequestsExact
  <1>3. /\ job' = [job EXCEPT ![k] = Flushed(job[k], r.dirty, -r.age)]
        /\ resets' = [resets EXCEPT ![k] =
                        IF "attempts" \in r.dirty THEN resets[k] + 1
                                                  ELSE resets[k]]
        /\ claims' = claims
    BY <1>2 DEF CommitRun
  <1> HIDE DEF r
  <1>4. ASSUME NEW j \in Jobs, j # k PROVE RowBudget(j)'
    BY <1>1, <1>3, <1>4, RowKept DEF TypeOK
  <1>5. job'[k] = Flushed(job[k], r.dirty, -r.age)
    BY <1>1, <1>2, <1>3 DEF TypeOK
  <1>6. CASE "attempts" \in r.dirty
    <2>1. /\ job'[k].status = QUEUED /\ job'[k].attempts = 0
          /\ resets'[k] = resets[k] + 1
          /\ claims'[k] = claims[k]
      BY <1>1, <1>2, <1>3, <1>5, <1>6 DEF Flushed, TypeOK
    <2>2. /\ claims[k] \in Nat /\ resets[k] \in Nat
          /\ MaxAttempts \in Nat \ {0} /\ job[k].attempts \in Nat
      BY <1>1, <1>2, QueueAssumption DEF TypeOK, Row
    <2>3. /\ MaxAttempts * (resets[k] + 1)
               = MaxAttempts * resets[k] + MaxAttempts
          /\ MaxAttempts * resets[k] \in Nat
      BY <2>2, OneReset
    <2>4. /\ job[k].attempts <= MaxAttempts
          /\ claims[k] <= MaxAttempts * resets[k] + job[k].attempts
      BY <1>1, <1>2 DEF RowBudget
    <2>5. claims'[k] <= MaxAttempts * resets'[k] + job'[k].attempts
      BY <2>1, <2>2, <2>3, <2>4
    <2>6. RowBudget(k)'
      BY <2>1, <2>2, <2>5 DEF RowBudget, ABSENT, QUEUED, RUNNING, FAILED
    <2> QED
      BY <1>4, <2>6
  <1>7. CASE "attempts" \notin r.dirty
    <2>1. /\ job'[k].status = job[k].status
          /\ job'[k].attempts = job[k].attempts
      BY <1>2, <1>5, <1>7 DEF Flushed
    <2>2. resets'[k] = resets[k] /\ claims'[k] = claims[k]
      BY <1>1, <1>2, <1>3, <1>7 DEF TypeOK
    <2>3. RowBudget(k)'
      BY <1>1, <1>2, <2>1, <2>2, RowKept
    <2> QED
      BY <1>4, <2>3
  <1> QED
    BY <1>6, <1>7

\* What fail_job does with the row it owns: a row that is put back has an
\* attempt left, because the count it decides on is the row's.
LEMMA FailBudget ==
  ASSUME BudgetInv, NEW w \in Workers, NEW exc \in Errors, FailJob(w, exc)
  PROVE  \A j \in Jobs : RowBudget(j)'
  <1>1. TypeOK /\ SnapshotCurrent /\ \A j \in Jobs : RowBudget(j)
    BY DEF BudgetInv, SnapshotInv
  <1>2. PICK k \in Jobs : k = held[w].job
    BY <1>1 DEF FailJob, TypeOK
  <1>3. claims' = claims /\ resets' = resets
    BY DEF FailJob, EndRun
  <1>4. ASSUME NEW j \in Jobs, job'[j] = job[j] PROVE RowBudget(j)'
    BY <1>1, <1>3, <1>4, RowKept
  <1>5. CASE ~Owns(w, k)
    BY <1>2, <1>4, <1>5 DEF FailJob
  <1>6. CASE Owns(w, k)
    <2>1. /\ job[k].status = RUNNING
          /\ held[w].attempts = job[k].attempts
          /\ job[k].attempts \in Nat /\ MaxAttempts \in Nat
      BY <1>1, <1>6, QueueAssumption
      DEF Owns, SnapshotCurrent, FailJob, TypeOK, Row
    <2>2. \/ job' = [job EXCEPT ![k] = Released(job[k], FAILED, job[k].next_run_at,
                                                job[k].execution_id)]
          \/ /\ ~(held[w].attempts >= MaxAttempts)
             /\ job' = [job EXCEPT ![k] =
                          Released(job[k], QUEUED, retry_delay(held[w].attempts),
                                   job[k].execution_id)]
      BY <1>2, <1>6 DEF FailJob
    <2>3. /\ job'[k].attempts = job[k].attempts
          /\ \/ job'[k].status = FAILED
             \/ job'[k].status = QUEUED /\ job[k].attempts < MaxAttempts
          /\ \A j \in Jobs : j # k => job'[j] = job[j]
      BY <1>1, <2>1, <2>2 DEF Released, TypeOK
    <2>4. RowBudget(k)'
      BY <1>1, <1>3, <2>1, <2>3, RowKept
    <2> QED
      BY <1>4, <2>3, <2>4
  <1> QED
    BY <1>5, <1>6

\* Recovery puts back only rows that have an attempt left.
LEMMA RecoverBudget ==
  ASSUME BudgetInv, NEW w \in Workers, Recover(w)
  PROVE  \A j \in Jobs : RowBudget(j)'
  <1> SUFFICES ASSUME NEW j \in Jobs PROVE RowBudget(j)'
    OBVIOUS
  <1>1. TypeOK /\ RowBudget(j)
    BY DEF BudgetInv, SnapshotInv
  <1>2. claims' = claims /\ resets' = resets /\ job'[j] = Recovered(job[j])
    BY DEF Recover
  <1>3. /\ job'[j].attempts = job[j].attempts
        /\ \/ job'[j].status = job[j].status
           \/ /\ job[j].status = RUNNING
              /\ \/ job'[j].status = FAILED
                 \/ job'[j].status = QUEUED /\ job[j].attempts < MaxAttempts
    BY <1>2 DEF Recovered, Released
  <1> QED
    BY <1>1, <1>2, <1>3, RowKept

\* Every step keeps the budget of every row, if no UPDATE writes a count that is
\* outdated.
LEMMA NextRowBudget ==
  ASSUME BudgetInv, UpdatesFresh, [Next]_vars
  PROVE  \A j \in Jobs : RowBudget(j)'
  <1>1. TypeOK /\ \A j \in Jobs : RowBudget(j)
    BY DEF BudgetInv, SnapshotInv
  <1>2. ASSUME claims' = claims, resets' = resets,
               \A j \in Jobs : \/ job'[j] = job[j]
                               \/ /\ job'[j].status = job[j].status
                                  /\ job'[j].attempts = job[j].attempts
        PROVE  \A j \in Jobs : RowBudget(j)'
    <2> SUFFICES ASSUME NEW j \in Jobs PROVE RowBudget(j)'
      OBVIOUS
    <2>1. job'[j].status = job[j].status /\ job'[j].attempts = job[j].attempts
      BY <1>2
    <2> QED
      BY <1>1, <1>2, <2>1, RowKept
  <1>3. CASE Tick
    <2>1. ASSUME NEW j \in Jobs
          PROVE  job'[j].status = job[j].status /\ job'[j].attempts = job[j].attempts
      <3>1. job'[j] = job[j] \/ job'[j] = Aged(job[j])
        BY <1>3 DEF Tick, Elapse
      <3> QED
        BY <3>1 DEF Aged
    <2> QED
      BY <1>2, <1>3, <2>1 DEF Tick, Elapse
  <1>4. ASSUME NEW j \in Jobs, CreateJob(j) PROVE \A k \in Jobs : RowBudget(k)'
    <2>1. job'[j] = NewRow /\ \A k \in Jobs : k # j => job'[k] = job[k]
      BY <1>1, <1>4 DEF CreateJob, TypeOK
    <2>2. claims' = claims /\ resets' = resets
      BY <1>4 DEF CreateJob
    <2>3. RowBudget(j)'
      BY <1>1, <1>4, <2>1, <2>2, QueueAssumption
      DEF CreateJob, NewRow, RowBudget, ABSENT, QUEUED, RUNNING, FAILED
    <2>4. ASSUME NEW k \in Jobs, k # j PROVE RowBudget(k)'
      BY <1>1, <2>1, <2>2, <2>4, RowKept
    <2> QED
      BY <2>3, <2>4
  <1>5. ASSUME NEW w \in Workers, WorkerStep(w)
        PROVE  \A j \in Jobs : RowBudget(j)'
    <2>1. CASE Recover(w)
      BY <2>1, RecoverBudget
    <2>2. CASE Claim(w)
      BY <2>2, LeaseBudget DEF Claim, First, Eligible
    <2>3. CASE Update(w)
      <3>1. held[w].job \in Jobs /\ -held[w].age \in Int
        BY <1>1, <2>3, QueueAssumption DEF Update, TypeOK, Held
      <3>2. CASE /\ Eligible(job[held[w].job], -held[w].age)
                 /\ Lease(w, held[w].job, held[w].attempts + 1, -held[w].age)
        <4>1. held[w].attempts = job[held[w].job].attempts
          BY <2>3, <3>2 DEF UpdatesFresh, Update
        <4> QED
          BY <3>1, <3>2, <4>1, LeaseBudget DEF Eligible
      <3>3. CASE UNCHANGED <<job, claims, resets>>
        BY <1>2, <3>3
      <3> QED
        BY <2>3, <3>2, <3>3 DEF Update
    <2>4. CASE NoCandidate(w) \/ Select(w) \/ Fault(w) \/ Exit(w) \/ Restart(w)
      BY <1>2, <2>4
      DEF NoCandidate, Select, Fault, Stop, Crash, HeartbeatError, Exit, Gone, Restart
    <2>5. CASE Heartbeat(w)
      <3>1. \A j \in Jobs : /\ job'[j].status = job[j].status
                            /\ job'[j].attempts = job[j].attempts
        BY <1>1, <2>5, HeartbeatRows
      <3> QED
        BY <1>2, <2>5, <3>1 DEF Heartbeat
    <2>6. CASE CompleteJob(w)
      <3>1. ASSUME NEW j \in Jobs
            PROVE  \/ job'[j] = job[j]
                   \/ /\ job[j].status = RUNNING
                      /\ job'[j].status = COMPLETED
                      /\ job'[j].attempts = job[j].attempts
        BY <1>1, <2>6 DEF CompleteJob, Owns, Released, TypeOK
      <3> QED
        BY <1>1, <2>6, <3>1, RowKept DEF CompleteJob, EndRun
    <2>7. ASSUME NEW exc \in Errors, FailJob(w, exc)
          PROVE  \A j \in Jobs : RowBudget(j)'
      BY <2>7, FailBudget
    <2> QED
      BY <1>5, <2>1, <2>2, <2>3, <2>4, <2>5, <2>6, <2>7
      DEF WorkerStep, Poll, Finish
  <1>6. ASSUME NEW c \in Clients, ClientStep(c)
        PROVE  \A j \in Jobs : RowBudget(j)'
    <2>1. CASE CommitRun(c)
      BY <2>1, FlushBudget
    <2>2. CASE AbortRun(c) \/ \E j \in Jobs : RequestRun(c, j)
      BY <1>2, <2>2 DEF AbortRun, RequestRun
    <2> QED
      BY <1>6, <2>1, <2>2 DEF ClientStep
  <1>7. CASE UNCHANGED vars
    BY <1>2, <1>7 DEF vars
  <1> QED
    BY <1>3, <1>4, <1>5, <1>6, <1>7 DEF Next

\* A request that read a failed row resets status and counter together.
LEMMA NextRequests ==
  ASSUME BudgetInv, [Next]_vars
  PROVE  RequestsExact'
  <1>1. TypeOK /\ RequestsExact /\ \A j \in Jobs : RowBudget(j)
    BY DEF BudgetInv, SnapshotInv
  <1>2. ASSUME NEW c \in Clients, ClientStep(c) PROVE RequestsExact'
    <2>1. CASE CommitRun(c) \/ AbortRun(c)
      BY <1>1, <2>1 DEF RequestsExact, CommitRun, AbortRun, NoRequest, TypeOK
    <2>2. ASSUME NEW j \in Jobs, RequestRun(c, j) PROVE RequestsExact'
      <3>1. "status" \in Dirty(job[j]) <=> "attempts" \in Dirty(job[j])
        BY <1>1 DEF Dirty, Columns, RowBudget, FAILED
      <3>2. /\ request'[c].dirty = Dirty(job[j])
            /\ \A d \in Clients : d # c => request'[d] = request[d]
        BY <1>1, <2>2 DEF RequestRun, TypeOK
      <3> QED
        BY <1>1, <3>1, <3>2 DEF RequestsExact
    <2> QED
      BY <1>2, <2>1, <2>2 DEF ClientStep
  <1>3. CASE Tick
    <2>1. \A c \in Clients : request'[c].dirty = request[c].dirty
      BY <1>1, <1>3 DEF Tick, Elapse, TypeOK, Request
    <2> QED
      BY <1>1, <2>1 DEF RequestsExact
  <1>4. ASSUME NEW w \in Workers, WorkerStep(w) PROVE request' = request
    BY <1>4 DEF WorkerStep, Poll, Recover, NoCandidate, Claim, Select, Update,
                Lease, Heartbeat, Finish, CompleteJob, FailJob, EndRun, Fault,
                Stop, Crash, HeartbeatError, Gone, Exit, Restart
  <1>5. ASSUME NEW j \in Jobs, CreateJob(j) PROVE request' = request
    BY <1>5 DEF CreateJob
  <1>6. CASE UNCHANGED vars
    BY <1>1, <1>6 DEF vars, RequestsExact
  <1> QED
    BY <1>1, <1>2, <1>3, <1>4, <1>5, <1>6 DEF Next, RequestsExact

\* On PostgreSQL no worker is ever between a SELECT and its UPDATE.
LEMMA NextUnlocked ==
  ASSUME Dialect = "postgresql", TypeOK, Unlocked, [Next]_vars
  PROVE  Unlocked'
  <1> SUFFICES \A w \in Workers : pc'[w] # "update"
    BY DEF Unlocked
  <1>1. TypeOK /\ \A w \in Workers : pc[w] # "update"
    BY DEF Unlocked
  <1>2. ASSUME NEW w \in Workers, WorkerStep(w)
        PROVE  \A v \in Workers : pc'[v] # "update"
    <2>1. CASE Poll(w)
      BY <1>1, <2>1 DEF Poll, Recover, NoCandidate, Claim, Lease, Select, Update,
                        TypeOK
    <2>2. CASE Finish(w)
      BY <1>1, <2>2 DEF Finish, CompleteJob, FailJob, EndRun, TypeOK
    <2>3. CASE Heartbeat(w) \/ Fault(w) \/ Exit(w) \/ Restart(w)
      BY <1>1, <2>3 DEF Heartbeat, Fault, Stop, Crash, HeartbeatError, Exit, Gone,
                        Restart, TypeOK
    <2> QED
      BY <1>2, <2>1, <2>2, <2>3 DEF WorkerStep
  <1>3. CASE Tick \/ (\E j \in Jobs : CreateJob(j)) \/ UNCHANGED vars
    BY <1>1, <1>3 DEF Tick, Elapse, CreateJob, vars, workerVars
  <1>4. ASSUME NEW c \in Clients, ClientStep(c)
        PROVE  \A w \in Workers : pc'[w] # "update"
    BY <1>1, <1>4 DEF ClientStep, CommitRun, AbortRun, RequestRun, workerVars
  <1> QED
    BY <1>2, <1>3, <1>4 DEF Next

\* No row has used an attempt, and nothing is under way, at the start.
LEMMA InitBudget == Init => BudgetInv
  <1> SUFFICES ASSUME Init PROVE BudgetInv
    OBVIOUS
  <1>1. SnapshotInv
    BY InitType
    DEF Init, SnapshotInv, RequestsWhole, NoRequest, ExecutionsIssued,
        SnapshotCurrent
  <1>2. RequestsExact
    BY DEF Init, RequestsExact, NoRequest
  <1>3. \A j \in Jobs : RowBudget(j)
    <2>1. \A j \in Jobs : /\ job[j].status = ABSENT /\ job[j].attempts = 0
                          /\ claims[j] = 0 /\ resets[j] = 0
      BY DEF Init, NoRow, NewRow
    <2>2. MaxAttempts * 0 = 0 /\ 0 < MaxAttempts
      BY QueueAssumption
    <2> QED
      BY <2>1, <2>2, QueueAssumption
      DEF RowBudget, ABSENT, QUEUED, RUNNING, FAILED
  <1> QED
    BY <1>1, <1>2, <1>3 DEF BudgetInv

\* The strengthened invariant is inductive.
LEMMA NextBudget ==
  ASSUME BudgetInv, UpdatesFresh, [Next]_vars
  PROVE  BudgetInv'
  <1>1. SnapshotInv'
    BY NextSnapshot DEF BudgetInv
  <1> QED
    BY <1>1, NextRequests, NextRowBudget DEF BudgetInv

\* What the account of a row says of claims and resets alone.
LEMMA BudgetEnough == BudgetInv => AttemptBudget
  <1> SUFFICES ASSUME BudgetInv, NEW j \in Jobs
               PROVE  claims[j] <= MaxAttempts * (resets[j] + 1)
    BY DEF AttemptBudget
  <1>1. TypeOK /\ RowBudget(j)
    BY DEF BudgetInv, SnapshotInv
  <1>2. /\ claims[j] \in Nat /\ resets[j] \in Nat
        /\ MaxAttempts \in Nat /\ job[j].attempts \in Nat
    BY <1>1, QueueAssumption DEF TypeOK, Row
  <1>3. /\ MaxAttempts * (resets[j] + 1) = MaxAttempts * resets[j] + MaxAttempts
        /\ MaxAttempts * resets[j] \in Nat
    BY <1>2, OneReset
  <1> QED
    BY <1>1, <1>2, <1>3 DEF RowBudget

\* On PostgreSQL a job is handed to a worker at most max_attempts times per
\* reset of its counter (recover_expired_jobs, durable.py:103, claim_next_job
\* and fail_job together), for every number of jobs, workers and overlapping
\* requests and every crash, stop and failing heartbeat.
THEOREM BudgetKept ==
  ASSUME Dialect = "postgresql"
  PROVE  Spec => []AttemptBudget
  <1>1. Init => BudgetInv /\ Unlocked
    BY InitBudget DEF Init, Unlocked
  <1>2. BudgetInv /\ Unlocked /\ [Next]_vars => (BudgetInv /\ Unlocked)'
    BY NextBudget, NextUnlocked DEF Unlocked, UpdatesFresh, BudgetInv, SnapshotInv
  <1>3. BudgetInv => AttemptBudget
    BY BudgetEnough
  <1> QED
    BY <1>1, <1>2, <1>3, PTL DEF Spec

===============================================================================
