------------------------ MODULE JobQueueContractProofs ------------------------
(***************************************************************************)
(* Proofs about JobQueue as long as no two re-runs of one failed job       *)
(* overlap, for every set of jobs, workers and requests and every fault: a *)
(* running job has a lease that can expire, only its owner or the end of   *)
(* its lease ends it, nobody gives it to another execution while it runs,  *)
(* and, on PostgreSQL, the rows change only as JobContract allows.  With   *)
(* two overlapping re-runs these are false.                                *)
(***************************************************************************)
EXTENDS JobQueueProofs

\* Two requests that found their job failed, and have not written yet, found
\* different jobs.  Requests that found their job queued may overlap anything.
RerunsApart ==
  \A c, d \in Clients :
    /\ c # d
    /\ "status" \in request[c].dirty
    /\ "status" \in request[d].dirty
    => request[c].job # request[d].job

\* The status of a row and its lease agree.
LeaseExact(row) == row.status = RUNNING <=> row.lease_expires_at # None

\* What a request read is still so when it writes: it found no lease, and a row
\* it found failed waits for it.
RequestsCurrent ==
  \A c \in Clients :
    /\ "lease_expires_at" \notin request[c].dirty
    /\ "status" \in request[c].dirty => job[request[c].job].status = FAILED

LeaseInv ==
  /\ TypeOK
  /\ \A j \in Jobs : LeaseExact(job[j])
  /\ RequestsCurrent

-------------------------------------------------------------------------------
(***************************************************************************)
(* A running job can be recovered.  RunningIsLeased alone is not           *)
(* inductive: a flush could take the lease off a row that has come to run, *)
(* or leave a lease on one it queues again.                                *)
(***************************************************************************)

\* The rows after a step of time, of a worker or of a new job: status and lease
\* agree as before, and a failed row stays failed.
RowsKept ==
  \A j \in Jobs : /\ LeaseExact(job'[j])
                  /\ job[j].status = FAILED => job'[j].status = FAILED

\* Time leaves every status, and a lease stays one.
LEMMA ElapseLease ==
  ASSUME LeaseInv, Elapse
  PROVE  RowsKept
  <1> SUFFICES ASSUME NEW j \in Jobs
               PROVE  /\ LeaseExact(job'[j])
                      /\ job[j].status = FAILED => job'[j].status = FAILED
    BY DEF RowsKept
  <1>1. job[j] \in Row /\ LeaseExact(job[j])
    BY DEF LeaseInv, TypeOK
  <1>2. job'[j] = job[j] \/ job'[j] = Aged(job[j])
    BY DEF Elapse
  <1>3. LeaseExact(Aged(job[j])) /\ Aged(job[j]).status = job[j].status
    BY <1>1, QueueAssumption DEF LeaseExact, Aged, Older, Past, Row
  <1> QED
    BY <1>1, <1>2, <1>3

\* A row that is given up has no lease.
LEMMA ReleasedLease ==
  ASSUME NEW row, NEW status, NEW next, NEW exec, status # RUNNING
  PROVE  /\ LeaseExact(Released(row, status, next, exec))
         /\ Released(row, status, next, exec).status = status
  BY DEF LeaseExact, Released

\* A worker recovers, leases, extends and gives up rows, and each of these
\* writes status and lease together.
LEMMA WorkerLease ==
  ASSUME LeaseInv, NEW w \in Workers, WorkerStep(w)
  PROVE  RowsKept
  <1>1. /\ TypeOK
        /\ \A j \in Jobs : job[j] \in Row /\ LeaseExact(job[j])
    BY DEF LeaseInv, TypeOK
  <1>2. ASSUME \A j \in Jobs : job'[j] = job[j] PROVE RowsKept
    BY <1>1, <1>2 DEF RowsKept
  <1>3. CASE Recover(w)
    <2> SUFFICES ASSUME NEW j \in Jobs
                 PROVE  /\ LeaseExact(job'[j])
                        /\ job[j].status = FAILED => job'[j].status = FAILED
      BY DEF RowsKept
    <2>1. job'[j] = Recovered(job[j])
      BY <1>3 DEF Recover
    <2>2. QUEUED # RUNNING /\ FAILED # RUNNING
      BY DEF QUEUED, RUNNING, FAILED
    <2> QED
      BY <1>1, <2>1, <2>2, ReleasedLease DEF Recovered
  <1>4. ASSUME NEW j \in Jobs, NEW n, NEW now \in Int, job[j].status = QUEUED,
               Lease(w, j, n, now)
        PROVE  RowsKept
    <2>1. /\ job'[j].status = RUNNING
          /\ job'[j].lease_expires_at = now + LeaseDuration
          /\ \A k \in Jobs : k # j => job'[k] = job[k]
      BY <1>1, <1>4 DEF Lease, TypeOK
    <2>2. LeaseExact(job'[j])
      BY <1>4, <2>1, QueueAssumption DEF LeaseExact
    <2> QED
      BY <1>1, <1>4, <2>1, <2>2 DEF RowsKept, QUEUED, FAILED
  <1>5. CASE Claim(w)
    BY <1>4, <1>5 DEF Claim, First, Eligible
  <1>6. CASE Update(w)
    <2>1. held[w].job \in Jobs /\ -held[w].age \in Int
      BY <1>1, <1>6, QueueAssumption DEF Update, TypeOK, Held
    <2> QED
      BY <1>2, <1>4, <1>6, <2>1 DEF Update, Eligible
  <1>7. CASE Heartbeat(w)
    <2> DEFINE i == held[w].job
    <2>1. i \in Jobs
      BY <1>1, <1>7 DEF Heartbeat, TypeOK
    <2>2. \/ job' = job
          \/ /\ Owns(w, i)
             /\ job' = [job EXCEPT ![i] =
                          [job[i] EXCEPT !.lease_expires_at = LeaseDuration]]
      BY <1>7 DEF Heartbeat
    <2>3. CASE job' = job
      BY <1>2, <2>3
    <2>4. CASE /\ Owns(w, i)
               /\ job' = [job EXCEPT ![i] =
                            [job[i] EXCEPT !.lease_expires_at = LeaseDuration]]
      <3>1. /\ job[i].status = RUNNING
            /\ job'[i] = [job[i] EXCEPT !.lease_expires_at = LeaseDuration]
            /\ \A k \in Jobs : k # i => job'[k] = job[k]
        BY <1>1, <2>1, <2>4 DEF Owns, TypeOK
      <3>2. ASSUME NEW row \in Row, row.status = RUNNING
            PROVE  LET new == [row EXCEPT !.lease_expires_at = LeaseDuration]
                   IN  LeaseExact(new) /\ new.status = RUNNING
        BY <3>2, QueueAssumption DEF Row, LeaseExact
      <3>3. LeaseExact(job'[i]) /\ job'[i].status = RUNNING
        BY <1>1, <2>1, <3>1, <3>2
      <3> QED
        BY <1>1, <3>1, <3>3 DEF RowsKept, RUNNING, FAILED
    <2> QED
      BY <2>2, <2>3, <2>4
  <1>8. ASSUME NEW j \in Jobs, NEW status, NEW next, NEW exec, status # RUNNING,
               job[j].status = RUNNING,
               job' = [job EXCEPT ![j] = Released(job[j], status, next, exec)]
        PROVE  RowsKept
    <2>1. /\ job'[j] = Released(job[j], status, next, exec)
          /\ \A k \in Jobs : k # j => job'[k] = job[k]
      BY <1>1, <1>8 DEF TypeOK
    <2> QED
      BY <1>1, <1>8, <2>1, ReleasedLease DEF RowsKept, RUNNING, FAILED
  <1>9. CASE CompleteJob(w)
    <2>1. held[w].job \in Jobs /\ COMPLETED # RUNNING
      BY <1>1, <1>9 DEF CompleteJob, TypeOK, COMPLETED, RUNNING
    <2> QED
      BY <1>2, <1>8, <1>9, <2>1 DEF CompleteJob, Owns
  <1>10. ASSUME NEW exc \in Errors, FailJob(w, exc) PROVE RowsKept
    <2>1. held[w].job \in Jobs /\ FAILED # RUNNING /\ QUEUED # RUNNING
      BY <1>1, <1>10 DEF FailJob, TypeOK, FAILED, QUEUED, RUNNING
    <2> QED
      BY <1>2, <1>8, <1>10, <2>1 DEF FailJob, Owns
  <1>11. CASE \/ NoCandidate(w) \/ Select(w) \/ Fault(w) \/ Exit(w) \/ Restart(w)
    BY <1>2, <1>11
    DEF NoCandidate, Select, Fault, Stop, Crash, HeartbeatError, Exit, Gone, Restart
  <1> QED
    BY <1>3, <1>5, <1>6, <1>7, <1>9, <1>10, <1>11 DEF WorkerStep, Poll, Finish

\* A new row is queued and has no lease.
LEMMA CreateLease ==
  ASSUME LeaseInv, NEW j \in Jobs, CreateJob(j)
  PROVE  RowsKept
  <1>1. /\ job'[j] = NewRow /\ job[j].status = ABSENT
        /\ \A k \in Jobs : k # j => job'[k] = job[k]
    BY DEF LeaseInv, CreateJob, TypeOK
  <1>2. LeaseExact(NewRow) /\ ABSENT # FAILED
    BY DEF LeaseExact, NewRow, QUEUED, RUNNING, ABSENT, FAILED
  <1> QED
    BY <1>1, <1>2 DEF LeaseInv, RowsKept

\* A flush of what is still as it was read takes no lease, and queues only a
\* row that has none.
LEMMA CommitLease ==
  ASSUME LeaseInv, NEW c \in Clients, CommitRun(c)
  PROVE  \A j \in Jobs : LeaseExact(job'[j])
  <1> DEFINE r == request[c]
  <1>1. /\ r.job \in Jobs
        /\ job' = [job EXCEPT ![r.job] = Flushed(job[r.job], r.dirty, -r.age)]
    BY DEF LeaseInv, CommitRun, TypeOK
  <1>2. /\ "lease_expires_at" \notin r.dirty
        /\ "status" \in r.dirty => job[r.job].status = FAILED
        /\ LeaseExact(job[r.job])
    BY <1>1 DEF LeaseInv, RequestsCurrent
  <1>3. LeaseExact(Flushed(job[r.job], r.dirty, -r.age))
    <2> HIDE DEF r
    <2> QED
      BY <1>2 DEF LeaseExact, Flushed, QUEUED, RUNNING, FAILED
  <1> QED
    BY <1>1, <1>3 DEF LeaseInv, TypeOK

\* What a request read stays so while no other request re-runs the job.
LEMMA NextCurrent ==
  ASSUME RerunsApart, LeaseInv, [Next]_vars
  PROVE  RequestsCurrent'
  <1>1. TypeOK /\ RequestsCurrent /\ \A j \in Jobs : LeaseExact(job[j])
    BY DEF LeaseInv
  <1>2. ASSUME RowsKept,
               \A c \in Clients : /\ request'[c].dirty = request[c].dirty
                                  /\ request'[c].job = request[c].job
        PROVE  RequestsCurrent'
    <2> SUFFICES ASSUME NEW c \in Clients
                 PROVE  /\ "lease_expires_at" \notin request'[c].dirty
                        /\ "status" \in request'[c].dirty =>
                             job'[request'[c].job].status = FAILED
      BY DEF RequestsCurrent
    <2>1. request[c].job \in Jobs \/ request[c].dirty = {}
      BY <1>1 DEF TypeOK, NoRequest
    <2> QED
      BY <1>1, <1>2, <2>1 DEF RequestsCurrent, RowsKept
  <1>3. CASE Tick
    <2>1. \A c \in Clients : /\ request'[c].dirty = request[c].dirty
                             /\ request'[c].job = request[c].job
      BY <1>1, <1>3 DEF Tick, Elapse, TypeOK, Request
    <2> QED
      BY <1>2, <1>3, <2>1, ElapseLease DEF Tick
  <1>4. ASSUME NEW w \in Workers, WorkerStep(w) PROVE RequestsCurrent'
    <2>1. request' = request
      BY <1>4 DEF WorkerStep, Poll, Recover, NoCandidate, Claim, Select, Update,
                  Lease, Heartbeat, Finish, CompleteJob, FailJob, EndRun, Fault,
                  Stop, Crash, HeartbeatError, Gone, Exit, Restart
    <2> QED
      BY <1>2, <1>4, <2>1, WorkerLease
  <1>5. ASSUME NEW j \in Jobs, CreateJob(j) PROVE RequestsCurrent'
    BY <1>2, <1>5, CreateLease DEF CreateJob
  <1>6. ASSUME NEW c \in Clients, CommitRun(c) PROVE RequestsCurrent'
    <2> DEFINE r == request[c]
    <2>1. /\ r.job \in Jobs
          /\ job' = [job EXCEPT ![r.job] = Flushed(job[r.job], r.dirty, -r.age)]
          /\ request'[c] = NoRequest
          /\ \A d \in Clients : d # c => request'[d] = request[d]
      BY <1>1, <1>6 DEF CommitRun, TypeOK
    <2> SUFFICES ASSUME NEW d \in Clients
                 PROVE  /\ "lease_expires_at" \notin request'[d].dirty
                        /\ "status" \in request'[d].dirty =>
                             job'[request'[d].job].status = FAILED
      BY DEF RequestsCurrent
    <2>2. CASE d = c
      BY <2>1, <2>2 DEF NoRequest
    <2>3. CASE d # c /\ "status" \in request[d].dirty
      <3>1. /\ job[request[d].job].status = FAILED
            /\ request[d].job \in Jobs
        BY <1>1, <2>3 DEF RequestsCurrent, TypeOK, NoRequest
      <3>2. request[d].job = r.job => "status" \notin r.dirty
        BY <2>3 DEF RerunsApart
      <3>3. "status" \notin r.dirty =>
              Flushed(job[r.job], r.dirty, -r.age).status = job[r.job].status
        BY DEF Flushed
      <3>4. job'[request[d].job].status = FAILED
        <4> HIDE DEF r
        <4> QED
          BY <1>1, <2>1, <3>1, <3>2, <3>3 DEF TypeOK
      <3> QED
        BY <1>1, <2>1, <2>3, <3>4 DEF RequestsCurrent
    <2>4. CASE d # c /\ "status" \notin request[d].dirty
      BY <1>1, <2>1, <2>4 DEF RequestsCurrent
    <2> QED
      BY <2>2, <2>3, <2>4
  <1>7. ASSUME NEW c \in Clients,
               AbortRun(c) \/ \E j \in Jobs : RequestRun(c, j)
        PROVE  RequestsCurrent'
    <2>1. job' = job /\ \A d \in Clients : d # c => request'[d] = request[d]
      BY <1>1, <1>7 DEF AbortRun, RequestRun, TypeOK
    <2>2. CASE request'[c] = NoRequest
      BY <1>1, <2>1, <2>2 DEF RequestsCurrent, NoRequest
    <2>3. ASSUME NEW j \in Jobs, RequestRun(c, j) PROVE RequestsCurrent'
      <3>1. /\ request'[c].dirty = Dirty(job[j])
            /\ request'[c].job = j
            /\ job[j].status \in {QUEUED, FAILED}
        BY <1>1, <2>3 DEF RequestRun, TypeOK
      <3>2. "lease_expires_at" \notin Dirty(job[j])
        BY <1>1, <3>1 DEF LeaseExact, Dirty, Columns, QUEUED, RUNNING, FAILED
      <3>3. "status" \in Dirty(job[j]) => job[j].status = FAILED
        BY DEF Dirty
      <3> QED
        BY <1>1, <2>1, <3>1, <3>2, <3>3 DEF RequestsCurrent
    <2>4. AbortRun(c) => request'[c] = NoRequest
      BY <1>1 DEF AbortRun, TypeOK
    <2> QED
      BY <1>7, <2>2, <2>3, <2>4
  <1>8. CASE UNCHANGED vars
    BY <1>1, <1>8 DEF vars, RequestsCurrent
  <1> QED
    BY <1>3, <1>4, <1>5, <1>6, <1>7, <1>8 DEF Next, ClientStep

\* The strengthened invariant is inductive.
LEMMA NextLease ==
  ASSUME RerunsApart, LeaseInv, [Next]_vars
  PROVE  LeaseInv'
  <1>1. TypeOK'
    BY NextType DEF LeaseInv
  <1>2. RequestsCurrent'
    BY NextCurrent
  <1>3. \A j \in Jobs : LeaseExact(job'[j])
    <2>1. CASE Tick
      BY <2>1, ElapseLease DEF Tick, RowsKept
    <2>2. ASSUME NEW w \in Workers, WorkerStep(w)
          PROVE  \A j \in Jobs : LeaseExact(job'[j])
      BY <2>2, WorkerLease DEF RowsKept
    <2>3. ASSUME NEW k \in Jobs, CreateJob(k)
          PROVE  \A j \in Jobs : LeaseExact(job'[j])
      BY <2>3, CreateLease DEF RowsKept
    <2>4. ASSUME NEW c \in Clients, ClientStep(c)
          PROVE  \A j \in Jobs : LeaseExact(job'[j])
      <3>1. CASE CommitRun(c)
        BY <3>1, CommitLease
      <3>2. CASE AbortRun(c) \/ \E j \in Jobs : RequestRun(c, j)
        BY <3>2 DEF LeaseInv, AbortRun, RequestRun
      <3> QED
        BY <2>4, <3>1, <3>2 DEF ClientStep
    <2>5. CASE UNCHANGED vars
      BY <2>5 DEF vars, LeaseInv
    <2> QED
      BY <2>1, <2>2, <2>3, <2>4, <2>5 DEF Next
  <1> QED
    BY <1>1, <1>2, <1>3 DEF LeaseInv, LeaseExact

\* No row runs, and no request is under way, at the start.
LEMMA InitLease == Init => LeaseInv
  <1> SUFFICES ASSUME Init PROVE LeaseInv
    OBVIOUS
  <1>1. TypeOK
    BY InitType
  <1>2. LeaseExact(NoRow)
    BY DEF LeaseExact, NoRow, NewRow, ABSENT, RUNNING
  <1>3. RequestsCurrent
    BY DEF Init, RequestsCurrent, NoRequest
  <1> QED
    BY <1>1, <1>2, <1>3 DEF Init, LeaseInv

\* What every step of a behaviour without overlapping re-runs starts from.
LEMMA LeaseInvariant == Spec /\ []RerunsApart => []LeaseInv
  <1>1. Init => LeaseInv
    BY InitLease
  <1>2. LeaseInv /\ RerunsApart /\ [Next]_vars => LeaseInv'
    BY NextLease
  <1> QED
    BY <1>1, <1>2, PTL DEF Spec

\* README.md:574: the lease of a worker that died runs out and another worker
\* recovers the job.  Every running row has a lease, so that
\* recover_expired_jobs (durable.py:103) can select it, on both dialects and
\* whatever crashes, as long as no two re-runs of a failed job overlap.
THEOREM RunningStaysLeased == Spec /\ []RerunsApart => []RunningIsLeased
  <1>1. LeaseInv => RunningIsLeased
    BY DEF LeaseInv, LeaseExact, RunningIsLeased
  <1> QED
    BY <1>1, LeaseInvariant, PTL

-------------------------------------------------------------------------------
(***************************************************************************)
(* How a job ends.  A lease needs a queued row and a flush that changes    *)
(* the status a failed one, so that a running row is left to its owner and *)
(* to recovery, and a completed row to nobody, on either dialect.          *)
(***************************************************************************)

\* What a step may do to the status of row j.
Settled(j) ==
  /\ job[j].status = COMPLETED => job'[j].status = COMPLETED
  /\ job[j].status = RUNNING /\ job'[j].status # RUNNING =>
       \/ Expired(job[j], 0) /\ job'[j].status \in {QUEUED, FAILED}
       \/ \E w \in Workers : pc[w] = "run" /\ Owns(w, j) /\ pc'[w] # "run"

\* A row whose status stays is settled.
LEMMA SameSettled ==
  ASSUME NEW j \in Jobs, job'[j].status = job[j].status
  PROVE  Settled(j)
  BY DEF Settled, RUNNING, COMPLETED

\* A worker settles its own row, recovers expired ones and leases queued ones.
LEMMA WorkerSettles ==
  ASSUME TypeOK, NEW w \in Workers, WorkerStep(w), NEW j \in Jobs
  PROVE  Settled(j)
  <1>1. job \in [Jobs -> Row]
    BY DEF TypeOK
  <1>2. CASE Recover(w)
    <2>1. job'[j] = Recovered(job[j])
      BY <1>2 DEF Recover
    <2> QED
      BY <2>1 DEF Settled, Recovered, Released, QUEUED, RUNNING, COMPLETED, FAILED
  <1>3. ASSUME NEW k \in Jobs, NEW n, NEW now, job[k].status = QUEUED,
               Lease(w, k, n, now)
        PROVE  Settled(j)
    <2>1. j # k => job'[j] = job[j]
      BY <1>1, <1>3 DEF Lease
    <2>2. CASE j = k
      BY <1>3, <2>2 DEF Settled, QUEUED, RUNNING, COMPLETED
    <2> QED
      BY <2>1, <2>2, SameSettled
  <1>4. CASE Claim(w)
    BY <1>3, <1>4 DEF Claim, First, Eligible
  <1>5. CASE Update(w)
    <2>1. held[w].job \in Jobs
      BY <1>5 DEF Update, TypeOK
    <2> QED
      BY <1>3, <1>5, <2>1, SameSettled DEF Update, Eligible
  <1>6. CASE Heartbeat(w)
    BY <1>6, HeartbeatRows, SameSettled
  <1>7. ASSUME pc[w] = "run", EndRun(w),
               job'[j] = job[j] \/ (Owns(w, j) /\ held[w].job = j)
        PROVE  Settled(j)
    <2>1. pc'[w] # "run"
      BY <1>1, <1>7 DEF EndRun, TypeOK
    <2>2. CASE Owns(w, j)
      BY <1>7, <2>1, <2>2 DEF Settled, Owns, RUNNING, COMPLETED
    <2> QED
      BY <1>7, <2>2, SameSettled
  <1>8. CASE CompleteJob(w)
    <2>1. job'[j] = job[j] \/ (Owns(w, j) /\ held[w].job = j)
      BY <1>1, <1>8 DEF CompleteJob
    <2> QED
      BY <1>7, <1>8, <2>1 DEF CompleteJob
  <1>9. ASSUME NEW exc \in Errors, FailJob(w, exc) PROVE Settled(j)
    <2>1. job'[j] = job[j] \/ (Owns(w, j) /\ held[w].job = j)
      BY <1>1, <1>9 DEF FailJob
    <2> QED
      BY <1>7, <1>9, <2>1 DEF FailJob
  <1>10. CASE NoCandidate(w) \/ Select(w) \/ Fault(w) \/ Exit(w) \/ Restart(w)
    BY <1>10, SameSettled
    DEF NoCandidate, Select, Fault, Stop, Crash, HeartbeatError, Exit, Gone, Restart
  <1> QED
    BY <1>2, <1>4, <1>5, <1>6, <1>8, <1>9, <1>10 DEF WorkerStep, Poll, Finish

\* Every step settles every row as it may.
LEMMA NextSettles ==
  ASSUME LeaseInv, [Next]_vars, NEW j \in Jobs
  PROVE  Settled(j)
  <1>1. TypeOK /\ RequestsCurrent
    BY DEF LeaseInv
  <1>2. CASE Tick
    <2>1. job'[j] = job[j] \/ job'[j] = Aged(job[j])
      BY <1>2 DEF Tick, Elapse
    <2> QED
      BY <2>1, SameSettled DEF Aged
  <1>3. ASSUME NEW k \in Jobs, CreateJob(k) PROVE Settled(j)
    BY <1>1, <1>3
    DEF CreateJob, TypeOK, Settled, NewRow, ABSENT, QUEUED, RUNNING, COMPLETED
  <1>4. ASSUME NEW w \in Workers, WorkerStep(w) PROVE Settled(j)
    BY <1>1, <1>4, WorkerSettles
  <1>5. ASSUME NEW c \in Clients, CommitRun(c) PROVE Settled(j)
    <2> DEFINE r == request[c]
    <2>1. /\ r.job \in Jobs
          /\ job' = [job EXCEPT ![r.job] = Flushed(job[r.job], r.dirty, -r.age)]
      BY <1>1, <1>5 DEF CommitRun, TypeOK
    <2>2. "status" \in r.dirty => job[r.job].status = FAILED
      BY <1>1 DEF RequestsCurrent
    <2> HIDE DEF r
    <2>3. CASE j = r.job
      BY <1>1, <2>1, <2>2, <2>3
      DEF TypeOK, Flushed, Settled, QUEUED, RUNNING, COMPLETED, FAILED
    <2>4. CASE j # r.job
      BY <1>1, <2>1, <2>4, SameSettled DEF TypeOK
    <2> QED
      BY <2>3, <2>4
  <1>6. CASE \/ \E c \in Clients : AbortRun(c) \/ \E k \in Jobs : RequestRun(c, k)
             \/ UNCHANGED vars
    BY <1>6, SameSettled DEF AbortRun, RequestRun, vars
  <1> QED
    BY <1>2, <1>3, <1>4, <1>5, <1>6 DEF Next, ClientStep

\* The WHERE clauses of durable.py:109 and 184-189: as long as no two re-runs of
\* a failed job overlap, a running job is ended by the worker that holds its
\* execution or after its lease, on both dialects, however late a worker that
\* lost it comes back.
THEOREM EndsFenced == Spec /\ []RerunsApart => EndsByOwnerOrExpiry
  <1> DEFINE Ends == \A j \in Jobs :
        job[j].status = RUNNING /\ job'[j].status # RUNNING =>
          \/ Expired(job[j], 0) /\ job'[j].status \in {QUEUED, FAILED}
          \/ \E w \in Workers : /\ pc[w] = "run" /\ Owns(w, j)
                                /\ pc'[w] # "run"
  <1>1. LeaseInv /\ [Next]_vars => [Ends]_vars
    BY NextSettles DEF Settled
  <1> QED
    BY <1>1, LeaseInvariant, PTL DEF Spec, EndsByOwnerOrExpiry

\* ALLOWED_TRANSITIONS (durable.py:18-24) gives `completed' no successor: a
\* completed job stays completed as long as no two re-runs of a failed job
\* overlap, on both dialects.
THEOREM CompletedStays == Spec /\ []RerunsApart => CompletedIsFinal
  <1> DEFINE Stays == \A j \in Jobs : job[j].status = COMPLETED =>
                                       job'[j].status = COMPLETED
  <1>1. LeaseInv /\ [Next]_vars => [Stays]_vars
    BY NextSettles DEF Settled
  <1> QED
    BY <1>1, LeaseInvariant, PTL DEF Spec, CompletedIsFinal

-------------------------------------------------------------------------------
(***************************************************************************)
(* What a running job keeps.  A lease needs a queued row, and a flush that *)
(* leaves a row running changes no status, so it has read a queued row and *)
(* found no lease on it to take away.                                      *)
(***************************************************************************)

\* No step of a worker turns one execution of a running row into another.
LEMMA WorkerKeepsExecution ==
  ASSUME TypeOK, NEW w \in Workers, WorkerStep(w), NEW j \in Jobs,
         job[j].status = RUNNING, job'[j].status = RUNNING
  PROVE  job'[j].execution_id = job[j].execution_id
  <1>1. job \in [Jobs -> Row]
    BY DEF TypeOK
  <1>2. CASE Recover(w)
    <2>1. job'[j] = Recovered(job[j])
      BY <1>2 DEF Recover
    <2> QED
      BY <2>1 DEF Recovered, Released, QUEUED, RUNNING, FAILED
  <1>3. ASSUME NEW k \in Jobs, NEW n, NEW now, job[k].status = QUEUED,
               Lease(w, k, n, now)
        PROVE  job'[j] = job[j]
    BY <1>1, <1>3 DEF Lease, QUEUED, RUNNING
  <1>4. CASE Claim(w)
    BY <1>3, <1>4 DEF Claim, First, Eligible
  <1>5. CASE Update(w)
    BY <1>3, <1>5 DEF Update, Eligible, TypeOK
  <1>6. CASE Heartbeat(w)
    BY <1>6, HeartbeatRows
  <1>7. CASE CompleteJob(w)
    BY <1>1, <1>7 DEF CompleteJob, Released, COMPLETED, RUNNING
  <1>8. ASSUME NEW exc \in Errors, FailJob(w, exc)
        PROVE  job'[j].execution_id = job[j].execution_id
    BY <1>1, <1>8 DEF FailJob, Released
  <1>9. CASE NoCandidate(w) \/ Select(w) \/ Fault(w) \/ Exit(w) \/ Restart(w)
    BY <1>9
    DEF NoCandidate, Select, Fault, Stop, Crash, HeartbeatError, Exit, Gone, Restart
  <1> QED
    BY <1>2, <1>4, <1>5, <1>6, <1>7, <1>8, <1>9 DEF WorkerStep, Poll, Finish

\* What a step may do to the execution of a row that runs on.
Unassigned(j) ==
  job[j].status = RUNNING /\ job'[j].status = RUNNING =>
    \/ job'[j].execution_id = job[j].execution_id
    \/ /\ job'[j].execution_id = None
       /\ job'[j].lease_expires_at # None
       /\ \E c \in Clients : /\ request[c].job = j
                             /\ "execution_id" \in request[c].dirty
                             /\ request'[c] = NoRequest

\* A flush gives a row the execution id it has or none, and leaves the lease.
LEMMA CommitUnassigned ==
  ASSUME LeaseInv, NEW c \in Clients, CommitRun(c), NEW j \in Jobs
  PROVE  Unassigned(j)
  <1> DEFINE r == request[c]
  <1>1. /\ r.job \in Jobs
        /\ job' = [job EXCEPT ![r.job] = Flushed(job[r.job], r.dirty, -r.age)]
        /\ request'[c] = NoRequest
    BY DEF LeaseInv, CommitRun, TypeOK
  <1>2. LeaseExact(job[j]) /\ "lease_expires_at" \notin r.dirty
    BY DEF LeaseInv, RequestsCurrent
  <1>3. CASE j # r.job
    BY <1>1, <1>3 DEF LeaseInv, TypeOK, Unassigned
  <1>4. CASE j = r.job
    <2>1. job'[j] = Flushed(job[j], r.dirty, -r.age)
      BY <1>1, <1>4 DEF LeaseInv, TypeOK
    <2>2. job'[j].lease_expires_at = job[j].lease_expires_at
      BY <1>2, <2>1 DEF Flushed
    <2>3. CASE "execution_id" \in r.dirty
      BY <1>1, <1>2, <1>4, <2>1, <2>2, <2>3 DEF Flushed, LeaseExact, Unassigned
    <2>4. CASE "execution_id" \notin r.dirty
      BY <2>1, <2>4 DEF Flushed, Unassigned
    <2> QED
      BY <2>3, <2>4
  <1> QED
    BY <1>3, <1>4

\* durable.py:46-50 and 154-155: while a job stays running, no claim and no
\* request gives it to another execution or takes its lease, as long as no two
\* re-runs of a failed job overlap, on both dialects and under every fault; all
\* that a late flush takes is the execution id.
THEOREM RunningKept == Spec /\ []RerunsApart => RunningIsNotReassigned
  <1> DEFINE Kept == \A j \in Jobs :
        job[j].status = RUNNING /\ job'[j].status = RUNNING =>
          \/ job'[j].execution_id = job[j].execution_id
          \/ /\ job'[j].execution_id = None
             /\ job'[j].lease_expires_at # None
             /\ \E c \in Clients : /\ request[c].job = j
                                   /\ "execution_id" \in request[c].dirty
                                   /\ request'[c] = NoRequest
  <1>1. ASSUME LeaseInv, [Next]_vars, NEW j \in Jobs PROVE Unassigned(j)
    <2>1. TypeOK
      BY <1>1 DEF LeaseInv
    <2>2. CASE Tick
      <3>1. job'[j] = job[j] \/ job'[j] = Aged(job[j])
        BY <2>2 DEF Tick, Elapse
      <3> QED
        BY <3>1 DEF Aged, Unassigned
    <2>3. ASSUME NEW k \in Jobs, CreateJob(k) PROVE Unassigned(j)
      BY <2>1, <2>3
      DEF CreateJob, TypeOK, NewRow, ABSENT, QUEUED, RUNNING, Unassigned
    <2>4. ASSUME NEW w \in Workers, WorkerStep(w) PROVE Unassigned(j)
      BY <2>1, <2>4, WorkerKeepsExecution DEF Unassigned
    <2>5. ASSUME NEW c \in Clients, CommitRun(c) PROVE Unassigned(j)
      BY <1>1, <2>5, CommitUnassigned
    <2>6. CASE \/ \E c \in Clients :
                    AbortRun(c) \/ \E k \in Jobs : RequestRun(c, k)
               \/ UNCHANGED vars
      BY <2>6 DEF AbortRun, RequestRun, vars, Unassigned
    <2> QED
      BY <1>1, <2>2, <2>3, <2>4, <2>5, <2>6 DEF Next, ClientStep
  <1>2. LeaseInv /\ [Next]_vars => [Kept]_vars
    BY <1>1 DEF Unassigned
  <1> QED
    BY <1>2, LeaseInvariant, PTL DEF Spec, RunningIsNotReassigned

-------------------------------------------------------------------------------
(***************************************************************************)
(* The safety part of JobContract, on PostgreSQL.  The budget invariant    *)
(* tells that a row which is put back has an attempt left, RequestsCurrent *)
(* that a request only ever re-runs a row that is failed.                  *)
(***************************************************************************)

\* What a step may do with one row: the moves of JobContract, read on the row.
RowStep(old, new) ==
  \/ new.status = old.status /\ new.attempts = old.attempts
  \/ old.status = ABSENT /\ new.status = QUEUED /\ new.attempts = 0
  \/ /\ old.status = QUEUED /\ old.attempts < MaxAttempts
     /\ new.status = RUNNING /\ new.attempts = old.attempts + 1
  \/ /\ old.status = RUNNING /\ new.attempts = old.attempts
     /\ \/ new.status \in {COMPLETED, FAILED}
        \/ new.status = QUEUED /\ old.attempts < MaxAttempts
  \/ old.status = FAILED /\ new.status = QUEUED /\ new.attempts = 0

RowsStep == \A j \in Jobs : RowStep(job[j], job'[j])

ContractInv == BudgetInv /\ LeaseInv

\* Moves of all rows are a step of the contract.
LEMMA RowsStepMaps ==
  ASSUME RowsStep
  PROVE  Contract!Next
  <1> SUFFICES ASSUME NEW j \in Jobs
               PROVE  \/ Contract!Step(j)
                      \/ /\ job'[j].status = job[j].status
                         /\ job'[j].attempts = job[j].attempts
    BY DEF Contract!Next
  <1>1. RowStep(job[j], job'[j])
    BY DEF RowsStep
  <1> QED
    BY <1>1
    DEF RowStep, Contract!Step, Contract!Create, Contract!Start, Contract!Retry,
        Contract!Complete, Contract!Fail, Contract!Rerun, Contract!Moves,
        ABSENT, QUEUED, RUNNING, COMPLETED, FAILED

\* A worker moves a row as the contract does.
LEMMA WorkerMoves ==
  ASSUME ContractInv, UpdatesFresh, NEW w \in Workers, WorkerStep(w)
  PROVE  RowsStep
  <1>1. /\ TypeOK /\ SnapshotCurrent
        /\ \A j \in Jobs : job[j] \in Row /\ RowBudget(j)
    BY DEF ContractInv, BudgetInv, SnapshotInv, TypeOK
  <1>2. ASSUME \A j \in Jobs : job'[j] = job[j] PROVE RowsStep
    BY <1>2 DEF RowsStep, RowStep
  <1>3. CASE Recover(w)
    <2> SUFFICES ASSUME NEW j \in Jobs PROVE RowStep(job[j], job'[j])
      BY DEF RowsStep
    <2>1. job'[j] = Recovered(job[j])
      BY <1>3 DEF Recover
    <2> QED
      BY <2>1 DEF RowStep, Recovered, Released
  <1>4. ASSUME NEW j \in Jobs, NEW now, job[j].status = QUEUED,
               Lease(w, j, job[j].attempts + 1, now)
        PROVE  RowsStep
    <2>1. /\ job'[j].status = RUNNING
          /\ job'[j].attempts = job[j].attempts + 1
          /\ \A k \in Jobs : k # j => job'[k] = job[k]
      BY <1>1, <1>4 DEF Lease, TypeOK
    <2>2. job[j].attempts < MaxAttempts
      BY <1>1, <1>4 DEF RowBudget
    <2> QED
      BY <1>4, <2>1, <2>2 DEF RowsStep, RowStep
  <1>10. CASE Claim(w)
    BY <1>4, <1>10 DEF Claim, First, Eligible
  <1>11. CASE Update(w)
    <2>1. held[w].job \in Jobs
      BY <1>1, <1>11 DEF Update, TypeOK
    <2>2. CASE /\ Eligible(job[held[w].job], -held[w].age)
               /\ Lease(w, held[w].job, held[w].attempts + 1, -held[w].age)
      <3>1. held[w].attempts = job[held[w].job].attempts
        BY <1>11, <2>2 DEF UpdatesFresh, Update
      <3> QED
        BY <1>4, <2>1, <2>2, <3>1 DEF Eligible
    <2>3. CASE job' = job
      BY <1>2, <2>3
    <2> QED
      BY <1>11, <2>2, <2>3 DEF Update
  <1>5. CASE Heartbeat(w)
    BY <1>1, <1>5, HeartbeatRows DEF RowsStep, RowStep
  <1>6. ASSUME NEW j \in Jobs, NEW status, NEW next, NEW exec,
               job[j].status = RUNNING,
               \/ status \in {COMPLETED, FAILED}
               \/ status = QUEUED /\ job[j].attempts < MaxAttempts,
               job' = [job EXCEPT ![j] = Released(job[j], status, next, exec)]
        PROVE  RowsStep
    <2>1. /\ job'[j].status = status
          /\ job'[j].attempts = job[j].attempts
          /\ \A k \in Jobs : k # j => job'[k] = job[k]
      BY <1>1, <1>6 DEF Released, TypeOK
    <2> QED
      BY <1>6, <2>1 DEF RowsStep, RowStep
  <1>7. CASE CompleteJob(w)
    <2>1. held[w].job \in Jobs
      BY <1>1, <1>7 DEF CompleteJob, TypeOK
    <2> QED
      BY <1>2, <1>6, <1>7, <2>1 DEF CompleteJob, Owns
  <1>8. ASSUME NEW exc \in Errors, FailJob(w, exc) PROVE RowsStep
    <2> DEFINE i == held[w].job
    <2>1. i \in Jobs
      BY <1>1, <1>8 DEF FailJob, TypeOK
    <2>2. CASE ~Owns(w, i)
      BY <1>2, <1>8, <2>2 DEF FailJob
    <2>3. CASE Owns(w, i)
      <3>1. /\ job[i].status = RUNNING
            /\ held[w].attempts = job[i].attempts
            /\ job[i].attempts \in Nat /\ MaxAttempts \in Nat
        BY <1>1, <1>8, <2>1, <2>3, QueueAssumption
        DEF FailJob, Owns, SnapshotCurrent, Row
      <3>2. \/ job' = [job EXCEPT ![i] =
                          Released(job[i], FAILED, job[i].next_run_at,
                                   job[i].execution_id)]
            \/ /\ ~(held[w].attempts >= MaxAttempts)
               /\ job' = [job EXCEPT ![i] =
                            Released(job[i], QUEUED,
                                     retry_delay(held[w].attempts),
                                     job[i].execution_id)]
        BY <1>8, <2>3 DEF FailJob
      <3>3. ~(held[w].attempts >= MaxAttempts) => job[i].attempts < MaxAttempts
        BY <3>1
      <3> HIDE DEF i
      <3> QED
        BY <1>6, <2>1, <3>1, <3>2, <3>3
    <2> QED
      BY <2>2, <2>3
  <1>9. CASE NoCandidate(w) \/ Select(w) \/ Fault(w) \/ Exit(w) \/ Restart(w)
    BY <1>2, <1>9
    DEF NoCandidate, Select, Fault, Stop, Crash, HeartbeatError, Exit, Gone, Restart
  <1> QED
    BY <1>3, <1>5, <1>7, <1>8, <1>9, <1>10, <1>11 DEF WorkerStep, Poll, Finish

\* A flush queues a failed row again and resets its counter, or leaves both.
LEMMA CommitMoves ==
  ASSUME ContractInv, NEW c \in Clients, CommitRun(c)
  PROVE  RowsStep
  <1> DEFINE r == request[c]
  <1>1. /\ r.job \in Jobs
        /\ job \in [Jobs -> Row]
        /\ job' = [job EXCEPT ![r.job] = Flushed(job[r.job], r.dirty, -r.age)]
    BY DEF ContractInv, LeaseInv, CommitRun, TypeOK
  <1>2. /\ "status" \in r.dirty => job[r.job].status = FAILED
        /\ "status" \in r.dirty <=> "attempts" \in r.dirty
    BY DEF ContractInv, LeaseInv, RequestsCurrent, BudgetInv, RequestsExact
  <1> HIDE DEF r
  <1>3. RowStep(job[r.job], Flushed(job[r.job], r.dirty, -r.age))
    BY <1>2 DEF RowStep, Flushed
  <1> QED
    BY <1>1, <1>3 DEF RowsStep, RowStep

\* Every step moves the rows as the contract does.
LEMMA NextMoves ==
  ASSUME ContractInv, UpdatesFresh, [Next]_vars
  PROVE  RowsStep
  <1>1. CASE Tick
    <2> SUFFICES ASSUME NEW j \in Jobs PROVE RowStep(job[j], job'[j])
      BY DEF RowsStep
    <2>1. job'[j] = job[j] \/ job'[j] = Aged(job[j])
      BY <1>1 DEF Tick, Elapse
    <2> QED
      BY <2>1 DEF Aged, RowStep
  <1>2. ASSUME NEW j \in Jobs, CreateJob(j) PROVE RowsStep
    <2>1. /\ job[j].status = ABSENT /\ job'[j] = NewRow
          /\ \A k \in Jobs : k # j => job'[k] = job[k]
      BY <1>2 DEF ContractInv, LeaseInv, CreateJob, TypeOK
    <2> QED
      BY <2>1 DEF RowsStep, RowStep, NewRow
  <1>3. ASSUME NEW w \in Workers, WorkerStep(w) PROVE RowsStep
    BY <1>3, WorkerMoves
  <1>4. ASSUME NEW c \in Clients, ClientStep(c) PROVE RowsStep
    <2>1. CASE CommitRun(c)
      BY <2>1, CommitMoves
    <2>2. CASE AbortRun(c) \/ \E j \in Jobs : RequestRun(c, j)
      BY <2>2 DEF RowsStep, RowStep, AbortRun, RequestRun
    <2> QED
      BY <1>4, <2>1, <2>2 DEF ClientStep
  <1>5. CASE UNCHANGED vars
    BY <1>5 DEF RowsStep, RowStep, vars
  <1> QED
    BY <1>1, <1>2, <1>3, <1>4, <1>5 DEF Next

\* Nothing is under way at the start.
LEMMA InitContract == Init => ContractInv
  BY InitBudget, InitLease DEF ContractInv

\* The two invariants together are inductive.
LEMMA NextContract ==
  ASSUME RerunsApart, UpdatesFresh, ContractInv, [Next]_vars
  PROVE  ContractInv'
  BY NextBudget, NextLease DEF ContractInv

\* On PostgreSQL no UPDATE is outdated, because none is apart from its SELECT.
LEMMA LockedContract ==
  ASSUME Dialect = "postgresql"
  PROVE  Spec /\ []RerunsApart => [](ContractInv /\ UpdatesFresh)
  <1>1. Init => ContractInv /\ Unlocked
    BY InitContract DEF Init, Unlocked
  <1>2. ContractInv /\ Unlocked => UpdatesFresh
    BY DEF Unlocked, UpdatesFresh
  <1>3. ContractInv /\ Unlocked /\ RerunsApart /\ [Next]_vars =>
          (ContractInv /\ Unlocked)'
    BY <1>2, NextContract, NextUnlocked DEF ContractInv, LeaseInv
  <1> QED
    BY <1>1, <1>2, <1>3, PTL DEF Spec

\* From there the contract's safety part follows on either dialect.
LEMMA ContractFollows ==
  Spec /\ [](ContractInv /\ UpdatesFresh) => Contract!SafeSpec
  <1>1. Init => Contract!Init
    BY DEF Init, Contract!Init, NoRow, NewRow, ABSENT
  <1>2. ContractInv /\ UpdatesFresh /\ [Next]_vars =>
          [Contract!Next]_Contract!vars
    BY NextMoves, RowsStepMaps
  <1> QED
    BY <1>1, <1>2, PTL DEF Spec, Contract!SafeSpec

\* On PostgreSQL, and as long as no two re-runs of a failed job overlap, the
\* queue's rows only move as ALLOWED_TRANSITIONS (durable.py:18-24), the attempt
\* limit and the re-run of a failed job allow: JobQueue implements JobContract's
\* safety part.
THEOREM ImplementsContractSafety ==
  ASSUME Dialect = "postgresql"
  PROVE  Spec /\ []RerunsApart => Contract!SafeSpec
  BY LockedContract, ContractFollows, PTL

===============================================================================
