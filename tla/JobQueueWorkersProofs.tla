------------------------- MODULE JobQueueWorkersProofs -------------------------
(***************************************************************************)
(* Proofs about JobQueue without run requests, for every set of jobs and   *)
(* workers: the attempt budget and JobContract's safety part hold on       *)
(* SQLite too, and while heartbeats are punctual and workers only fail by  *)
(* crashing, a job is in the hands of one live worker on both dialects.    *)
(***************************************************************************)
EXTENDS JobQueueContractProofs

\* No run request is under way.
NoRequests == \A c \in Clients : request[c] = NoRequest

\* Without requests admitted there are none under way.
LEMMA NextNoRequests ==
  ASSUME MaxRequests = 0, TypeOK, NoRequests, [Next]_vars
  PROVE  NoRequests'
  <1>1. accepted \in 0..0
    BY DEF TypeOK
  <1>2. CASE Tick
    BY <1>2 DEF Tick, Elapse, NoRequests
  <1>3. ASSUME NEW w \in Workers, WorkerStep(w) PROVE request' = request
    BY <1>3 DEF WorkerStep, Poll, Recover, NoCandidate, Claim, Select, Update,
                Lease, Heartbeat, Finish, CompleteJob, FailJob, EndRun, Fault,
                Stop, Crash, HeartbeatError, Gone, Exit, Restart
  <1>4. ASSUME NEW j \in Jobs, CreateJob(j) PROVE request' = request
    BY <1>4 DEF CreateJob
  <1>5. ASSUME NEW c \in Clients, ClientStep(c) PROVE FALSE
    BY <1>1, <1>5 DEF NoRequests, ClientStep, CommitRun, AbortRun, RequestRun
  <1>6. CASE UNCHANGED vars
    BY <1>6 DEF vars, NoRequests
  <1> QED
    BY <1>2, <1>3, <1>4, <1>5, <1>6 DEF Next, NoRequests

-------------------------------------------------------------------------------
(***************************************************************************)
(* One handler per job.  OneHandlerPerJob alone is not inductive: a second *)
(* worker must find the row neither queued nor expired, so the lease of a  *)
(* running worker must outlast the sleep of its heartbeat task.            *)
(***************************************************************************)

\* The worker owns the row of the job it runs, its heartbeat task is alive, and
\* the next heartbeat comes before the lease runs out.
Holds(w) ==
  /\ Owns(w, held[w].job)
  /\ beat[w] = "on"
  /\ job[held[w].job].lease_expires_at # None
  /\ timer[w] <= job[held[w].job].lease_expires_at

HandlerInv ==
  /\ TypeOK
  /\ NoRequests
  /\ stopping = {}
  /\ \A w \in Workers : pc[w] = "run" => Holds(w)

\* Heartbeats are never late, workers fail only by crashing, and a lease taken
\* at the SELECT's instant lasts beyond the first heartbeat.
Punctual ==
  /\ Heartbeats = "punctual"
  /\ Faults \subseteq {"crash"}
  /\ MaxRequests = 0
  /\ HeartbeatInterval + MaxGap <= LeaseDuration

\* A worker whose own variables and whose row stay keeps holding its job.
LEMMA HoldsKept ==
  ASSUME NEW w \in Workers, Holds(w), held'[w] = held[w], beat'[w] = beat[w],
         timer'[w] = timer[w], job'[held[w].job] = job[held[w].job]
  PROVE  Holds(w)'
  BY DEF Holds, Owns

\* A lease of a queued row takes it from nobody.
LEMMA LeaseHolds ==
  ASSUME HandlerInv, Punctual, NEW w \in Workers, NEW j \in Jobs, NEW n,
         NEW now \in Int, -MaxGap <= now, pc[w] # "run",
         job[j].status = QUEUED, Lease(w, j, n, now)
  PROVE  \A v \in Workers : pc'[v] = "run" => Holds(v)'
  <1>1. TypeOK /\ stopping = {} /\ \A v \in Workers : pc[v] = "run" => Holds(v)
    BY DEF HandlerInv
  <1>2. Holds(w)'
    <2>1. /\ held'[w].job = j /\ held'[w].exec = claims[j] + 1
          /\ beat'[w] = "on" /\ timer'[w] = HeartbeatInterval
          /\ job'[j].status = RUNNING /\ job'[j].lease_owner = w
          /\ job'[j].lease_expires_at = now + LeaseDuration
          /\ job'[j].execution_id = claims[j] + 1
      BY <1>1 DEF Lease, TypeOK
    <2>2. /\ HeartbeatInterval <= now + LeaseDuration
          /\ now + LeaseDuration # None
      BY QueueAssumption DEF Punctual
    <2> QED
      BY <2>1, <2>2 DEF Holds, Owns
  <1>3. ASSUME NEW v \in Workers, v # w, pc'[v] = "run" PROVE Holds(v)'
    <2>1. /\ pc[v] = "run" /\ held'[v] = held[v] /\ beat'[v] = beat[v]
          /\ timer'[v] = timer[v]
          /\ \A k \in Jobs : k # j => job'[k] = job[k]
      BY <1>1, <1>3 DEF Lease, TypeOK
    <2>2. held[v].job \in Jobs /\ held[v].job # j
      BY <1>1, <2>1 DEF TypeOK, Holds, Owns, QUEUED, RUNNING
    <2> QED
      BY <1>1, <2>1, <2>2, HoldsKept
  <1> QED
    BY <1>2, <1>3

\* A worker that ends its execution gives up the row it holds, which no other
\* worker holds.
LEMMA FinishHolds ==
  ASSUME HandlerInv, NEW w \in Workers, pc[w] = "run", EndRun(w),
         \A k \in Jobs : k # held[w].job => job'[k] = job[k]
  PROVE  \A v \in Workers : pc'[v] = "run" => Holds(v)'
  <1>1. TypeOK /\ \A v \in Workers : pc[v] = "run" => Holds(v)
    BY DEF HandlerInv
  <1> SUFFICES ASSUME NEW v \in Workers, pc'[v] = "run" PROVE Holds(v)'
    OBVIOUS
  <1>2. /\ v # w /\ pc[v] = "run" /\ held'[v] = held[v] /\ beat'[v] = beat[v]
        /\ timer'[v] = timer[v]
    BY <1>1 DEF EndRun, TypeOK
  <1>3. held[v].job \in Jobs /\ held[v].job # held[w].job
    BY <1>1, <1>2 DEF TypeOK, Holds, Owns
  <1> QED
    BY <1>1, <1>2, <1>3, HoldsKept

\* Every step of a worker leaves every other worker its job.
LEMMA WorkerHolds ==
  ASSUME HandlerInv, Punctual, NEW w \in Workers, WorkerStep(w)
  PROVE  \A v \in Workers : pc'[v] = "run" => Holds(v)'
  <1>1. /\ TypeOK /\ stopping = {}
        /\ \A v \in Workers : pc[v] = "run" => Holds(v)
    BY DEF HandlerInv
  <1>2. ASSUME \A v \in Workers : pc'[v] = "run" =>
                 /\ pc[v] = "run" /\ held'[v] = held[v] /\ beat'[v] = beat[v]
                 /\ timer'[v] = timer[v] /\ job'[held[v].job] = job[held[v].job]
        PROVE  \A v \in Workers : pc'[v] = "run" => Holds(v)'
    BY <1>1, <1>2, HoldsKept
  <1>3. CASE Recover(w)
    <2> SUFFICES ASSUME NEW v \in Workers, pc'[v] = "run" PROVE Holds(v)'
      OBVIOUS
    <2>1. /\ pc[v] = "run" /\ held'[v] = held[v] /\ beat'[v] = beat[v]
          /\ timer'[v] = timer[v]
      BY <1>1, <1>3 DEF Recover, TypeOK
    <2>2. held[v].job \in Jobs /\ job[held[v].job] \in Row /\ timer[v] \in Nat
      BY <1>1, <2>1, QueueAssumption DEF TypeOK
    <2>3. job[held[v].job].lease_expires_at \in Int
      BY <1>1, <2>1, <2>2 DEF Holds, Row
    <2>4. ~Expired(job[held[v].job], 0)
      BY <1>1, <2>1, <2>2, <2>3 DEF Holds, Expired
    <2>5. job'[held[v].job] = job[held[v].job]
      BY <1>3, <2>2, <2>4 DEF Recover, Recovered
    <2> QED
      BY <1>1, <2>1, <2>5, HoldsKept
  <1>4. CASE Claim(w)
    <2>1. PICK j \in Jobs : /\ job[j].status = QUEUED
                            /\ Lease(w, j, job[j].attempts + 1, 0)
      BY <1>4 DEF Claim, First, Eligible
    <2>2. -MaxGap <= 0 /\ 0 \in Int
      BY QueueAssumption
    <2>3. pc[w] # "run"
      BY <1>4 DEF Claim
    <2> QED
      BY <2>1, <2>2, <2>3, LeaseHolds
  <1>5. CASE Update(w)
    <2>1. /\ held[w].job \in Jobs /\ -held[w].age \in Int
          /\ -MaxGap <= -held[w].age
      BY <1>1, <1>5, QueueAssumption DEF Update, TypeOK, Held
    <2>2. CASE /\ job[held[w].job].status = QUEUED
               /\ Lease(w, held[w].job, held[w].attempts + 1, -held[w].age)
      BY <1>5, <2>1, <2>2, LeaseHolds DEF Update
    <2>3. CASE /\ pc' = [pc EXCEPT ![w] = "poll"]
               /\ held' = [held EXCEPT ![w] = NoJob]
               /\ UNCHANGED <<job, beat, timer>>
      BY <1>1, <1>2, <2>3 DEF TypeOK
    <2> QED
      BY <1>5, <2>2, <2>3 DEF Update, Eligible
  <1>6. CASE Heartbeat(w)
    <2> DEFINE i == held[w].job
    <2>1. /\ i \in Jobs /\ pc[w] = "run" /\ Holds(w)
          /\ job[i].lease_expires_at \in Int
      BY <1>1, <1>6 DEF Heartbeat, TypeOK, Holds, Row
    <2>2. Owns(w, i) /\ job[i].lease_expires_at # None
            /\ job[i].lease_expires_at >= 0
      BY <1>6, <2>1 DEF Heartbeat, Holds
    <2>3. /\ job' = [job EXCEPT ![i] =
                       [job[i] EXCEPT !.lease_expires_at = LeaseDuration]]
          /\ beat' = [beat EXCEPT ![w] = "on"]
          /\ timer' = [timer EXCEPT ![w] = HeartbeatInterval]
          /\ held' = held /\ pc' = pc
      BY <1>1, <1>6, <2>2 DEF Heartbeat
    <2>4. Holds(w)'
      <3>1. job'[i] = [job[i] EXCEPT !.lease_expires_at = LeaseDuration]
        BY <1>1, <2>1, <2>3 DEF TypeOK
      <3>2. ASSUME NEW row \in Row
            PROVE  LET new == [row EXCEPT !.lease_expires_at = LeaseDuration]
                   IN  /\ new.lease_expires_at = LeaseDuration
                       /\ new.status = row.status
                       /\ new.lease_owner = row.lease_owner
                       /\ new.execution_id = row.execution_id
        BY DEF Row
      <3>3. /\ job'[i].lease_expires_at = LeaseDuration
            /\ job'[i].status = job[i].status
            /\ job'[i].lease_owner = job[i].lease_owner
            /\ job'[i].execution_id = job[i].execution_id
        BY <1>1, <2>1, <3>1, <3>2 DEF TypeOK
      <3>4. LeaseDuration # None /\ HeartbeatInterval <= LeaseDuration
        BY QueueAssumption DEF Punctual
      <3>5. held'[w] = held[w] /\ beat'[w] = "on" /\ timer'[w] = HeartbeatInterval
        BY <1>1, <2>3 DEF TypeOK
      <3> QED
        BY <2>2, <3>3, <3>4, <3>5 DEF Holds, Owns
    <2>5. ASSUME NEW v \in Workers, v # w, pc'[v] = "run" PROVE Holds(v)'
      <3>1. /\ pc[v] = "run" /\ held'[v] = held[v] /\ beat'[v] = beat[v]
            /\ timer'[v] = timer[v]
        BY <1>1, <2>3, <2>5 DEF TypeOK
      <3>2. held[v].job \in Jobs /\ held[v].job # i
        BY <1>1, <2>1, <2>5, <3>1 DEF TypeOK, Holds, Owns
      <3>3. job'[held[v].job] = job[held[v].job]
        BY <1>1, <2>1, <2>3, <3>2 DEF TypeOK
      <3> QED
        BY <1>1, <3>1, <3>3, HoldsKept
    <2> QED
      BY <2>4, <2>5
  <1>7. CASE CompleteJob(w)
    <2>1. \A k \in Jobs : k # held[w].job => job'[k] = job[k]
      BY <1>1, <1>7 DEF CompleteJob, TypeOK
    <2> QED
      BY <1>7, <2>1, FinishHolds DEF CompleteJob
  <1>8. ASSUME NEW exc \in Errors, FailJob(w, exc)
        PROVE  \A v \in Workers : pc'[v] = "run" => Holds(v)'
    <2>1. \A k \in Jobs : k # held[w].job => job'[k] = job[k]
      BY <1>1, <1>8 DEF FailJob, TypeOK
    <2> QED
      BY <1>8, <2>1, FinishHolds DEF FailJob
  <1>9. CASE NoCandidate(w) \/ Select(w) \/ Restart(w)
    BY <1>1, <1>2, <1>9 DEF NoCandidate, Select, Restart, TypeOK
  <1>10. CASE Crash(w)
    BY <1>1, <1>2, <1>10 DEF Crash, Gone, TypeOK
  <1>11. ~Stop(w) /\ ~HeartbeatError(w) /\ ~Exit(w)
    BY <1>1 DEF Punctual, Stop, HeartbeatError, Exit
  <1> QED
    BY <1>3, <1>4, <1>5, <1>6, <1>7, <1>8, <1>9, <1>10, <1>11
    DEF WorkerStep, Poll, Finish, Fault

\* Time that waits for due heartbeats never lets the lease of a running worker
\* run out.
LEMMA TickHolds ==
  ASSUME HandlerInv, Punctual, Tick
  PROVE  \A v \in Workers : pc'[v] = "run" => Holds(v)'
  <1> SUFFICES ASSUME NEW v \in Workers, pc'[v] = "run" PROVE Holds(v)'
    OBVIOUS
  <1> DEFINE row == job[held[v].job]
  <1>1. /\ TypeOK /\ pc[v] = "run" /\ Holds(v)
        /\ held'[v] = held[v] /\ beat'[v] = beat[v]
    BY DEF HandlerInv, Tick, Elapse
  <1>2. /\ held[v].job \in Jobs /\ row \in Row
        /\ timer[v] \in Nat /\ row.lease_expires_at \in Int
    BY <1>1, QueueAssumption DEF TypeOK, Holds, Row
  <1>3. timer[v] > 0 /\ timer'[v] = timer[v] - 1
    BY <1>1, <1>2 DEF Tick, Elapse, HeartbeatDue, Punctual, Holds
  <1>4. job'[held[v].job] = Aged(row)
    BY <1>1, <1>2 DEF Tick, Elapse, Holds, Owns, ABSENT, RUNNING
  <1>5. /\ Aged(row).lease_expires_at = row.lease_expires_at - 1
        /\ row.lease_expires_at - 1 # None
    <2>1. row.lease_expires_at > Past /\ row.lease_expires_at # None
      BY <1>1, <1>2, <1>3, QueueAssumption DEF Holds, Past
    <2> QED
      BY <1>2, <2>1, QueueAssumption DEF Aged, Older
  <1>6. timer[v] - 1 <= row.lease_expires_at - 1
    BY <1>1, <1>2 DEF Holds
  <1> HIDE DEF row
  <1>7. /\ Aged(row).status = row.status
        /\ Aged(row).lease_owner = row.lease_owner
        /\ Aged(row).execution_id = row.execution_id
    BY DEF Aged
  <1> QED
    BY <1>1, <1>3, <1>4, <1>5, <1>6, <1>7 DEF Holds, Owns, row

\* The strengthened invariant is inductive.
LEMMA NextHandler ==
  ASSUME Punctual, HandlerInv, [Next]_vars
  PROVE  HandlerInv'
  <1>1. TypeOK'
    BY NextType DEF HandlerInv
  <1>2. NoRequests'
    BY NextNoRequests DEF HandlerInv, Punctual
  <1>3. stopping' = {}
    <2>1. stopping = {}
      BY DEF HandlerInv
    <2>2. ASSUME NEW w \in Workers, WorkerStep(w) PROVE stopping' = {}
      <3>1. ~Stop(w)
        BY DEF Punctual, Stop
      <3> QED
        BY <2>1, <2>2, <3>1
        DEF WorkerStep, Poll, Recover, NoCandidate, Claim, Select, Update, Lease,
            Heartbeat, Finish, CompleteJob, FailJob, EndRun, Fault, Crash,
            HeartbeatError, Gone, Exit, Restart
    <2> QED
      BY <2>1, <2>2
      DEF Next, Tick, Elapse, CreateJob, ClientStep, CommitRun, AbortRun, RequestRun,
          workerVars, vars
  <1>4. \A v \in Workers : pc'[v] = "run" => Holds(v)'
    <2>1. CASE Tick
      BY <2>1, TickHolds
    <2>2. ASSUME NEW w \in Workers, WorkerStep(w)
          PROVE  \A v \in Workers : pc'[v] = "run" => Holds(v)'
      BY <2>2, WorkerHolds
    <2>3. ASSUME NEW j \in Jobs, CreateJob(j)
          PROVE  \A v \in Workers : pc'[v] = "run" => Holds(v)'
      <3> SUFFICES ASSUME NEW v \in Workers, pc'[v] = "run" PROVE Holds(v)'
        OBVIOUS
      <3>1. /\ TypeOK /\ pc[v] = "run" /\ Holds(v) /\ held'[v] = held[v]
            /\ beat'[v] = beat[v] /\ timer'[v] = timer[v]
        BY <2>3 DEF HandlerInv, CreateJob, workerVars
      <3>2. held[v].job # j /\ held[v].job \in Jobs
        BY <2>3, <3>1 DEF CreateJob, Holds, Owns, TypeOK, ABSENT, RUNNING
      <3>3. job'[held[v].job] = job[held[v].job]
        BY <2>3, <3>1, <3>2 DEF CreateJob, TypeOK
      <3> QED
        BY <3>1, <3>3, HoldsKept
    <2>4. ASSUME NEW c \in Clients, ClientStep(c) PROVE FALSE
      <3>1. accepted \in 0..0 /\ MaxRequests = 0 /\ NoRequests
        BY DEF HandlerInv, TypeOK, Punctual
      <3> QED
        BY <2>4, <3>1 DEF NoRequests, ClientStep, CommitRun, AbortRun, RequestRun
    <2>5. CASE UNCHANGED vars
      BY <2>5 DEF vars, workerVars, HandlerInv, Holds, Owns
    <2> QED
      BY <2>1, <2>2, <2>3, <2>4, <2>5 DEF Next
  <1> QED
    BY <1>1, <1>2, <1>3, <1>4 DEF HandlerInv

\* A job is never in the hands of two live workers (the lease of durable.py:41
\* and the heartbeat of durable.py:82 together), on both dialects, for every
\* number of jobs and workers and whatever crashes: as long as heartbeats are
\* on time and the lease is longer than the heartbeat interval by the age of
\* the instant a claim counts from.
THEOREM OneHandler ==
  ASSUME Punctual
  PROVE  Spec => []OneHandlerPerJob
  <1>1. Init => HandlerInv
    BY InitType DEF Init, HandlerInv, NoRequests
  <1>2. HandlerInv /\ [Next]_vars => HandlerInv'
    BY NextHandler
  <1>3. HandlerInv => OneHandlerPerJob
    BY DEF HandlerInv, Holds, Owns, OneHandlerPerJob
  <1> QED
    BY <1>1, <1>2, <1>3, PTL DEF Spec

-------------------------------------------------------------------------------
(***************************************************************************)
(* The attempt budget where the SELECT of a claim takes no lock.  The      *)
(* UPDATE writes a count it computed from the SELECT's row; it must find   *)
(* the row not eligible at the SELECT's instant if anything changed it.    *)
(***************************************************************************)

\* Row j as a worker that selected it `age' ago with n attempts may find it:
\* unchanged, put back for an instant after the SELECT, running on a lease that
\* lasts beyond the SELECT, or finished.
AsSelected(row, n, age) ==
  \/ row.status = QUEUED /\ (row.attempts = n \/ row.next_run_at > -age)
  \/ /\ row.status = RUNNING
     /\ row.lease_expires_at # None
     /\ row.lease_expires_at >= -age
  \/ row.status \in {COMPLETED, FAILED}

SelectsCurrent ==
  \A w \in Workers :
    pc[w] = "update" =>
      AsSelected(job[held[w].job], held[w].attempts, held[w].age)

\* Every retry waits for some time, and a lease is longer than the time
\* between a SELECT and its UPDATE.
DelaysApart ==
  /\ \A n \in Nat : retry_delay(n) > 0
  /\ MaxGap <= LeaseDuration

SelectInv == TypeOK /\ NoRequests /\ SelectsCurrent

\* A row that is not as selected is not eligible at the SELECT's instant.
LEMMA SelectedFresh ==
  ASSUME TypeOK, SelectsCurrent
  PROVE  UpdatesFresh
  <1> SUFFICES ASSUME NEW w \in Workers, pc[w] = "update",
                      Eligible(job[held[w].job], -held[w].age)
               PROVE  held[w].attempts = job[held[w].job].attempts
    BY DEF UpdatesFresh
  <1>1. /\ held[w].job \in Jobs /\ job[held[w].job] \in Row
        /\ held[w].age \in Nat
    BY QueueAssumption DEF TypeOK, Held
  <1>2. /\ job[held[w].job].status = QUEUED
        /\ job[held[w].job].next_run_at <= -held[w].age
        /\ job[held[w].job].next_run_at \in Int
    BY <1>1 DEF Eligible, Row
  <1>3. ~(job[held[w].job].next_run_at > -held[w].age)
    BY <1>1, <1>2
  <1> QED
    BY <1>2, <1>3
    DEF SelectsCurrent, AsSelected, QUEUED, RUNNING, COMPLETED, FAILED

\* The steps of a worker turn a row that is as selected into one that is.
LEMMA WorkerRowSelected ==
  ASSUME TypeOK, DelaysApart, NEW w \in Workers, WorkerStep(w), NEW j \in Jobs,
         NEW n \in Nat, NEW age \in 0..MaxGap, AsSelected(job[j], n, age)
  PROVE  AsSelected(job'[j], n, age)
  <1>1. job \in [Jobs -> Row] /\ job[j] \in Row /\ age \in Nat
    BY QueueAssumption DEF TypeOK
  <1>2. CASE Recover(w)
    <2>1. job'[j] = Recovered(job[j])
      BY <1>2 DEF Recover
    <2>2. CASE job[j].status = RUNNING /\ Expired(job[j], 0)
      <3>1. job[j].lease_expires_at >= -age /\ job[j].lease_expires_at < 0
              /\ job[j].lease_expires_at \in Int
        BY <1>1, <2>2
        DEF AsSelected, Expired, Row, QUEUED, RUNNING, COMPLETED, FAILED
      <3>2. 0 > -age
        BY <1>1, <3>1
      <3> QED
        BY <2>1, <2>2, <3>2 DEF Recovered, Released, AsSelected
    <2>3. CASE ~(job[j].status = RUNNING /\ Expired(job[j], 0))
      BY <2>1, <2>3 DEF Recovered
    <2> QED
      BY <2>2, <2>3
  <1>3. ASSUME NEW k \in Jobs, NEW m, NEW now \in Int, -MaxGap <= now,
               Lease(w, k, m, now)
        PROVE  AsSelected(job'[j], n, age)
    <2>1. CASE j = k
      <3>1. /\ job'[j].status = RUNNING
            /\ job'[j].lease_expires_at = now + LeaseDuration
        BY <1>1, <1>3, <2>1 DEF Lease
      <3>2. now + LeaseDuration >= -age /\ now + LeaseDuration # None
        BY <1>1, <1>3, QueueAssumption DEF DelaysApart
      <3> QED
        BY <3>1, <3>2 DEF AsSelected
    <2>2. CASE j # k
      BY <1>1, <1>3, <2>2 DEF Lease
    <2> QED
      BY <2>1, <2>2
  <1>4. CASE Claim(w)
    <2>1. -MaxGap <= 0 /\ 0 \in Int
      BY QueueAssumption
    <2> QED
      BY <1>3, <1>4, <2>1 DEF Claim, First
  <1>5. CASE Update(w)
    <2>1. /\ held[w].job \in Jobs /\ -held[w].age \in Int
          /\ -MaxGap <= -held[w].age
      BY <1>5, QueueAssumption DEF Update, TypeOK, Held
    <2> QED
      BY <1>3, <1>5, <2>1 DEF Update
  <1>6. CASE Heartbeat(w)
    <2>1. \/ job'[j] = job[j]
          \/ job'[j] = [job[j] EXCEPT !.lease_expires_at = LeaseDuration]
      BY <1>1, <1>6 DEF Heartbeat, TypeOK
    <2>2. ASSUME NEW new, new = [job[j] EXCEPT !.lease_expires_at = LeaseDuration]
          PROVE  /\ new.status = job[j].status /\ new.attempts = job[j].attempts
                 /\ new.next_run_at = job[j].next_run_at
                 /\ new.lease_expires_at = LeaseDuration
      BY <1>1, <2>2 DEF Row
    <2>3. LeaseDuration # None /\ LeaseDuration >= -age
      BY <1>1, QueueAssumption
    <2> QED
      BY <2>1, <2>2, <2>3 DEF AsSelected
  <1>7. CASE CompleteJob(w)
    BY <1>1, <1>7 DEF CompleteJob, Released, AsSelected
  <1>8. ASSUME NEW exc \in Errors, FailJob(w, exc)
        PROVE  AsSelected(job'[j], n, age)
    <2>1. \/ job'[j] = job[j]
          \/ job'[j].status = FAILED
          \/ /\ job'[j].status = QUEUED
             /\ job'[j].next_run_at = retry_delay(held[w].attempts)
      BY <1>1, <1>8 DEF FailJob, Released
    <2>2. retry_delay(held[w].attempts) > -age
      <3>1. held[w].attempts \in Nat
        BY DEF TypeOK, Held
      <3>2. retry_delay(held[w].attempts) > 0 /\ retry_delay(held[w].attempts) \in Int
        BY <3>1, DelayType DEF DelaysApart
      <3> QED
        BY <1>1, <3>2
    <2> QED
      BY <2>1, <2>2 DEF AsSelected
  <1>9. CASE NoCandidate(w) \/ Select(w) \/ Fault(w) \/ Exit(w) \/ Restart(w)
    BY <1>9
    DEF NoCandidate, Select, Fault, Stop, Crash, HeartbeatError, Exit, Gone, Restart
  <1> QED
    BY <1>2, <1>4, <1>5, <1>6, <1>7, <1>8, <1>9 DEF WorkerStep, Poll, Finish

\* The steps of a worker leave every selected row as selected, its own SELECT
\* included.
LEMMA WorkerSelected ==
  ASSUME SelectInv, DelaysApart, NEW w \in Workers, WorkerStep(w)
  PROVE  SelectsCurrent'
  <1>1. TypeOK /\ SelectsCurrent
    BY DEF SelectInv
  <1> SUFFICES ASSUME NEW v \in Workers, pc'[v] = "update"
               PROVE  AsSelected(job'[held'[v].job], held'[v].attempts,
                                 held'[v].age)
    BY DEF SelectsCurrent
  <1>2. CASE pc[v] = "update" /\ held'[v] = held[v]
    <2>1. /\ held[v].job \in Jobs /\ held[v].attempts \in Nat
          /\ held[v].age \in 0..MaxGap
      BY <1>1, <1>2 DEF TypeOK, Held
    <2>2. AsSelected(job[held[v].job], held[v].attempts, held[v].age)
      BY <1>1, <1>2 DEF SelectsCurrent
    <2> QED
      BY <1>1, <1>2, <2>1, <2>2, WorkerRowSelected
  <1>3. CASE Select(w) /\ v = w
    <2>1. PICK j \in Jobs :
            /\ job[j].status = QUEUED
            /\ held' = [held EXCEPT ![w] = [job |-> j, exec |-> None,
                                            attempts |-> job[j].attempts,
                                            age |-> 0]]
      BY <1>3 DEF Select, First, Eligible
    <2>2. held'[v].job = j /\ held'[v].attempts = job[j].attempts /\ job' = job
      BY <1>1, <1>3, <2>1 DEF Select, TypeOK
    <2> QED
      BY <2>1, <2>2 DEF AsSelected
  <1>4. \/ pc[v] = "update" /\ held'[v] = held[v]
        \/ Select(w) /\ v = w
    <2>1. CASE Poll(w)
      BY <1>1, <2>1 DEF Poll, Recover, NoCandidate, Claim, Lease, Select, Update,
                        TypeOK
    <2>2. CASE Finish(w)
      BY <1>1, <2>2 DEF Finish, CompleteJob, FailJob, EndRun, TypeOK
    <2>3. CASE Heartbeat(w) \/ Fault(w) \/ Exit(w) \/ Restart(w)
      BY <1>1, <2>3 DEF Heartbeat, Fault, Stop, Crash, HeartbeatError, Exit, Gone,
                        Restart, TypeOK
    <2> QED
      BY <2>1, <2>2, <2>3 DEF WorkerStep
  <1> QED
    BY <1>2, <1>3, <1>4

\* Time moves the SELECT's instant and the row's timestamps together.
LEMMA TickSelected ==
  ASSUME SelectInv, Elapse
  PROVE  SelectsCurrent'
  <1> SUFFICES ASSUME NEW v \in Workers, pc'[v] = "update"
               PROVE  AsSelected(job'[held'[v].job], held'[v].attempts,
                                 held'[v].age)
    BY DEF SelectsCurrent
  <1> DEFINE row == job[held[v].job]
  <1>1. /\ TypeOK /\ pc[v] = "update" /\ held[v].age < MaxGap
        /\ AsSelected(row, held[v].attempts, held[v].age)
    BY DEF SelectInv, SelectsCurrent, Elapse
  <1>2. /\ held[v] \in Held /\ held[v].job \in Jobs /\ row \in Row
        /\ held[v].age \in Nat /\ row.next_run_at \in Int
        /\ row.lease_expires_at \in Int \cup {None}
    BY <1>1, QueueAssumption DEF TypeOK, Held, Row
  <1>3. /\ held'[v].job = held[v].job
        /\ held'[v].attempts = held[v].attempts
        /\ held'[v].age = held[v].age + 1
    <2>1. held'[v] = [held[v] EXCEPT !.age = @ + 1]
      BY <1>1 DEF Elapse
    <2> QED
      BY <1>2, <2>1 DEF Held
  <1>4. job'[held[v].job] = Aged(row)
    <2>1. row.status # ABSENT
      BY <1>1 DEF AsSelected, ABSENT, QUEUED, RUNNING, COMPLETED, FAILED
    <2> QED
      BY <1>2, <2>1 DEF Elapse
  <1>5. ASSUME NEW t \in Int, t >= -held[v].age
        PROVE  Older(t) = t - 1 /\ t - 1 # None
    BY <1>1, <1>2, <1>5, QueueAssumption DEF Older, Past
  <1> HIDE DEF row
  <1>6. /\ Aged(row).status = row.status /\ Aged(row).attempts = row.attempts
        /\ Aged(row).next_run_at = Older(row.next_run_at)
        /\ Aged(row).lease_expires_at = Older(row.lease_expires_at)
    BY DEF Aged
  <1>7. row.next_run_at > -held[v].age =>
          Older(row.next_run_at) > -(held[v].age + 1)
    BY <1>2, <1>5
  <1>8. row.lease_expires_at # None /\ row.lease_expires_at >= -held[v].age =>
          /\ Older(row.lease_expires_at) # None
          /\ Older(row.lease_expires_at) >= -(held[v].age + 1)
    BY <1>2, <1>5
  <1>9. AsSelected(Aged(row), held[v].attempts, held[v].age + 1)
    BY <1>1, <1>6, <1>7, <1>8 DEF AsSelected
  <1> QED
    BY <1>3, <1>4, <1>9

\* The strengthened invariant is inductive.
LEMMA NextSelect ==
  ASSUME MaxRequests = 0, DelaysApart, SelectInv, [Next]_vars
  PROVE  SelectInv'
  <1>1. TypeOK' /\ NoRequests'
    BY NextType, NextNoRequests DEF SelectInv
  <1>2. SelectsCurrent'
    <2>1. CASE Tick
      BY <2>1, TickSelected DEF Tick
    <2>2. ASSUME NEW w \in Workers, WorkerStep(w) PROVE SelectsCurrent'
      BY <2>2, WorkerSelected
    <2>3. ASSUME NEW j \in Jobs, CreateJob(j) PROVE SelectsCurrent'
      <3> SUFFICES ASSUME NEW v \in Workers, pc'[v] = "update"
                   PROVE  AsSelected(job'[held'[v].job], held'[v].attempts,
                                     held'[v].age)
        BY DEF SelectsCurrent
      <3>1. /\ TypeOK /\ pc[v] = "update" /\ held' = held
            /\ AsSelected(job[held[v].job], held[v].attempts, held[v].age)
        BY <2>3 DEF SelectInv, SelectsCurrent, CreateJob, workerVars
      <3>2. held[v].job # j /\ held[v].job \in Jobs
        BY <2>3, <3>1
        DEF CreateJob, AsSelected, TypeOK, ABSENT, QUEUED, RUNNING, COMPLETED, FAILED
      <3> QED
        BY <2>3, <3>1, <3>2 DEF CreateJob, TypeOK
    <2>4. ASSUME NEW c \in Clients, ClientStep(c) PROVE FALSE
      <3>1. accepted \in 0..0 /\ NoRequests
        BY DEF SelectInv, TypeOK
      <3> QED
        BY <2>4, <3>1 DEF NoRequests, ClientStep, CommitRun, AbortRun, RequestRun
    <2>5. CASE UNCHANGED vars
      BY <2>5 DEF vars, workerVars, SelectInv, SelectsCurrent
    <2> QED
      BY <2>1, <2>2, <2>3, <2>4, <2>5 DEF Next
  <1> QED
    BY <1>1, <1>2 DEF SelectInv

\* No UPDATE is outdated in any reachable state.
LEMMA SelectInvariant ==
  ASSUME MaxRequests = 0, DelaysApart
  PROVE  Spec => [](SelectInv /\ UpdatesFresh)
  <1>1. Init => SelectInv
    BY InitType DEF Init, NoRequests, SelectsCurrent, SelectInv
  <1>2. SelectInv /\ [Next]_vars => SelectInv'
    BY NextSelect
  <1>3. SelectInv => UpdatesFresh
    BY SelectedFresh DEF SelectInv
  <1> QED
    BY <1>1, <1>2, <1>3, PTL DEF Spec

\* The budget of recover_expired_jobs (durable.py:103) without the row lock: on
\* either dialect a job is claimed at most max_attempts times, although the
\* UPDATE of claim_next_job writes a count read before, for every number of
\* workers, any crash, stop, failing or late heartbeat, as long as no run
\* request is admitted, every retry waits, and no claim takes longer than a
\* lease.
THEOREM UnlockedBudgetKept ==
  ASSUME MaxRequests = 0, DelaysApart
  PROVE  Spec => []AttemptBudget
  <1>1. Init => BudgetInv
    BY InitBudget
  <1>2. BudgetInv /\ UpdatesFresh /\ [Next]_vars => BudgetInv'
    BY NextBudget
  <1>3. BudgetInv => AttemptBudget
    BY BudgetEnough
  <1> QED
    BY <1>1, <1>2, <1>3, SelectInvariant, PTL DEF Spec

\* ALLOWED_TRANSITIONS (durable.py:18-24) and the attempt limit without the row
\* lock: under the same conditions the compare-and-swap of claim_next_job keeps
\* JobContract's safety part on SQLite too.
THEOREM UnlockedContractSafety ==
  ASSUME MaxRequests = 0, DelaysApart
  PROVE  Spec => Contract!SafeSpec
  <1>1. Init => ContractInv
    BY InitContract
  <1>2. NoRequests => RerunsApart
    BY DEF NoRequests, NoRequest, RerunsApart
  <1>3. ContractInv /\ SelectInv /\ UpdatesFresh /\ [Next]_vars => ContractInv'
    BY <1>2, NextContract DEF SelectInv
  <1> QED
    BY <1>1, <1>3, SelectInvariant, ContractFollows, PTL DEF Spec

===============================================================================
