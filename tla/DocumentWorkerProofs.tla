------------------------- MODULE DocumentWorkerProofs -------------------------
(***************************************************************************)
(* Theorems about DocumentWorker, for all constants: both dialects, any    *)
(* number of jobs, workers and requests, and every fault.                  *)
(***************************************************************************)
EXTENDS DocumentWorker, JobQueueProofs

\* What the handler of w has committed by the stage it is at: a record before
\* it validates, and the findings of its validation before it returns.
Progress(w) ==
  /\ stage[w] \in {"validate", "returned"} => RecordsOf(held[w].job) # {}
  /\ stage[w] = "returned" => findings[held[w].job] # {}

DocInv ==
  /\ TypeOK /\ DocTypeOK
  /\ RecordsUnique /\ CompletedHasResult
  /\ \A w \in Workers : Progress(w)

-------------------------------------------------------------------------------
\* Where the queue puts a job into `completed': only in CompleteJob.  Every other
\* step finds it there, and leaves the id of the execution that completed it or
\* removes it.

StaysCompleted(j) ==
  /\ job[j].status = COMPLETED
  /\ job'[j].execution_id \in {job[j].execution_id, None}

\* Recovery completes no job.
LEMMA RecoverCompletes ==
  ASSUME TypeOK, NEW w \in Workers, Recover(w), NEW j \in Jobs,
         job'[j].status = COMPLETED
  PROVE  StaysCompleted(j)
  BY DEF StaysCompleted, TypeOK, Recover, Recovered, Released, QUEUED, FAILED, COMPLETED

\* Nor does a claim, in its row.
LEMMA LeaseCompletes ==
  ASSUME TypeOK, NEW w \in Workers, NEW i \in Jobs, NEW n, NEW now,
         Lease(w, i, n, now), NEW j \in Jobs, job'[j].status = COMPLETED
  PROVE  StaysCompleted(j)
  BY DEF StaysCompleted, TypeOK, Lease, RUNNING, COMPLETED

\* Nor does the poll of a worker.
LEMMA PollCompletes ==
  ASSUME TypeOK, NEW w \in Workers, Poll(w), NEW j \in Jobs,
         job'[j].status = COMPLETED
  PROVE  StaysCompleted(j)
<1>1. CASE Recover(w)
  BY <1>1, RecoverCompletes
<1>2. CASE NoCandidate(w) \/ Select(w)
  BY <1>2 DEF StaysCompleted, NoCandidate, Select
<1>3. CASE Claim(w)
  <2>1. PICK i \in Jobs : Lease(w, i, job[i].attempts + 1, 0)
    BY <1>3 DEF Claim, First
  <2> QED BY <2>1, LeaseCompletes
<1>4. CASE Update(w)
  <2>1. held[w].job \in Jobs
    BY <1>4 DEF TypeOK, Update
  <2>2. CASE Lease(w, held[w].job, held[w].attempts + 1, -held[w].age)
    BY <2>1, <2>2, LeaseCompletes
  <2>3. CASE job' = job
    BY <2>3 DEF StaysCompleted
  <2> QED BY <1>4, <2>2, <2>3 DEF Update
<1> QED BY <1>1, <1>2, <1>3, <1>4 DEF Poll

\* Nor does a failure.
LEMMA FailCompletes ==
  ASSUME TypeOK, NEW w \in Workers, NEW exc, FailJob(w, exc), NEW j \in Jobs,
         job'[j].status = COMPLETED
  PROVE  StaysCompleted(j)
  BY DEF StaysCompleted, TypeOK, FailJob, Released, QUEUED, FAILED, COMPLETED

\* Nor does a request.
LEMMA ClientCompletes ==
  ASSUME TypeOK, NEW c \in Clients, ClientStep(c), NEW j \in Jobs,
         job'[j].status = COMPLETED
  PROVE  StaysCompleted(j)
<1>1. CASE CommitRun(c)
  BY <1>1 DEF StaysCompleted, TypeOK, CommitRun, Flushed, QUEUED, COMPLETED
<1>2. CASE job' = job
  BY <1>2 DEF StaysCompleted
<1> QED BY <1>1, <1>2 DEF ClientStep, AbortRun, RequestRun

-------------------------------------------------------------------------------
\* What a step of worker w leaves alone of the other workers.

\* A poll leaves the other workers.
LEMMA PollOthers ==
  ASSUME TypeOK, NEW w \in Workers, Poll(w)
  PROVE  /\ \A v \in Workers \ {w} : pc'[v] = pc[v] /\ held'[v] = held[v]
         /\ pc[w] # "run"
  BY DEF TypeOK, Poll, Recover, NoCandidate, Claim, Select, Update, Lease

\* So does the end of an execution.
LEMMA EndRunOthers ==
  ASSUME TypeOK, NEW w \in Workers, EndRun(w)
  PROVE  /\ \A v \in Workers \ {w} : pc'[v] = pc[v] /\ held'[v] = held[v]
         /\ pc'[w] # "run"
  BY DEF TypeOK, EndRun

\* So does a worker that goes, which touches no job either.
LEMMA GoneOthers ==
  ASSUME TypeOK, NEW w \in Workers, Gone(w)
  PROVE  /\ \A v \in Workers \ {w} : pc'[v] = pc[v] /\ held'[v] = held[v]
         /\ pc'[w] # "run" /\ job' = job
  BY DEF TypeOK, Gone

-------------------------------------------------------------------------------

\* A step that commits no result keeps the invariant if each handler stays
\* where it is, ends, or starts, and a job that it completes has its result.
LEMMA QueueKeeps ==
  ASSUME DocInv, TypeOK',
         stage' \in [Workers -> Stages \cup Errors],
         records' = records, findings' = findings,
         \A v \in Workers :
           \/ /\ stage'[v] = stage[v]
              /\ pc'[v] = "run" <=> pc[v] = "run"
              /\ pc[v] = "run" => held'[v].job = held[v].job
           \/ stage'[v] = "idle" /\ pc'[v] # "run"
           \/ stage'[v] = "lookup" /\ pc'[v] = "run",
         \A j \in Jobs : job'[j].status = COMPLETED =>
           job[j].status = COMPLETED \/ (RecordsOf(j) # {} /\ findings[j] # {})
  PROVE  DocInv'
<1>1. \A j : RecordsOf(j)' = RecordsOf(j)
  BY DEF RecordsOf
<1>2. DocTypeOK'
  BY DEF DocInv, DocTypeOK
<1>3. RecordsUnique'
  BY DEF DocInv, RecordsUnique
<1>4. CompletedHasResult'
  BY <1>1 DEF DocInv, CompletedHasResult
<1>5. ASSUME NEW v \in Workers PROVE Progress(v)'
  <2>1. CASE stage'[v] \in {"idle", "lookup"}
    BY <2>1 DEF Progress
  <2>2. CASE /\ stage'[v] = stage[v]
             /\ pc'[v] = "run" <=> pc[v] = "run"
             /\ pc[v] = "run" => held'[v].job = held[v].job
    <3>1. CASE pc[v] # "run"
      BY <2>2, <3>1 DEF DocInv, DocTypeOK, Progress
    <3>2. CASE pc[v] = "run"
      BY <1>1, <2>2, <3>2 DEF DocInv, Progress
    <3> QED BY <3>1, <3>2
  <2> QED BY <2>1, <2>2
<1> QED BY <1>2, <1>3, <1>4, <1>5 DEF DocInv

\* A stage of the handler of w: results are only added, a record only where
\* there is none, and the stages after a commit are reached through it.
LEMMA HandleKeeps ==
  ASSUME DocInv, NEW w \in Workers, Handle(w)
  PROVE  DocInv'
<1> DEFINE j == held[w].job
           e == held[w].exec
<1>1. PICK from \in Stages \ {"idle", "returned"},
           to \in (Stages \cup Errors) \ {"idle"} :
        /\ Advance(w, from, to)
        /\ to = "validate" => RecordsOf(j)' # {}
        /\ to = "returned" => from = "validate" /\ e \in findings'[j]
  <2> DEFINE Goes(from, to) ==
               /\ Advance(w, from, to)
               /\ to = "validate" => RecordsOf(j)' # {}
               /\ to = "returned" => from = "validate" /\ e \in findings'[j]
  <2> SUFFICES \E from \in Stages \ {"idle", "returned"},
                  to \in (Stages \cup Errors) \ {"idle"} : Goes(from, to)
    OBVIOUS
  <2>1. CASE Lookup(w)
    <3>1. PICK to \in {"parse", "PipelineInputError", "other"} :
            Advance(w, "lookup", to)
      BY <2>1 DEF Lookup
    <3>2. Goes("lookup", to)
      BY <3>1
    <3> QED BY <3>2 DEF Stages, Errors
  <2>2. CASE Parse(w)
    <3>1. PICK to \in {"extract", "PipelineError", "other"} :
            Advance(w, "parse", to)
      BY <2>2 DEF Parse
    <3>2. Goes("parse", to)
      BY <3>1
    <3> QED BY <3>2 DEF Stages, Errors
  <2>3. CASE Extract(w)
    <3>1. PICK to \in {"select", "PipelineError", "other"} :
            Advance(w, "extract", to)
      BY <2>3 DEF Extract
    <3>2. Goes("extract", to)
      BY <3>1
    <3> QED BY <3>2 DEF Stages, Errors
  <2>4. CASE SelectRecord(w)
    <3>1. RecordsOf(j)' = RecordsOf(j)
      BY <2>4 DEF SelectRecord, RecordsOf, Advance, vars, workerVars
    <3>2. Goes("select", "validate") \/ Goes("select", "insert")
            \/ Goes("select", "other")
      BY <2>4, <3>1 DEF SelectRecord
    <3> QED BY <3>2 DEF Stages, Errors
  <2>5. CASE InsertRecord(w)
    <3>1. ASSUME NEW to \in {"validate", "other"}, Advance(w, "insert", to),
                 records' = records \cup {[job |-> j, exec |-> e]}
          PROVE  \E from \in Stages \ {"idle", "returned"},
                    t \in (Stages \cup Errors) \ {"idle"} : Goes(from, t)
      <4>1. [job |-> j, exec |-> e] \in RecordsOf(j)'
        BY <3>1 DEF RecordsOf, Advance, vars, workerVars
      <4>2. Goes("insert", to)
        BY <3>1, <4>1
      <4> QED BY <4>2 DEF Stages, Errors
    <3>2. CASE Advance(w, "insert", "other")
      <4>1. Goes("insert", "other")
        BY <3>2
      <4> QED BY <4>1 DEF Stages, Errors
    <3> QED BY <2>5, <3>1, <3>2 DEF InsertRecord
  <2>6. CASE CommitFindings(w)
    <3>1. ASSUME NEW to \in {"returned", "other"}, Advance(w, "validate", to),
                 findings' = [findings EXCEPT ![j] = @ \cup {e}]
          PROVE  \E from \in Stages \ {"idle", "returned"},
                    t \in (Stages \cup Errors) \ {"idle"} : Goes(from, t)
      <4>1. j \in Jobs
        BY <3>1 DEF Advance, DocInv, DocTypeOK, TypeOK
      <4>2. e \in findings'[j]
        BY <3>1, <4>1 DEF DocInv, DocTypeOK
      <4>3. Goes("validate", to)
        BY <3>1, <4>2
      <4> QED BY <4>3 DEF Stages, Errors
    <3>2. CASE Advance(w, "validate", "other")
      <4>1. Goes("validate", "other")
        BY <3>2
      <4> QED BY <4>1 DEF Stages, Errors
    <3> QED BY <2>6, <3>1, <3>2 DEF CommitFindings
  <2> HIDE DEF Goes
  <2> QED BY <2>1, <2>2, <2>3, <2>4, <2>5, <2>6 DEF Handle
<1>2. /\ stage[w] = from /\ stage' = [stage EXCEPT ![w] = to]
      /\ job' = job /\ pc' = pc /\ held' = held
  BY <1>1 DEF Advance, vars, workerVars
<1>3. pc[w] = "run" /\ j \in Jobs /\ e \in Nat
  BY <1>2 DEF DocInv, DocTypeOK, TypeOK
<1>4. /\ \A r \in records : r \in records'
      /\ \A r \in records' : \/ r \in records
                             \/ r = [job |-> j, exec |-> e] /\ RecordsOf(j) = {}
      /\ \A r, s \in records' : r \in records \/ s \in records \/ r = s
  BY DEF Handle, Lookup, Parse, Extract, SelectRecord, InsertRecord, CommitFindings
<1>5. /\ findings' \in [Jobs -> SUBSET Nat]
      /\ \A i \in Jobs : findings[i] # {} => findings'[i] # {}
  BY <1>3 DEF Handle, Lookup, Parse, Extract, SelectRecord, InsertRecord,
              CommitFindings, DocInv, DocTypeOK
<1>6. TypeOK'
  BY <1>1 DEF DocInv, TypeOK, Advance, vars, workerVars
<1>7. DocTypeOK'
  BY <1>2, <1>3, <1>4, <1>5 DEF DocInv, DocTypeOK
<1>8. RecordsUnique'
  BY <1>4 DEF DocInv, RecordsUnique, RecordsOf
<1>9. \A i : RecordsOf(i) # {} => RecordsOf(i)' # {}
  BY <1>4 DEF RecordsOf
<1>10. CompletedHasResult'
  BY <1>2, <1>5, <1>9 DEF DocInv, CompletedHasResult
<1>11. ASSUME NEW v \in Workers PROVE Progress(v)'
  <2>1. CASE v = w
    BY <1>1, <1>2, <1>9, <2>1 DEF DocInv, DocTypeOK, Progress
  <2>2. CASE v # w
    <3>1. stage[v] = "returned" => held[v].job \in Jobs
      BY DEF DocInv, DocTypeOK, TypeOK
    <3> QED BY <1>2, <1>5, <1>9, <2>2, <3>1 DEF DocInv, DocTypeOK, Progress
  <2> QED BY <2>1, <2>2
<1> QED BY <1>6, <1>7, <1>8, <1>10, <1>11 DEF DocInv

-------------------------------------------------------------------------------

\* The steps of the queue preserve its types whatever the handler's stage is.
LEMMA DocNextType == DocInv /\ [DocNext]_docVars => TypeOK'
<1> SUFFICES ASSUME DocInv, [DocNext]_docVars PROVE TypeOK'
  OBVIOUS
<1>1. CASE DocTick
  BY <1>1, ElapseType DEF DocTick, DocInv
<1>2. CASE [Next]_vars
  BY <1>2, NextType DEF DocInv
<1>3. ASSUME NEW w \in Workers, Handle(w) PROVE TypeOK'
  BY <1>3, HandleKeeps DEF DocInv
<1>4. ASSUME NEW w \in Workers, DocFinish(w) PROVE [Next]_vars
  <2>1. Finish(w)
    BY <1>4 DEF DocFinish, Raised, Finish
  <2> QED BY <2>1 DEF Next, WorkerStep
<1>5. ASSUME NEW w \in Workers, DocPoll(w) \/ DocCrash(w) \/ DocOnLoop(w) \/ DocIdle(w)
      PROVE  [Next]_vars
  <2>1. WorkerStep(w)
    BY <1>5 DEF DocPoll, DocCrash, DocOnLoop, DocIdle, WorkerStep, Fault
  <2> QED BY <2>1 DEF Next
<1>6. CASE (\E j \in Jobs : CreateJob(j)) \/ (\E c \in Clients : ClientStep(c))
  BY <1>2, <1>6 DEF Next
<1>7. CASE UNCHANGED docVars
  BY <1>2, <1>7 DEF docVars
<1> QED BY <1>1, <1>2, <1>3, <1>4, <1>5, <1>6, <1>7 DEF DocNext, DocWorkerStep

\* A poll, with the handler it may start, keeps the invariant.
LEMMA DocPollKeeps ==
  ASSUME DocInv, TypeOK', NEW w \in Workers, DocPoll(w)
  PROVE  DocInv'
<1>1. /\ TypeOK /\ Poll(w) /\ records' = records /\ findings' = findings
      /\ stage' = [stage EXCEPT ![w] = IF pc'[w] = "run" THEN "lookup" ELSE @]
  BY DEF DocPoll, DocInv
<1>2. /\ pc[w] # "run" /\ stage[w] = "idle"
      /\ \A v \in Workers \ {w} : pc'[v] = pc[v] /\ held'[v] = held[v]
  BY <1>1, PollOthers DEF DocInv, DocTypeOK
<1>3. \A j \in Jobs : job'[j].status = COMPLETED => job[j].status = COMPLETED
  BY <1>1, PollCompletes DEF StaysCompleted
<1>4. stage' \in [Workers -> Stages \cup Errors]
  BY <1>1 DEF DocInv, DocTypeOK, Stages
<1>5. ASSUME NEW v \in Workers
      PROVE  \/ /\ stage'[v] = stage[v]
                /\ pc'[v] = "run" <=> pc[v] = "run"
                /\ pc[v] = "run" => held'[v].job = held[v].job
             \/ stage'[v] = "idle" /\ pc'[v] # "run"
             \/ stage'[v] = "lookup" /\ pc'[v] = "run"
  BY <1>1, <1>2 DEF DocInv, DocTypeOK
<1> QED BY <1>1, <1>3, <1>4, <1>5, QueueKeeps

\* A handler of w that ends, with its process or before it.
LEMMA EndsKeeps ==
  ASSUME DocInv, TypeOK', NEW w \in Workers, Ends(w), pc'[w] # "run",
         \A v \in Workers \ {w} : pc'[v] = pc[v] /\ held'[v] = held[v],
         \A j \in Jobs : job'[j].status = COMPLETED =>
           job[j].status = COMPLETED \/ (RecordsOf(j) # {} /\ findings[j] # {})
  PROVE  DocInv'
<1>1. /\ stage' = [stage EXCEPT ![w] = "idle"]
      /\ records' = records /\ findings' = findings
  BY DEF Ends
<1>2. stage' \in [Workers -> Stages \cup Errors]
  BY <1>1 DEF DocInv, DocTypeOK, Stages
<1>3. ASSUME NEW v \in Workers
      PROVE  \/ /\ stage'[v] = stage[v]
                /\ pc'[v] = "run" <=> pc[v] = "run"
                /\ pc[v] = "run" => held'[v].job = held[v].job
             \/ stage'[v] = "idle" /\ pc'[v] # "run"
             \/ stage'[v] = "lookup" /\ pc'[v] = "run"
  BY <1>1 DEF DocInv, DocTypeOK
<1> QED BY <1>1, <1>2, <1>3, QueueKeeps

\* The settling of a job keeps the invariant.
LEMMA DocFinishKeeps ==
  ASSUME DocInv, TypeOK', NEW w \in Workers, DocFinish(w)
  PROVE  DocInv'
<1>1. TypeOK /\ Ends(w) /\ EndRun(w)
  BY DEF DocFinish, CompleteJob, FailJob, DocInv
<1>2. /\ \A v \in Workers \ {w} : pc'[v] = pc[v] /\ held'[v] = held[v]
      /\ pc'[w] # "run"
  BY <1>1, EndRunOthers
<1>3. ASSUME NEW j \in Jobs, job'[j].status = COMPLETED
      PROVE  job[j].status = COMPLETED \/ (RecordsOf(j) # {} /\ findings[j] # {})
  <2>1. CASE stage[w] = "returned" /\ CompleteJob(w)
    <3>1. CASE j = held[w].job
      BY <2>1, <3>1 DEF DocInv, Progress
    <3>2. CASE j # held[w].job
      BY <1>1, <1>3, <2>1, <3>2 DEF CompleteJob, TypeOK
    <3> QED BY <3>1, <3>2
  <2>2. CASE FailJob(w, stage[w])
    BY <1>1, <1>3, <2>2, FailCompletes DEF StaysCompleted
  <2> QED BY <2>1, <2>2 DEF DocFinish
<1> QED BY <1>1, <1>2, <1>3, EndsKeeps

\* Steps after which every handler is where it was.
LEMMA UnstagedKeeps ==
  ASSUME DocInv, TypeOK', Unstaged,
         \A v \in Workers : /\ pc'[v] = "run" <=> pc[v] = "run"
                            /\ pc[v] = "run" => held'[v].job = held[v].job,
         \A j \in Jobs : job'[j].status = COMPLETED => job[j].status = COMPLETED
  PROVE  DocInv'
  BY QueueKeeps DEF Unstaged, DocInv, DocTypeOK

\* Every step keeps the invariant.
LEMMA DocNextKeeps == DocInv /\ [DocNext]_docVars => DocInv'
<1> SUFFICES ASSUME DocInv, [DocNext]_docVars PROVE DocInv'
  OBVIOUS
<1>t. TypeOK /\ TypeOK'
  BY DocNextType DEF DocInv
<1>1. CASE DocTick
  <2>1. Elapse /\ Unstaged
    BY <1>1 DEF DocTick
  <2>2. \A j \in Jobs : job'[j].status = job[j].status
    BY <1>t, <2>1 DEF Elapse, Aged
  <2>3. \A v \in Workers : /\ pc'[v] = "run" <=> pc[v] = "run"
                           /\ pc[v] = "run" => held'[v].job = held[v].job
    BY <1>t, <2>1 DEF Elapse, TypeOK
  <2> QED BY <1>t, <2>1, <2>2, <2>3, UnstagedKeeps
<1>2. ASSUME NEW j \in Jobs, CreateJob(j), Unstaged PROVE DocInv'
  <2>1. /\ pc' = pc /\ held' = held
        /\ \A i \in Jobs : job'[i].status = COMPLETED => job[i].status = COMPLETED
    BY <1>t, <1>2 DEF CreateJob, workerVars, NewRow, QUEUED, COMPLETED, TypeOK
  <2> QED BY <1>t, <1>2, <2>1, UnstagedKeeps
<1>3. ASSUME NEW c \in Clients, ClientStep(c), Unstaged PROVE DocInv'
  <2>1. pc' = pc /\ held' = held
    BY <1>3 DEF ClientStep, CommitRun, AbortRun, RequestRun, workerVars
  <2> QED BY <1>t, <1>3, <2>1, ClientCompletes, UnstagedKeeps DEF StaysCompleted
<1>4. ASSUME NEW w \in Workers, DocWorkerStep(w) PROVE DocInv'
  <2>1. CASE Handle(w)
    BY <2>1, HandleKeeps
  <2>2. CASE DocPoll(w)
    BY <1>t, <2>2, DocPollKeeps
  <2>3. CASE DocFinish(w)
    BY <1>t, <2>3, DocFinishKeeps
  <2>4. CASE DocCrash(w)
    BY <1>t, <2>4, GoneOthers, EndsKeeps DEF DocCrash, Crash
  <2>5. CASE DocOnLoop(w)
    <3>1. CASE Heartbeat(w) /\ Unstaged
      <4>1. pc' = pc /\ held' = held
        BY <3>1 DEF Heartbeat
      <4> QED BY <1>t, <3>1, <4>1, HeartbeatRows, UnstagedKeeps
    <3>2. CASE (HeartbeatError(w) \/ Stop(w)) /\ Unstaged
      <4>1. pc' = pc /\ held' = held /\ job' = job
        BY <3>2 DEF HeartbeatError, Stop
      <4> QED BY <1>t, <3>2, <4>1, UnstagedKeeps
    <3> QED BY <2>5, <3>1, <3>2 DEF DocOnLoop
  <2>6. CASE DocIdle(w)
    <3>1. CASE Exit(w) /\ Unstaged
      <4>1. pc[w] # "run"
        BY <3>1 DEF Exit
      <4> QED BY <1>t, <3>1, <4>1, GoneOthers, UnstagedKeeps DEF Exit
    <3>2. CASE Restart(w) /\ Unstaged
      <4>1. /\ held' = held /\ job' = job
            /\ \A v \in Workers : pc'[v] = "run" <=> pc[v] = "run"
        BY <1>t, <3>2 DEF Restart, TypeOK
      <4> QED BY <1>t, <3>2, <4>1, UnstagedKeeps
    <3> QED BY <2>6, <3>1, <3>2 DEF DocIdle
  <2> QED BY <1>4, <2>1, <2>2, <2>3, <2>4, <2>5, <2>6 DEF DocWorkerStep
<1>5. CASE UNCHANGED docVars
  <2>1. pc' = pc /\ held' = held /\ job' = job /\ Unstaged
    BY <1>5 DEF docVars, vars, workerVars, Unstaged
  <2> QED BY <1>t, <2>1, UnstagedKeeps
<1> QED BY <1>1, <1>2, <1>3, <1>4, <1>5 DEF DocNext

\* The first state satisfies the invariant.
LEMMA DocInitInv == DocInit => DocInv
<1> SUFFICES ASSUME DocInit PROVE DocInv
  OBVIOUS
<1>1. TypeOK
  BY InitType DEF DocInit
<1>2. DocTypeOK
  BY DEF DocInit, Init, DocTypeOK, Stages
<1>3. RecordsUnique
  BY DEF DocInit, RecordsUnique
<1>4. CompletedHasResult
  BY DEF DocInit, Init, NoRow, NewRow, ABSENT, COMPLETED, CompletedHasResult
<1>5. \A w \in Workers : Progress(w)
  BY DEF DocInit, Progress
<1> QED BY <1>1, <1>2, <1>3, <1>4, <1>5 DEF DocInv

\* Every reachable state satisfies the invariant.
LEMMA DocInvariant == DocSpec => []DocInv
  BY DocInitInv, DocNextKeeps, PTL DEF DocSpec

-------------------------------------------------------------------------------
(***************************************************************************)
(* The account of executions and what they committed.  FindingsAccounted   *)
(* and CompletedByItsExecution are not inductive: a new execution must be  *)
(* known to have an id that nobody has used, and two workers that run one  *)
(* job at a time to hold different ones.                                   *)
(***************************************************************************)

\* Every running handler holds an id that was issued for its job ...
IdsIssued ==
  \A w \in Workers : pc[w] = "run" => held[w].exec \in 1..claims[held[w].job]

\* ... and no other handler of the job holds it.
IdsDistinct ==
  \A v, w \in Workers :
    /\ v # w
    /\ pc[v] = "run" /\ pc[w] = "run"
    /\ held[v].job = held[w].job
    => held[v].exec # held[w].exec

AccountInv ==
  /\ IdsIssued /\ IdsDistinct
  /\ FindingsAccounted /\ CompletedByItsExecution

\* A step that issues no id and commits nothing: who still runs holds what it
\* held, at the stage where it was, and a completed row is of an execution that
\* has its findings.
LEMMA AccountKept ==
  ASSUME AccountInv, claims' = claims, records' = records, findings' = findings,
         \A v \in Workers : pc'[v] = "run" =>
           /\ pc[v] = "run" /\ held'[v] = held[v] /\ stage'[v] = stage[v],
         \A j \in Jobs : job'[j].status = COMPLETED =>
           StaysCompleted(j) \/ job'[j].execution_id \in findings[j]
  PROVE  AccountInv'
<1>1. IdsIssued' /\ IdsDistinct'
  BY DEF AccountInv, IdsIssued, IdsDistinct
<1>2. FindingsAccounted'
  BY DEF AccountInv, FindingsAccounted
<1>3. CompletedByItsExecution'
  BY DEF AccountInv, CompletedByItsExecution, StaysCompleted
<1> QED BY <1>1, <1>2, <1>3 DEF AccountInv

\* A lease: the new id is above all that were issued for the job, so that nobody
\* holds it and nothing was committed under it.
LEMMA AccountLease ==
  ASSUME DocInv, AccountInv, NEW w \in Workers, NEW i \in Jobs, NEW n, NEW now,
         Lease(w, i, n, now), pc[w] # "run",
         records' = records, findings' = findings,
         stage' = [stage EXCEPT ![w] = "lookup"]
  PROVE  AccountInv'
<1>1. /\ claims \in [Jobs -> Nat]
      /\ claims' = [claims EXCEPT ![i] = @ + 1]
      /\ findings \in [Jobs -> SUBSET Nat]
      /\ records \subseteq [job : Jobs, exec : Nat]
      /\ \A v \in Workers : pc[v] = "run" => /\ held[v].job \in Jobs
                                            /\ held[v].exec \in Nat
  BY DEF DocInv, DocTypeOK, TypeOK, Lease
<1>2. /\ pc'[w] = "run" /\ held'[w].job = i /\ held'[w].exec = claims[i] + 1
      /\ stage'[w] = "lookup"
      /\ \A v \in Workers \ {w} : /\ pc'[v] = pc[v] /\ held'[v] = held[v]
                                  /\ stage'[v] = stage[v]
  BY DEF DocInv, DocTypeOK, TypeOK, Lease
<1>3. \A j \in Jobs : claims[j] \in Nat /\ claims'[j] \in Nat /\ claims[j] <= claims'[j]
  BY <1>1
<1>4. claims'[i] = claims[i] + 1
  BY <1>1
<1>5. IdsIssued'
  BY <1>1, <1>2, <1>3, <1>4 DEF AccountInv, IdsIssued
<1>6. ASSUME NEW v \in Workers, v # w, pc'[v] = "run", held'[v].job = i
      PROVE  held'[v].exec # claims[i] + 1
  BY <1>1, <1>2, <1>6 DEF AccountInv, IdsIssued
<1>7. IdsDistinct'
  BY <1>2, <1>6 DEF AccountInv, IdsDistinct
<1>8. FindingsAccounted'
  <2>1. \A j \in Jobs : findings'[j] \subseteq 1..claims'[j]
    BY <1>1, <1>3 DEF AccountInv, FindingsAccounted
  <2>2. claims[i] + 1 \notin findings[i]
    BY <1>3 DEF AccountInv, FindingsAccounted
  <2>3. \A v \in Workers : pc'[v] = "run" =>
          /\ stage'[v] = "returned" => held'[v].exec \in findings'[held'[v].job]
          /\ held'[v].exec \in findings'[held'[v].job]
               => stage'[v] \in {"returned", "other"}
    BY <1>2, <2>2 DEF AccountInv, FindingsAccounted
  <2>4. ASSUME NEW r \in records
        PROVE  r.exec \in 1..claims'[r.job]
    <3>1. r.job \in Jobs /\ r.exec \in 1..claims[r.job]
      BY <1>1 DEF AccountInv, FindingsAccounted
    <3> QED BY <1>3, <3>1
  <2> QED BY <2>1, <2>3, <2>4 DEF FindingsAccounted
<1>9. CompletedByItsExecution'
  <2>1. ASSUME NEW j \in Jobs, job'[j].status = COMPLETED PROVE StaysCompleted(j)
    BY <2>1, LeaseCompletes DEF DocInv
  <2> QED BY <2>1 DEF AccountInv, CompletedByItsExecution, StaysCompleted
<1> QED BY <1>5, <1>7, <1>8, <1>9 DEF AccountInv

\* A stage of a handler: the commit adds the id of the one handler that commits,
\* which returns or fails at once; only one that has committed returns.
LEMMA AccountHandle ==
  ASSUME DocInv, AccountInv, NEW w \in Workers, Handle(w)
  PROVE  AccountInv'
<1> DEFINE j == held[w].job
           e == held[w].exec
<1>1. /\ pc' = pc /\ held' = held /\ job' = job /\ claims' = claims
      /\ stage[w] \notin {"idle", "returned", "other"}
      /\ \A v \in Workers \ {w} : stage'[v] = stage[v]
  BY DEF Handle, Lookup, Parse, Extract, SelectRecord, InsertRecord,
         CommitFindings, Advance, vars, workerVars, DocInv, DocTypeOK
<1>2. /\ pc[w] = "run" /\ j \in Jobs /\ e \in Nat
      /\ e \in 1..claims[j] /\ e \notin findings[j]
  BY <1>1 DEF DocInv, DocTypeOK, TypeOK, AccountInv, IdsIssued, FindingsAccounted
<1>3. IdsIssued' /\ IdsDistinct'
  BY <1>1 DEF AccountInv, IdsIssued, IdsDistinct
<1>4. \A r \in records' : r \in records \/ r = [job |-> j, exec |-> e]
  BY DEF Handle, Lookup, Parse, Extract, SelectRecord, InsertRecord, CommitFindings
<1>5. \/ findings' = findings /\ stage'[w] # "returned"
      \/ /\ findings' = [findings EXCEPT ![j] = @ \cup {e}]
         /\ stage'[w] \in {"returned", "other"}
  <2>1. CASE Lookup(w) \/ Parse(w) \/ Extract(w)
    BY <2>1 DEF Lookup, Parse, Extract, Advance, DocInv, DocTypeOK
  <2>2. CASE SelectRecord(w) \/ InsertRecord(w)
    BY <2>2 DEF SelectRecord, InsertRecord, Advance, DocInv, DocTypeOK
  <2>3. CASE CommitFindings(w)
    BY <2>3 DEF CommitFindings, Advance, DocInv, DocTypeOK
  <2> QED BY <2>1, <2>2, <2>3 DEF Handle
<1>6. /\ \A i \in Jobs : findings[i] \subseteq findings'[i]
      /\ \A i \in Jobs : i # j => findings'[i] = findings[i]
      /\ findings'[j] \subseteq findings[j] \cup {e}
      /\ stage'[w] = "returned" => e \in findings'[j]
      /\ e \in findings'[j] => stage'[w] \in {"returned", "other"}
  BY <1>2, <1>5 DEF DocInv, DocTypeOK
<1>7. FindingsAccounted'
  <2>1. ASSUME NEW i \in Jobs PROVE findings'[i] \subseteq 1..claims[i]
    BY <1>2, <1>6 DEF AccountInv, FindingsAccounted
  <2>2. ASSUME NEW v \in Workers, pc[v] = "run"
        PROVE  /\ stage'[v] = "returned" => held[v].exec \in findings'[held[v].job]
               /\ held[v].exec \in findings'[held[v].job]
                    => stage'[v] \in {"returned", "other"}
    <3>1. CASE v = w
      BY <1>6, <3>1
    <3>2. CASE v # w
      <4>1. held[v].job \in Jobs
        BY <2>2 DEF DocInv, TypeOK
      <4>2. held[v].job = j => held[v].exec # e
        BY <1>2, <2>2, <3>2 DEF AccountInv, IdsDistinct
      <4>3. held[v].exec \in findings'[held[v].job] <=>
              held[v].exec \in findings[held[v].job]
        BY <1>6, <4>1, <4>2
      <4>4. /\ stage[v] = "returned" => held[v].exec \in findings[held[v].job]
            /\ held[v].exec \in findings[held[v].job] => stage[v] \in {"returned", "other"}
        BY <2>2 DEF AccountInv, FindingsAccounted
      <4> QED BY <1>1, <3>2, <4>3, <4>4
    <3> QED BY <3>1, <3>2
  <2>3. \A r \in records' : r.exec \in 1..claims[r.job]
    BY <1>2, <1>4 DEF AccountInv, FindingsAccounted
  <2> QED BY <1>1, <2>1, <2>2, <2>3 DEF FindingsAccounted
<1>8. CompletedByItsExecution'
  BY <1>1, <1>6 DEF AccountInv, CompletedByItsExecution
<1> QED BY <1>3, <1>7, <1>8 DEF AccountInv

\* A poll issues an id or leaves all handlers where they are.
LEMMA AccountPoll ==
  ASSUME DocInv, AccountInv, NEW w \in Workers, DocPoll(w)
  PROVE  AccountInv'
<1>1. /\ TypeOK /\ Poll(w) /\ records' = records /\ findings' = findings
      /\ stage' = [stage EXCEPT ![w] = IF pc'[w] = "run" THEN "lookup" ELSE @]
  BY DEF DocPoll, DocInv
<1>2. /\ pc[w] # "run" /\ stage[w] = "idle"
      /\ \A v \in Workers \ {w} : pc'[v] = pc[v] /\ held'[v] = held[v]
  BY <1>1, PollOthers DEF DocInv, DocTypeOK
<1>3. ASSUME NEW i \in Jobs, NEW n, NEW now, Lease(w, i, n, now)
      PROVE  AccountInv'
  <2>1. pc'[w] = "run"
    BY <1>1, <1>3 DEF Lease, TypeOK
  <2> QED BY <1>1, <1>2, <1>3, <2>1, AccountLease
<1>4. ASSUME pc'[w] # "run", claims' = claims PROVE AccountInv'
  <2>1. \A j \in Jobs : job'[j].status = COMPLETED => StaysCompleted(j)
    BY <1>1, PollCompletes
  <2>2. \A v \in Workers : pc'[v] = "run" =>
          /\ pc[v] = "run" /\ held'[v] = held[v] /\ stage'[v] = stage[v]
    BY <1>1, <1>2, <1>4 DEF DocInv, DocTypeOK
  <2> QED BY <1>1, <1>4, <2>1, <2>2, AccountKept
<1>5. CASE Claim(w)
  BY <1>3, <1>5 DEF Claim, First
<1>6. CASE Update(w)
  <2>1. held[w].job \in Jobs
    BY <1>1, <1>6 DEF Update, TypeOK
  <2>2. pc' = [pc EXCEPT ![w] = "poll"] /\ claims' = claims => AccountInv'
    BY <1>1, <1>4 DEF TypeOK
  <2> QED BY <1>3, <1>6, <2>1, <2>2 DEF Update
<1>7. CASE Recover(w) \/ NoCandidate(w) \/ Select(w)
  BY <1>1, <1>4, <1>7 DEF Recover, NoCandidate, Select, TypeOK
<1> QED BY <1>1, <1>5, <1>6, <1>7 DEF Poll

\* A handler that ends is settled under its own id.
LEMMA AccountFinish ==
  ASSUME DocInv, AccountInv, NEW w \in Workers, DocFinish(w)
  PROVE  AccountInv'
<1>1. TypeOK /\ Ends(w) /\ EndRun(w) /\ pc[w] = "run"
  BY DEF DocFinish, CompleteJob, FailJob, DocInv
<1>2. /\ \A v \in Workers \ {w} : pc'[v] = pc[v] /\ held'[v] = held[v]
      /\ pc'[w] # "run"
  BY <1>1, EndRunOthers
<1>3. /\ claims' = claims /\ records' = records /\ findings' = findings
      /\ \A v \in Workers \ {w} : stage'[v] = stage[v]
  BY <1>1 DEF Ends, EndRun, DocInv, DocTypeOK
<1>4. ASSUME NEW j \in Jobs, job'[j].status = COMPLETED
      PROVE  StaysCompleted(j) \/ job'[j].execution_id \in findings[j]
  <2>1. CASE stage[w] = "returned" /\ CompleteJob(w)
    <3>1. CASE job'[j] = job[j]
      BY <1>4, <3>1 DEF StaysCompleted
    <3>2. CASE held[w].job = j /\ Owns(w, j) /\ job'[j] # job[j]
      <4>1. job'[j].execution_id = held[w].exec
        BY <1>1, <2>1, <3>2 DEF CompleteJob, Owns, Released, TypeOK
      <4> QED BY <1>1, <2>1, <3>2, <4>1 DEF AccountInv, FindingsAccounted
    <3>3. job'[j] = job[j] \/ (held[w].job = j /\ Owns(w, j))
      BY <1>1, <2>1 DEF CompleteJob, TypeOK
    <3> QED BY <3>1, <3>2, <3>3
  <2>2. CASE FailJob(w, stage[w])
    BY <1>1, <1>4, <2>2, FailCompletes
  <2> QED BY <2>1, <2>2 DEF DocFinish
<1> QED BY <1>2, <1>3, <1>4, AccountKept

\* Every step keeps the account.
LEMMA DocNextAccount == DocInv /\ AccountInv /\ [DocNext]_docVars => AccountInv'
<1> SUFFICES ASSUME DocInv, AccountInv, [DocNext]_docVars PROVE AccountInv'
  OBVIOUS
<1>t. TypeOK
  BY DEF DocInv
<1>0. ASSUME Unstaged, pc' = pc, held' = held, claims' = claims,
             \A j \in Jobs : job'[j].status = COMPLETED => StaysCompleted(j)
      PROVE  AccountInv'
  BY <1>0, AccountKept DEF Unstaged
<1>1. CASE DocTick
  <2>1. Elapse /\ Unstaged
    BY <1>1 DEF DocTick
  <2>2. \A j \in Jobs : job'[j].status = COMPLETED => StaysCompleted(j)
    BY <1>t, <2>1 DEF Elapse, Aged, StaysCompleted
  <2>3. \A v \in Workers : pc'[v] = "run" => pc[v] = "run" /\ held'[v] = held[v]
    BY <1>t, <2>1 DEF Elapse, TypeOK
  <2> QED BY <2>1, <2>2, <2>3, AccountKept DEF Unstaged, Elapse
<1>2. ASSUME NEW j \in Jobs, CreateJob(j), Unstaged PROVE AccountInv'
  <2>1. \A i \in Jobs : job'[i].status = COMPLETED => StaysCompleted(i)
    BY <1>t, <1>2 DEF CreateJob, NewRow, QUEUED, COMPLETED, TypeOK, StaysCompleted
  <2> QED BY <1>0, <1>2, <2>1 DEF CreateJob, workerVars
<1>3. ASSUME NEW c \in Clients, ClientStep(c), Unstaged PROVE AccountInv'
  <2>1. \A i \in Jobs : job'[i].status = COMPLETED => StaysCompleted(i)
    BY <1>t, <1>3, ClientCompletes
  <2> QED
    BY <1>0, <1>3, <2>1 DEF ClientStep, CommitRun, AbortRun, RequestRun, workerVars
<1>4. ASSUME NEW w \in Workers, DocWorkerStep(w) PROVE AccountInv'
  <2>1. CASE Handle(w)
    BY <2>1, AccountHandle
  <2>2. CASE DocPoll(w)
    BY <2>2, AccountPoll
  <2>3. CASE DocFinish(w)
    BY <2>3, AccountFinish
  <2>4. CASE DocCrash(w)
    <3>1. /\ \A v \in Workers \ {w} : pc'[v] = pc[v] /\ held'[v] = held[v]
          /\ pc'[w] # "run" /\ job' = job
      BY <1>t, <2>4, GoneOthers DEF DocCrash, Crash
    <3>2. /\ claims' = claims /\ records' = records /\ findings' = findings
          /\ \A v \in Workers \ {w} : stage'[v] = stage[v]
      BY <2>4 DEF DocCrash, Crash, Gone, Ends, DocInv, DocTypeOK
    <3> QED BY <3>1, <3>2, AccountKept DEF StaysCompleted
  <2>5. CASE DocOnLoop(w)
    <3>1. CASE Heartbeat(w) /\ Unstaged
      <4>1. \A j \in Jobs : job'[j].status = COMPLETED => StaysCompleted(j)
        BY <1>t, <3>1, HeartbeatRows DEF StaysCompleted
      <4> QED BY <1>0, <3>1, <4>1 DEF Heartbeat
    <3>2. CASE (HeartbeatError(w) \/ Stop(w)) /\ Unstaged
      BY <1>0, <3>2 DEF HeartbeatError, Stop, StaysCompleted
    <3> QED BY <2>5, <3>1, <3>2 DEF DocOnLoop
  <2>6. CASE DocIdle(w)
    <3>1. CASE Exit(w) /\ Unstaged
      <4>1. /\ \A v \in Workers \ {w} : pc'[v] = pc[v] /\ held'[v] = held[v]
            /\ pc'[w] # "run" /\ job' = job
        BY <1>t, <3>1, GoneOthers DEF Exit
      <4>2. claims' = claims
        BY <3>1 DEF Exit, Gone
      <4> QED BY <3>1, <4>1, <4>2, AccountKept DEF StaysCompleted, Unstaged
    <3>2. CASE Restart(w) /\ Unstaged
      <4>1. \A v \in Workers : pc'[v] = "run" => pc[v] = "run" /\ held'[v] = held[v]
        BY <1>t, <3>2 DEF Restart, TypeOK
      <4> QED BY <3>2, <4>1, AccountKept DEF Restart, StaysCompleted, Unstaged
    <3> QED BY <2>6, <3>1, <3>2 DEF DocIdle
  <2> QED BY <1>4, <2>1, <2>2, <2>3, <2>4, <2>5, <2>6 DEF DocWorkerStep
<1>5. CASE UNCHANGED docVars
  BY <1>0, <1>5 DEF docVars, vars, workerVars, Unstaged, StaysCompleted
<1> QED BY <1>1, <1>2, <1>3, <1>4, <1>5 DEF DocNext

\* Every reachable state satisfies the account.
LEMMA AccountInvariant == DocSpec => []AccountInv
<1>1. DocInit => AccountInv
  BY DEF DocInit, Init, AccountInv, IdsIssued, IdsDistinct, FindingsAccounted,
         CompletedByItsExecution, NoRow, NewRow, ABSENT, COMPLETED
<1> QED BY <1>1, DocNextAccount, DocInvariant, PTL DEF DocSpec

-------------------------------------------------------------------------------

\* The types of the handler's state; a handler is at a stage exactly while its
\* worker runs one.
THEOREM DocTypeCorrect == DocSpec => []DocTypeOK
<1>1. DocInv => DocTypeOK
  BY DEF DocInv
<1> QED BY <1>1, DocInvariant, PTL

\* A completed job has its record and the findings of a validation of it,
\* however commits, crashes and takeovers fall.
THEOREM NoFalseCompletion == DocSpec => []CompletedHasResult
<1>1. DocInv => CompletedHasResult
  BY DEF DocInv
<1> QED BY <1>1, DocInvariant, PTL

\* No job ever has two extracted records.
THEOREM OneRecordPerJob == DocSpec => []RecordsUnique
<1>1. DocInv => RecordsUnique
  BY DEF DocInv
<1> QED BY <1>1, DocInvariant, PTL

\* The completion of a job is credited to an execution that committed its own
\* validation (complete_job, durable.py:180-207), however many handlers lost the
\* job before and still work on it, for both dialects.
THEOREM CompletionIsOwn == DocSpec => []CompletedByItsExecution
<1>1. AccountInv => CompletedByItsExecution
  BY DEF AccountInv
<1> QED BY <1>1, AccountInvariant, PTL

\* Each execution commits at most one batch of findings
\* (create_validation_errors, repositories.py:237-276), under an id that was
\* issued for its job, and so does the author of a record; a handler at work has
\* none before its commit, and after it either returns or meets an error of the
\* database.
THEOREM FindingsAreAccounted == DocSpec => []FindingsAccounted
<1>1. AccountInv => FindingsAccounted
  BY DEF AccountInv
<1> QED BY <1>1, AccountInvariant, PTL

===============================================================================
