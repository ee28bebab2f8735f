-------------------------- MODULE DocumentQueueProofs --------------------------
(***************************************************************************)
(* DocumentWorker implements JobQueue: with the handler opened up, every   *)
(* step is a step of the queue or leaves it alone.  What is proved of the  *)
(* queue therefore holds with its real handler, and together with what is  *)
(* proved of the handler it says more than either.                         *)
(*                                                                         *)
(* The queue that is implemented is the one whose heartbeats may be late:  *)
(* a parser keeps the event loop from sending one that is due, which the   *)
(* queue with punctual heartbeats rules out.                               *)
(***************************************************************************)
EXTENDS DocumentWorkerProofs, JobQueueWorkersProofs, FiniteSetTheorems

-------------------------------------------------------------------------------
(***************************************************************************)
(* The refinement.                                                         *)
(***************************************************************************)

\* The stages of a handler between its claim and its end are invisible to the
\* queue.
LEMMA HandleStutters ==
  ASSUME NEW w \in Workers, Handle(w)
  PROVE  UNCHANGED vars
  BY DEF Handle, Lookup, Parse, Extract, SelectRecord, InsertRecord,
         CommitFindings, Advance

\* What the handler does to the outcome of an execution, the queue allows: it
\* returns, or raises one of the errors run_once knows how to settle.
LEMMA WorkerMaps ==
  ASSUME NEW w \in Workers, DocWorkerStep(w)
  PROVE  [Next]_vars
<1>1. CASE Handle(w)
  BY <1>1, HandleStutters
<1>2. CASE DocFinish(w)
  <2>1. Finish(w)
    BY <1>2 DEF DocFinish, Raised, Finish
  <2> QED BY <2>1 DEF WorkerStep, Next
<1>3. CASE DocPoll(w) \/ DocCrash(w) \/ DocOnLoop(w) \/ DocIdle(w)
  <2>1. WorkerStep(w)
    BY <1>3 DEF DocPoll, DocCrash, DocOnLoop, DocIdle, WorkerStep, Fault
  <2> QED BY <2>1 DEF Next
<1> QED BY <1>1, <1>2, <1>3 DEF DocWorkerStep

\* Every step is a step of the queue or a stutter.
LEMMA DocStepMaps ==
  ASSUME Heartbeats = "late", [DocNext]_docVars
  PROVE  [Next]_vars
<1>1. CASE DocTick
  BY <1>1 DEF DocTick, Tick, Next
<1>2. CASE (\E j \in Jobs : CreateJob(j)) \/ (\E c \in Clients : ClientStep(c))
  BY <1>2 DEF Next
<1>3. CASE \E w \in Workers : DocWorkerStep(w)
  BY <1>3, WorkerMaps
<1>4. CASE UNCHANGED docVars
  BY <1>4 DEF docVars
<1> QED BY <1>1, <1>2, <1>3, <1>4 DEF DocNext

\* The worker of document_jobs.py with the handler it runs implements the queue
\* with any handler: the stages of run_document_pipeline, its commits and its
\* errors stay within what run_once expects of a handler, for both dialects.
THEOREM ImplementsQueue ==
  ASSUME Heartbeats = "late"
  PROVE  DocSpec => FollowsQueue
<1>1. DocInit => Init
  BY DEF DocInit
<1>2. [DocNext]_docVars => [Next]_vars
  BY DocStepMaps
<1> QED BY <1>1, <1>2, PTL DEF DocSpec, Spec, FollowsQueue

-------------------------------------------------------------------------------
(***************************************************************************)
(* What follows for the worker with its handler.                           *)
(***************************************************************************)

\* recover_expired_jobs, durable.py:103, with the real handler: on PostgreSQL its
\* errors and commits do not let a job run more often than its budget.
THEOREM DocBudgetKept ==
  ASSUME Heartbeats = "late", Dialect = "postgresql"
  PROVE  DocSpec => []AttemptBudget
  BY ImplementsQueue, BudgetKept, PTL DEF FollowsQueue

\* create_validation_errors (repositories.py:237-276) commits with no look at
\* what is there; still, on PostgreSQL, the batches of a job are as many as its
\* attempt budget at most, whatever crashes and overlaps.
THEOREM FindingsAreBounded ==
  ASSUME Heartbeats = "late", Dialect = "postgresql"
  PROVE  DocSpec => []BatchesBounded
<1>1. ASSUME DocInv, AccountInv, AttemptBudget PROVE BatchesBounded
  <2> SUFFICES ASSUME NEW j \in Jobs
               PROVE  Cardinality(findings[j]) <= MaxAttempts * (resets[j] + 1)
    BY DEF BatchesBounded
  <2>1. claims[j] \in Nat /\ resets[j] \in Nat /\ MaxAttempts \in Nat
    BY <1>1, QueueAssumption DEF DocInv, TypeOK
  <2>2. findings[j] \subseteq 1..claims[j]
    BY <1>1 DEF AccountInv, FindingsAccounted
  <2>3. IsFiniteSet(1..claims[j]) /\ Cardinality(1..claims[j]) = claims[j]
    <3>1. 1 \in Int /\ claims[j] \in Int
      BY <2>1
    <3>2. /\ IsFiniteSet(1..claims[j])
          /\ Cardinality(1..claims[j]) = IF 1 > claims[j] THEN 0 ELSE claims[j] - 1 + 1
      BY <3>1, FS_Interval, Zenon
    <3> QED BY <2>1, <3>2
  <2>4. /\ Cardinality(findings[j]) \in Nat
        /\ Cardinality(findings[j]) <= claims[j]
    BY <2>2, <2>3, FS_Subset, FS_CardinalityType
  <2>5. claims[j] <= MaxAttempts * (resets[j] + 1)
    BY <1>1 DEF AttemptBudget
  <2>6. MaxAttempts * (resets[j] + 1) \in Nat
    BY <2>1, OneReset
  <2> DEFINE n == MaxAttempts * (resets[j] + 1)
             m == Cardinality(findings[j])
  <2>7. m \in Nat /\ m <= claims[j] /\ claims[j] <= n /\ n \in Nat
    BY <2>4, <2>5, <2>6
  <2> HIDE DEF m, n
  <2>8. m <= n
    BY <2>1, <2>7
  <2> QED BY <2>8 DEF m, n
<1>2. DocInv /\ AccountInv /\ AttemptBudget => BatchesBounded
  BY <1>1
<1> QED BY <1>2, DocInvariant, AccountInvariant, DocBudgetKept, PTL

\* README.md:574 with the real handler: as long as no two re-runs of a failed job
\* overlap, a running job has a lease that ends, and only its owner or that end
\* takes it out of `running', on both dialects.
THEOREM DocEndsFenced ==
  ASSUME Heartbeats = "late"
  PROVE  DocSpec /\ []RerunsApart => []RunningIsLeased /\ EndsByOwnerOrExpiry
  BY ImplementsQueue, RunningStaysLeased, EndsFenced, PTL DEF FollowsQueue

\* ALLOWED_TRANSITIONS (durable.py:18-24) with the real handler: on PostgreSQL the
\* worker and its handler implement JobContract's safety part.
THEOREM DocContractSafety ==
  ASSUME Heartbeats = "late", Dialect = "postgresql"
  PROVE  DocSpec /\ []RerunsApart => Contract!SafeSpec
  BY ImplementsQueue, ImplementsContractSafety, PTL DEF FollowsQueue

\* A job that is completed, and what its completion stands for.
Done(j) == job[j].status = COMPLETED

HasResult(j) == RecordsOf(j) # {} /\ findings[j] # {}

\* docs/V1.4_PRODUCTION_OBJECT_STORAGE.md (no falsely completed job) for good: once
\* a job is completed it stays completed and keeps its record and findings,
\* though handlers that lost it may still be at work, on both dialects.
THEOREM ResultForGood ==
  ASSUME Heartbeats = "late", NEW j \in Jobs
  PROVE  DocSpec /\ []RerunsApart => [](Done(j) => [](Done(j) /\ HasResult(j)))
<1>1. CompletedHasResult => (Done(j) => HasResult(j))
  BY DEF CompletedHasResult, Done, HasResult
<1>2. LeaseInv /\ [Next]_vars => (Done(j) => Done(j)')
  BY NextSettles DEF Settled, Done
<1>3. DocSpec /\ []RerunsApart => Spec /\ []LeaseInv /\ []CompletedHasResult
  BY ImplementsQueue, LeaseInvariant, NoFalseCompletion, PTL DEF FollowsQueue
<1>4. Spec /\ []LeaseInv /\ []CompletedHasResult =>
        [](Done(j) => [](Done(j) /\ HasResult(j)))
  BY <1>1, <1>2, PTL DEF Spec
<1> QED BY <1>3, <1>4, PTL

===============================================================================
