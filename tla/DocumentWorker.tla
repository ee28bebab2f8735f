---------------------------- MODULE DocumentWorker ----------------------------
(***************************************************************************)
(* JobQueue with its handler opened up: DocumentWorker._run_document of    *)
(* app/workers/document_jobs.py, run_document_pipeline of                  *)
(* app/pipeline/document_pipeline.py and the repository functions it       *)
(* commits with.  Every commit and every await of the handler ends a       *)
(* stage; the steps of the queue go on between the stages, and a handler   *)
(* that lost its lease is not told.                                        *)
(*                                                                         *)
(* Parsing is a plain call in an async function: while it runs, the event  *)
(* loop of the process does nothing else, so neither the heartbeat task    *)
(* nor a signal handler can run.                                           *)
(***************************************************************************)
EXTENDS JobQueue

VARIABLES
  stage,     \* stage[w]: where the handler of worker w is
  records,   \* extracted_records: the job and the execution that wrote each
  findings   \* findings[j]: executions whose validation was committed: one
             \* batch of validation_errors rows per execution

docVars == <<vars, stage, records, findings>>

Stages == {"idle", "lookup", "parse", "extract", "select", "insert", "validate",
           "returned"}

\* Errors a stage can end with; "other" is an error of the database, which
\* every stage that talks to it can meet.  The functions of repositories.py that
\* insert commit first and read their row back (refresh) afterwards, so an error
\* may also come after the commit.
Raised(w) == stage[w] \in Errors

DocInit ==
  /\ Init
  /\ stage = [w \in Workers |-> "idle"]
  /\ records = {}
  /\ findings = [j \in Jobs |-> {}]

-------------------------------------------------------------------------------
(***************************************************************************)
(* The handler.                                                            *)
(***************************************************************************)

\* The handler of w passes from one stage to the next.
Advance(w, from, to) ==
  /\ stage[w] = from
  /\ stage' = [stage EXCEPT ![w] = to]
  /\ UNCHANGED vars

\* get_uploaded_file and the test of job.pipeline: a missing file and an
\* unsupported pipeline are input errors.
Lookup(w) ==
  /\ \E to \in {"parse", "PipelineInputError", "other"} : Advance(w, "lookup", to)
  /\ UNCHANGED <<records, findings>>

\* parse_file; a ParserError or another ValueError becomes a PipelineError
\* once the extraction error is committed ("other" when that commit fails).
Parse(w) ==
  /\ \E to \in {"extract", "PipelineError", "other"} : Advance(w, "parse", to)
  /\ UNCHANGED <<records, findings>>

\* retry_async over the extractor, which succeeds or is exhausted; then
\* validate_extracted_record and the review decision, in memory.
Extract(w) ==
  /\ \E to \in {"select", "PipelineError", "other"} : Advance(w, "extract", to)
  /\ UNCHANGED <<records, findings>>

RecordsOf(j) == {r \in records : r.job = j}

\* Mutant of SelectRecord: a job that has its record is done.
SelectRecord_ReturnsEarly(w) ==
  /\ \/ RecordsOf(held[w].job) # {} /\ Advance(w, "select", "returned")
     \/ RecordsOf(held[w].job) = {} /\ Advance(w, "select", "insert")
     \/ Advance(w, "select", "other")
  /\ UNCHANGED <<records, findings>>

\* create_extracted_record looks for a record of this job ...
SelectRecord(w) ==
  /\ \/ RecordsOf(held[w].job) # {} /\ Advance(w, "select", "validate")
     \/ RecordsOf(held[w].job) = {} /\ Advance(w, "select", "insert")
     \/ Advance(w, "select", "other")
  /\ UNCHANGED <<records, findings>>

\* Mutant of InsertRecord: there is no unique index on job_id.
InsertRecord_NoIndex(w) ==
  \/ /\ records' = records \cup {[job |-> held[w].job, exec |-> held[w].exec]}
     /\ \E to \in {"validate", "other"} : Advance(w, "insert", to)
     /\ UNCHANGED findings
  \/ /\ Advance(w, "insert", "other")
     /\ UNCHANGED <<records, findings>>

\* ... and inserts one, which may be there though the call raises;
\* uq_records_job rejects a second one with an IntegrityError, which no except
\* clause of the pipeline names.
InsertRecord(w) ==
  LET j == held[w].job
  IN  \/ /\ RecordsOf(j) = {}
         /\ records' = records \cup {[job |-> j, exec |-> held[w].exec]}
         /\ \E to \in {"validate", "other"} : Advance(w, "insert", to)
         /\ UNCHANGED findings
      \/ /\ Advance(w, "insert", "other")
         /\ UNCHANGED <<records, findings>>

\* Mutant of CommitFindings: the answer of the commit is lost and the call is
\* made again.
CommitFindings_Again(w) ==
  /\ findings' = [findings EXCEPT ![held[w].job] = @ \cup {held[w].exec}]
  /\ Advance(w, "validate", "returned") \/ Advance(w, "validate", "validate")
  /\ UNCHANGED records

\* Mutant of CommitFindings: the same transaction marks the job completed and
\* gives up its lease, whoever owns the row by now.
CommitFindings_Completes(w) ==
  /\ stage[w] = "validate"
  /\ stage' = [stage EXCEPT ![w] = "returned"]
  /\ findings' = [findings EXCEPT ![held[w].job] = @ \cup {held[w].exec}]
  /\ job' = [job EXCEPT ![held[w].job] =
               Released(@, COMPLETED, @.next_run_at, @.execution_id)]
  /\ UNCHANGED <<records, pc, held, beat, timer, stopping, request, accepted,
                 claims, resets>>

\* create_validation_errors: a transaction of its own, with no look at what
\* is there; the call may raise after it, and the rows stay.
CommitFindings(w) ==
  \/ /\ \E to \in {"returned", "other"} : Advance(w, "validate", to)
     /\ findings' = [findings EXCEPT ![held[w].job] = @ \cup {held[w].exec}]
     /\ UNCHANGED records
  \/ /\ Advance(w, "validate", "other")
     /\ UNCHANGED <<records, findings>>

Handle(w) ==
  \/ Lookup(w) \/ Parse(w) \/ Extract(w)
  \/ SelectRecord(w) \/ InsertRecord(w) \/ CommitFindings(w)

-------------------------------------------------------------------------------
(***************************************************************************)
(* The queue's steps, with the handler's stage.                            *)
(***************************************************************************)

Blocked(w) == stage[w] = "parse"

Unstaged == UNCHANGED <<stage, records, findings>>

\* A claim starts the handler.
DocPoll(w) ==
  /\ Poll(w)
  /\ stage' = [stage EXCEPT ![w] = IF pc'[w] = "run" THEN "lookup" ELSE @]
  /\ UNCHANGED <<records, findings>>

Ends(w) ==
  /\ stage' = [stage EXCEPT ![w] = "idle"]
  /\ UNCHANGED <<records, findings>>

\* Mutant of DocFinish: a handler that failed is not over.
DocFinish_KeepsFailed(w) ==
  \/ stage[w] = "returned" /\ CompleteJob(w) /\ Ends(w)
  \/ Raised(w) /\ FailJob(w, stage[w]) /\ Unstaged

\* run_once settles the job according to what the handler did.
DocFinish(w) ==
  /\ \/ stage[w] = "returned" /\ CompleteJob(w)
     \/ Raised(w) /\ FailJob(w, stage[w])
  /\ Ends(w)

DocCrash(w) == Crash(w) /\ Ends(w)

\* What runs on the event loop waits for a parser to return.
DocOnLoop(w) ==
  /\ ~Blocked(w)
  /\ Heartbeat(w) \/ HeartbeatError(w) \/ Stop(w)
  /\ Unstaged

DocIdle(w) == (Exit(w) \/ Restart(w)) /\ Unstaged

\* Punctual heartbeats are those the event loop can send.
DocTick ==
  /\ Heartbeats = "punctual" =>
       \A w \in Workers : HeartbeatDue(w) => Blocked(w)
  /\ Elapse
  /\ Unstaged

DocWorkerStep(w) ==
  Handle(w) \/ DocPoll(w) \/ DocFinish(w) \/ DocCrash(w) \/ DocOnLoop(w)
    \/ DocIdle(w)

DocNext ==
  \/ DocTick
  \/ (\E j \in Jobs : CreateJob(j)) /\ Unstaged
  \/ \E w \in Workers : DocWorkerStep(w)
  \/ (\E c \in Clients : ClientStep(c)) /\ Unstaged

DocSpec == DocInit /\ [][DocNext]_docVars

\* run_once with the real handler stays within the queue as JobQueue describes it
\* (durable.py:18-24, 180-251): the handler's commits leave the queue's rows alone,
\* and what it returns or raises is what complete_job and fail_job settle.
FollowsQueue == Spec

-------------------------------------------------------------------------------
(***************************************************************************)
(* Properties.                                                             *)
(***************************************************************************)

\* A handler is at a stage exactly while run_once runs one.
DocTypeOK ==
  /\ stage \in [Workers -> Stages \cup Errors]
  /\ \A w \in Workers : stage[w] = "idle" <=> pc[w] # "run"
  /\ records \subseteq [job : Jobs, exec : Nat]
  /\ findings \in [Jobs -> SUBSET Nat]

\* docs/V1.4_PRODUCTION_OBJECT_STORAGE.md: a failure must not leave a falsely
\* completed job.  A job is completed only when its record is there and the
\* validation of an execution of it is, though each is a commit of its own,
\* crashes fall between them and two handlers may work on the job.
CompletedHasResult ==
  \A j \in Jobs : job[j].status = COMPLETED =>
                    RecordsOf(j) # {} /\ findings[j] # {}

\* complete_job (durable.py:180-207) credits the completion to the execution
\* that asked for it, and leaves its id in the row: that execution committed its
\* own validation before.  A handler that returned after its job was given to
\* another does not complete the other's execution.
CompletedByItsExecution ==
  \A j \in Jobs :
    job[j].status = COMPLETED /\ job[j].execution_id # None =>
      job[j].execution_id \in findings[j]

\* create_validation_errors (repositories.py:237-276) never looks at what is
\* there, so a job that is executed again gets another batch of findings.  There
\* is at most one batch of each execution that was claimed; a handler that
\* returned has its own, one that has yet to commit has none whoever else works
\* on the job, and one that ended otherwise has one only when the database failed
\* after the commit (lines 273-275): a PipelineError is never raised on top of
\* findings.  Every record is of an execution of its job.
FindingsAccounted ==
  /\ \A j \in Jobs : findings[j] \subseteq 1..claims[j]
  /\ \A w \in Workers : pc[w] = "run" =>
       /\ stage[w] = "returned" => held[w].exec \in findings[held[w].job]
       /\ held[w].exec \in findings[held[w].job] => stage[w] \in {"returned", "other"}
  /\ \A r \in records : r.exec \in 1..claims[r.job]

\* The batches of findings that a job collects are as many as its executions may
\* be (recover_expired_jobs, durable.py:103): the attempt limit, and once more for
\* each accepted request that put the counter back, whatever crashes between a
\* commit and complete_job.
BatchesBounded ==
  \A j \in Jobs : Cardinality(findings[j]) <= MaxAttempts * (resets[j] + 1)

\* README.md:577: extracted records are unique per job, so retries do not
\* duplicate the document result: not even when two handlers of one job have
\* both looked for a record before either inserts one.
RecordsUnique == \A r, s \in records : r.job = s.job => r = s

===============================================================================
