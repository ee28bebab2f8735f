----------------------------- MODULE DocumentReview -----------------------------
(***************************************************************************)
(* What the executions of one job make of its document: parser outcome,    *)
(* extraction (app/extraction/extractor.py) under retry_async              *)
(* (app/observability/retry.py), validation (app/validation/rules.py), the *)
(* review decision, the rows that run_document_pipeline commits, and the   *)
(* row the worker adds for a failure that the pipeline has not recorded.   *)
(*                                                                         *)
(* DocumentWorker shows when executions of one job follow or overlap each  *)
(* other and leaves contents out; here any execution may start at any time *)
(* and end anywhere, and the contents are what matters.  Texts are absent  *)
(* (None), blank or "text"; confidences and thresholds are percent.        *)
(***************************************************************************)
EXTENDS Integers

CONSTANTS
  Executions,   \* the claims of the job
  JobAttempts,  \* JobAttempts[e]: job.attempts of the claim
  MaxAttempts,  \* settings.extraction_max_attempts
  Setups,       \* [provider, threshold, document]: settings and the stored file
  Amounts,
  Answers,      \* the records the language model answers with
  None, Blank   \* the absent value, and the empty string

Texts == {None, Blank, "text"}

Types == {"invoice", "contract", "email", "csv", "unknown"}

FieldNames ==
  {"vendor_name", "document_id", "total_amount", "currency", "summary", "confidence",
   "line_items"}

\* source_evidence is the set of fields it is given for.
ExtractedBusinessRecord ==
  [record_type : Types, vendor_name : Texts, document_id : Texts, currency : Texts,
   total_amount : Amounts \cup {None}, summary : Texts \ {None},
   line_items : SUBSET (Amounts \cup {None}), source_evidence : SUBSET FieldNames,
   confidence : 0 .. 100, needs_review : BOOLEAN]

\* A file, as far as the parsers and the patterns of MockExtractor tell apart:
\* what parsing ends with, the groups of type words and the values in the text.
Document ==
  [parsing : {"text", "ParserError", "ValueError"},
   file_type : {"eml", "csv", "pdf", "txt"},
   words : SUBSET {"invoice", "contract", "subject"},
   document_id : {None, "text"}, vendor_name : Texts, currency : {None, "text"},
   total_amount : {a \in Amounts : a >= 0} \cup {None},
   dates_valid : BOOLEAN, long : BOOLEAN]

Setup == [provider : {"mock", "openai"}, threshold : 0 .. 100, document : Document]

Findings ==
  [field_name : FieldNames, error_type : {"required_field_missing", "low_confidence",
     "invalid_amount", "source_evidence_missing", "invalid_line_item_amount"},
   severity : {"warning", "error"}]

\* An extracted_records row and, for the properties, the execution it is from.
Row == [by : Executions, extracted : ExtractedBusinessRecord]

ASSUME ReviewAssumption ==
  /\ MaxAttempts \in Nat \ {0}
  /\ JobAttempts \in [Executions -> Nat \ {0}]
  /\ Amounts \subseteq Int
  /\ Answers \subseteq ExtractedBusinessRecord
  /\ Setups \subseteq Setup
  /\ None \notin Row \cup ExtractedBusinessRecord \cup {Blank, "text", "parse", "extract"}
  /\ Blank # "text"

VARIABLES
  setup,      \* settings and document, the same for every execution
  pc,         \* pc[e]: where execution e is
  attempt,    \* attempt[e]: the loop variable of its retry_async
  raised,     \* raised[e]: the stage its extraction error is to name, or None
  result,     \* result[e]: what its extractor returned, or None
  record,     \* the extracted_records row of the job, with its author, or None
  findings,   \* findings[e]: the validation_errors e committed
  errors      \* extraction_errors, with their author

vars == <<setup, pc, attempt, raised, result, record, findings, errors>>

-------------------------------------------------------------------------------
(***************************************************************************)
(* MockExtractor.                                                          *)
(***************************************************************************)

Missing(value) == value \in {None, Blank}

infer_record_type(d) ==
  IF "invoice" \in d.words THEN "invoice"
  ELSE IF "contract" \in d.words THEN "contract"
  ELSE IF d.file_type = "eml" \/ "subject" \in d.words THEN "email"
  ELSE IF d.file_type = "csv" THEN "csv" ELSE "unknown"

calculate_mock_confidence(d) ==
  LET score == 45 + (IF Missing(d.document_id) THEN 0 ELSE 15)
                  + (IF Missing(d.vendor_name) THEN 0 ELSE 15)
                  + (IF d.total_amount = None THEN 0 ELSE 15)
                  + (IF d.long THEN 10 ELSE 0)
  IN  IF score > 98 THEN 98 ELSE score

\* build_mock_evidence: a value that is there, a blank one too, has evidence.
build_mock_evidence(d) ==
  {f \in {"document_id", "vendor_name", "total_amount"} : d[f] # None}

clean_optional(text) == IF text = Blank THEN None ELSE text

\* MockExtractor.extract
MockRecord(d) ==
  [record_type |-> infer_record_type(d),
   vendor_name |-> clean_optional(d.vendor_name),
   document_id |-> clean_optional(d.document_id), currency |-> d.currency,
   total_amount |-> d.total_amount, summary |-> "text", line_items |-> {},
   source_evidence |-> build_mock_evidence(d),
   confidence |-> calculate_mock_confidence(d),
   needs_review |-> calculate_mock_confidence(d) < 75]

-------------------------------------------------------------------------------
(***************************************************************************)
(* The rules, each the set of its findings, and the review decision.       *)
(***************************************************************************)

Finding(field, type, severity) ==
  [field_name |-> field, error_type |-> type, severity |-> severity]

Required(type) ==
  CASE type = "invoice" -> {"vendor_name", "document_id", "total_amount", "currency"}
    [] type = "contract" -> {"vendor_name", "document_id"}
    [] OTHER -> {"summary"}

validate_required_fields(r) ==
  {Finding(f, "required_field_missing", "error") :
     f \in {f \in Required(r.record_type) : Missing(r[f])}}

validate_confidence(r) ==
  {f \in {Finding("confidence", "low_confidence", "warning")} : r.confidence < 75}

validate_amounts(r) ==
  {f \in {Finding("total_amount", "invalid_amount", "error")} :
     r.total_amount # None /\ r.total_amount < 0}

\* Mutant of validate_source_evidence: any evidence will do.
validate_source_evidence_Any(r) ==
  {Finding(f, "source_evidence_missing", "warning") :
     f \in {f \in {"vendor_name", "document_id", "total_amount"} :
              r[f] # None /\ r.source_evidence = {}}}

validate_source_evidence(r) ==
  {Finding(f, "source_evidence_missing", "warning") :
     f \in {f \in {"vendor_name", "document_id", "total_amount"} :
              r[f] # None /\ f \notin r.source_evidence}}

validate_line_items(r) ==
  {f \in {Finding("line_items", "invalid_line_item_amount", "error")} :
     \E a \in r.line_items : a # None /\ a < 0}

validate_extracted_record(r) ==
  validate_required_fields(r) \cup validate_confidence(r) \cup validate_amounts(r)
    \cup validate_source_evidence(r) \cup validate_line_items(r)

\* Mutant of needs_review: warnings do not count.
needs_review_ErrorsOnly(r) ==
  \/ r.needs_review
  \/ r.confidence < setup.threshold
  \/ \E f \in validate_extracted_record(r) : f.severity = "error"

\* The flag that is stored, whatever the model said of its own answer.
needs_review(r) ==
  \/ r.needs_review
  \/ r.confidence < setup.threshold
  \/ \E f \in validate_extracted_record(r) : f.severity \in {"warning", "error"}

-------------------------------------------------------------------------------
Init ==
  /\ setup \in Setups
  /\ pc = [e \in Executions |-> "idle"]
  /\ attempt = [e \in Executions |-> 1]
  /\ raised = [e \in Executions |-> None]
  /\ result = [e \in Executions |-> None]
  /\ record = None
  /\ findings = [e \in Executions |-> {}]
  /\ errors = {}

Goto(e, from, to) ==
  /\ pc[e] = from
  /\ pc' = [pc EXCEPT ![e] = to]

\* The except clause of the pipeline catches an exception of this stage.
Raise(e, from, where) ==
  /\ Goto(e, from, "failing")
  /\ raised' = [raised EXCEPT ![e] = where]
  /\ UNCHANGED <<setup, attempt, result, record, findings, errors>>

\* A worker has claimed the job and calls run_document_pipeline.
Start(e) ==
  /\ Goto(e, "idle", "parse")
  /\ UNCHANGED <<setup, attempt, raised, result, record, findings, errors>>

\* parse_file: a ParserError is an error of stage parse; a ValueError, such as
\* a text that is not UTF-8, is recorded under stage extract.
Parse(e) ==
  \/ /\ setup.document.parsing = "text"
     /\ Goto(e, "parse", "call")
     /\ UNCHANGED <<setup, attempt, raised, result, record, findings, errors>>
  \/ setup.document.parsing = "ParserError" /\ Raise(e, "parse", "parse")
  \/ setup.document.parsing = "ValueError" /\ Raise(e, "parse", "extract")

\* The extractor returns a record.
Return(e, r) ==
  /\ Goto(e, "call", "select")
  /\ result' = [result EXCEPT ![e] = r]
  /\ UNCHANGED <<setup, attempt, raised, record, findings, errors>>

\* One call of MockExtractor.extract: a date that is none raises a ValueError,
\* which retry_async does not retry.
CallMock(e) ==
  /\ setup.provider = "mock"
  /\ \/ setup.document.dates_valid /\ Return(e, MockRecord(setup.document))
     \/ ~setup.document.dates_valid /\ Raise(e, "call", "extract")

\* Mutant of Exhausted: one attempt more.
Exhausted_Late(e) == attempt[e] > MaxAttempts

Exhausted(e) == attempt[e] >= MaxAttempts

\* One call of OpenAIExtractor.extract: any answer of the schema; or an
\* ExtractionError, which is retried while there are attempts left.
CallModel(e) ==
  /\ setup.provider = "openai"
  /\ \/ \E r \in Answers : Return(e, r)
     \/ Exhausted(e) /\ Raise(e, "call", "extract")
     \/ /\ ~Exhausted(e)
        /\ Goto(e, "call", "retry")
        /\ UNCHANGED <<setup, attempt, raised, result, record, findings, errors>>

ErrorRow(e, where, again) ==
  [by |-> e, stage |-> where, retryable |-> again, attempt |-> attempt[e]]

\* Mutant of RecordRetry: nothing is recorded.
RecordRetry_Silent(e) ==
  /\ Goto(e, "retry", "delay")
  /\ UNCHANGED <<setup, attempt, raised, result, record, findings, errors>>

\* record_retry (on_retry) commits its row.
RecordRetry(e) ==
  /\ Goto(e, "retry", "delay")
  /\ errors' = errors \cup {ErrorRow(e, "extract", TRUE)}
  /\ UNCHANGED <<setup, attempt, raised, result, record, findings>>

\* Mutant of NextAttempt: the loop variable does not advance.
NextAttempt_Same(e) ==
  /\ Goto(e, "delay", "call")
  /\ UNCHANGED <<setup, attempt, raised, result, record, findings, errors>>

\* The delay is over: the next round of the loop.
NextAttempt(e) ==
  /\ Goto(e, "delay", "call")
  /\ attempt' = [attempt EXCEPT ![e] = @ + 1]
  /\ UNCHANGED <<setup, raised, result, record, findings, errors>>

\* The except clause commits the final row, with the attempts of a
\* RetryExhaustedError and 1 for every other exception ...
CreateExtractionError(e) ==
  /\ Goto(e, "failing", "recorded")
  /\ errors' = errors \cup {ErrorRow(e, raised[e], FALSE)}
  /\ UNCHANGED <<setup, attempt, raised, result, record, findings>>

\* ... and raises PipelineError, which the worker does not record again.
RaisePipelineError(e) ==
  /\ Goto(e, "recorded", "failed")
  /\ UNCHANGED <<setup, attempt, raised, result, record, findings, errors>>

\* create_extracted_record returns the row of an earlier execution as it is ...
SelectRecord(e) ==
  /\ Goto(e, "select", IF record = None THEN "insert" ELSE "validate")
  /\ UNCHANGED <<setup, attempt, raised, result, record, findings, errors>>

\* ... or inserts its own, with the review decision in it.  When another
\* execution was faster, the unique index ends this one (Break).
InsertRecord(e) ==
  /\ record = None
  /\ Goto(e, "insert", "validate")
  /\ record' = [by |-> e, extracted |->
       [result[e] EXCEPT !.needs_review = needs_review(result[e])]]
  /\ UNCHANGED <<setup, attempt, raised, result, findings, errors>>

\* create_validation_errors: the findings of this execution's own extraction.
CreateValidationErrors(e) ==
  /\ Goto(e, "validate", "validated")
  /\ findings' = [findings EXCEPT ![e] = validate_extracted_record(result[e])]
  /\ UNCHANGED <<setup, attempt, raised, result, record, errors>>

\* The rows are refreshed; the pipeline returns.
ReturnResult(e) ==
  /\ Goto(e, "validated", "returned")
  /\ UNCHANGED <<setup, attempt, raised, result, record, findings, errors>>

Over == {"returned", "failed", "reported", "stopped"}

\* A database exception, before a commit or after one (the refresh), or another
\* that no except clause of the pipeline names: it reaches run_once.
Break(e) ==
  /\ pc[e] \notin Over \cup {"idle", "raised"}
  /\ pc' = [pc EXCEPT ![e] = "raised"]
  /\ UNCHANGED <<setup, attempt, raised, result, record, findings, errors>>

\* run_once, after fail_job: the worker's row, retryable unless fail_job has
\* ended the job.
WorkerError(e) ==
  /\ Goto(e, "raised", "reported")
  /\ \E again \in BOOLEAN :
       errors' = errors \cup {[by |-> e, stage |-> "worker", retryable |-> again,
                              attempt |-> JobAttempts[e]]}
  /\ UNCHANGED <<setup, attempt, raised, result, record, findings>>

\* The death of the process, at a crash or of an exception in run_once's own
\* handling of another.
Stop(e) ==
  /\ pc[e] \notin Over \cup {"idle"}
  /\ pc' = [pc EXCEPT ![e] = "stopped"]
  /\ UNCHANGED <<setup, attempt, raised, result, record, findings, errors>>

Handle(e) ==
  \/ Parse(e) \/ CallMock(e) \/ CallModel(e) \/ RecordRetry(e) \/ NextAttempt(e)
  \/ CreateExtractionError(e) \/ RaisePipelineError(e) \/ SelectRecord(e)
  \/ InsertRecord(e) \/ CreateValidationErrors(e) \/ ReturnResult(e) \/ Break(e)
  \/ WorkerError(e) \/ Stop(e)

Next == \E e \in Executions : Start(e) \/ Handle(e)

Spec == Init /\ [][Next]_vars

\* A provider call returns (the client library has a timeout), a database
\* statement returns or raises, a sleep ends.
Fairness == \A e \in Executions : WF_vars(Handle(e))

FairSpec == Spec /\ Fairness

-------------------------------------------------------------------------------
(***************************************************************************)
(* Properties.                                                             *)
(***************************************************************************)

\* Each step has what it works on: a result, an attempt left, a stage to name.
TypeOK ==
  /\ setup \in Setups
  /\ pc \in [Executions -> {"idle", "parse", "call", "retry", "delay", "failing",
                            "recorded", "select", "insert", "validate", "validated",
                            "raised"} \cup Over]
  /\ attempt \in [Executions -> 1 .. MaxAttempts]
  /\ raised \in [Executions -> {None, "parse", "extract"}]
  /\ result \in [Executions -> ExtractedBusinessRecord \cup {None}]
  /\ \A e \in Executions :
       /\ pc[e] \in {"select", "insert", "validate"} => result[e] # None
       /\ pc[e] \in {"retry", "delay"} => attempt[e] < MaxAttempts
       /\ pc[e] = "failing" => raised[e] # None
  /\ record \in Row \cup {None}
  /\ findings \in [Executions -> SUBSET Findings]
  /\ errors \subseteq [by : Executions, stage : {"parse", "extract", "worker"},
                       retryable : BOOLEAN, attempt : Nat \ {0}]

\* Complete for its type, confident enough for the rule and for the setting,
\* without negative amounts, and with evidence for each value.
Trustworthy(r) ==
  /\ IF r.record_type \in {"invoice", "contract"}
       THEN ~Missing(r.vendor_name) /\ ~Missing(r.document_id)
       ELSE r.summary # Blank
  /\ r.record_type = "invoice" => r.total_amount # None /\ ~Missing(r.currency)
  /\ \A a \in ({r.total_amount} \cup r.line_items) \ {None} : a >= 0
  /\ r.vendor_name # None => "vendor_name" \in r.source_evidence
  /\ r.document_id # None => "document_id" \in r.source_evidence
  /\ r.total_amount # None => "total_amount" \in r.source_evidence
  /\ r.confidence >= 75 /\ r.confidence >= setup.threshold

\* README.md:479-489, "before they are treated as business-ready data": a
\* record that is not flagged for review passes every check the README lists,
\* whichever execution and extractor it is from.
NotReviewedIsTrustworthy ==
  record # None /\ ~record.extracted.needs_review => Trustworthy(record.extracted)

\* The findings stored for a record and the flag in it may come from different
\* executions.  With the mock extractor, or when they come from one, a record
\* with a finding is flagged.  (The language model may answer an execution that
\* follows a crash differently: its findings then join a record without a flag.)
ReviewCoversFindings ==
  record # None =>
    \A e \in Executions :
      /\ findings[e] # {}
      /\ setup.provider = "mock" \/ e = record.by
      => record.extracted.needs_review

\* extraction_errors is the account of the failures (README.md:73).  Each failed
\* call before the running one has its retryable row, and the running one has it
\* only in the delay, or when the execution broke off there.  The final row counts
\* the calls made, and an execution that ended in a PipelineError has it.  The
\* worker adds its row where an execution neither returned nor raised that.
RetriesAccounted ==
  \A e \in Executions :
    LET rows     == {row \in errors : row.by = e /\ row.stage # "worker"}
        attempts == {row.attempt : row \in {row \in rows : row.retryable}}
    IN  /\ \/ attempts = 1 .. attempt[e] - 1
           \/ /\ attempts = 1 .. attempt[e]
              /\ pc[e] \in {"delay", "raised", "reported", "stopped"}
        /\ pc[e] = "failed" => \E row \in rows : ~row.retryable
        /\ \A row \in rows : ~row.retryable =>
             /\ pc[e] \in {"recorded", "failed", "raised", "reported", "stopped"}
             /\ row.attempt = attempt[e]
             /\ setup.provider = "openai" /\ row.stage = "extract"
                  /\ setup.document.parsing = "text" => row.attempt = MaxAttempts
        /\ (\E row \in errors : row.by = e /\ row.stage = "worker") <=> pc[e] = "reported"

\* An execution that began ends, whatever the provider does: what JobQueue
\* assumes of its handlers.
ExecutionsEnd == \A e \in Executions : pc[e] = "parse" ~> pc[e] \in Over

===============================================================================
