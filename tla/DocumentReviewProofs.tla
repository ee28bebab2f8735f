-------------------------- MODULE DocumentReviewProofs --------------------------
(***************************************************************************)
(* Theorems about DocumentReview, for every set of executions, settings,   *)
(* documents and model answers.                                            *)
(***************************************************************************)
EXTENDS DocumentReview, TLAPS

-------------------------------------------------------------------------------
(***************************************************************************)
(* The extractor and the rules.                                            *)
(***************************************************************************)

\* The confidence of the mock extractor is a percentage.
LEMMA MockConfidence ==
  ASSUME NEW d \in Document
  PROVE  calculate_mock_confidence(d) \in 0 .. 100
<1> DEFINE id == IF Missing(d.document_id) THEN 0 ELSE 15
           vendor == IF Missing(d.vendor_name) THEN 0 ELSE 15
           amount == IF d.total_amount = None THEN 0 ELSE 15
           length == IF d.long THEN 10 ELSE 0
           score == 45 + id + vendor + amount + length
<1>1. id \in {0, 15} /\ vendor \in {0, 15} /\ amount \in {0, 15} /\ length \in {0, 10}
  OBVIOUS
<1>2. score \in 0 .. 100
  <2> HIDE DEF id, vendor, amount, length
  <2> QED BY <1>1
<1>3. calculate_mock_confidence(d) = IF score > 98 THEN 98 ELSE score
  BY DEF calculate_mock_confidence
<1> HIDE DEF score
<1> QED BY <1>2, <1>3

\* What the mock extractor returns is a record of the schema.
LEMMA MockRecordType ==
  ASSUME NEW d \in Document
  PROVE  MockRecord(d) \in ExtractedBusinessRecord
<1>1. infer_record_type(d) \in Types
  BY DEF infer_record_type, Types
<1>2. clean_optional(d.vendor_name) \in Texts /\ clean_optional(d.document_id) \in Texts
      /\ d.currency \in Texts
  BY DEF Document, clean_optional, Texts
<1>3. d.total_amount \in Amounts \cup {None}
  BY DEF Document
<1>4. build_mock_evidence(d) \in SUBSET FieldNames
  BY DEF build_mock_evidence, FieldNames
<1>5. "text" \in Texts \ {None}
  BY ReviewAssumption DEF Texts
<1>6. (calculate_mock_confidence(d) < 75) \in BOOLEAN
  OBVIOUS
<1> QED
  BY <1>1, <1>2, <1>3, <1>4, <1>5, <1>6, MockConfidence
  DEF MockRecord, ExtractedBusinessRecord

\* Every finding is well formed, and so warns or accuses.
LEMMA FindingsType ==
  ASSUME NEW r
  PROVE  validate_extracted_record(r) \in SUBSET Findings
<1>1. validate_required_fields(r) \in SUBSET Findings
  BY DEF validate_required_fields, Required, Finding, Findings, FieldNames
<1>2. validate_source_evidence(r) \in SUBSET Findings
  BY DEF validate_source_evidence, Finding, Findings, FieldNames
<1>3. /\ validate_confidence(r) \in SUBSET Findings
      /\ validate_amounts(r) \in SUBSET Findings
      /\ validate_line_items(r) \in SUBSET Findings
  BY DEF validate_confidence, validate_amounts, validate_line_items, Finding, Findings,
         FieldNames
<1> QED BY <1>1, <1>2, <1>3 DEF validate_extracted_record

\* A record with a finding needs review.
LEMMA FindingNeedsReview ==
  ASSUME NEW r, validate_extracted_record(r) # {}
  PROVE  needs_review(r)
<1>1. PICK f \in validate_extracted_record(r) : TRUE
  OBVIOUS
<1>2. f.severity \in {"warning", "error"}
  BY FindingsType, <1>1 DEF Findings
<1> QED BY <1>1, <1>2 DEF needs_review

\* The rules find everything that would make a record untrustworthy.
LEMMA NoFindingTrustworthy ==
  ASSUME NEW r \in ExtractedBusinessRecord, setup.threshold \in 0 .. 100,
         ~needs_review(r)
  PROVE  Trustworthy(r)
<1>1. /\ validate_required_fields(r) = {} /\ validate_confidence(r) = {}
      /\ validate_amounts(r) = {} /\ validate_source_evidence(r) = {}
      /\ validate_line_items(r) = {}
  BY FindingNeedsReview DEF validate_extracted_record
<1>2. \A f \in Required(r.record_type) : ~Missing(r[f])
  BY <1>1 DEF validate_required_fields
<1>3. IF r.record_type \in {"invoice", "contract"}
        THEN ~Missing(r.vendor_name) /\ ~Missing(r.document_id)
        ELSE r.summary # Blank
  BY <1>2 DEF Required, Missing
<1>4. r.record_type = "invoice" => r.total_amount # None /\ ~Missing(r.currency)
  BY <1>2 DEF Required, Missing
<1>5. \A a \in ({r.total_amount} \cup r.line_items) \ {None} : a >= 0
  <2>1. \A a \in ({r.total_amount} \cup r.line_items) \ {None} : a \in Int
    BY ReviewAssumption DEF ExtractedBusinessRecord
  <2>2. \A a \in ({r.total_amount} \cup r.line_items) \ {None} : ~(a < 0)
    BY <1>1 DEF validate_amounts, validate_line_items
  <2> QED BY <2>1, <2>2
<1>6. \A f \in {"vendor_name", "document_id", "total_amount"} :
        r[f] # None => f \in r.source_evidence
  BY <1>1 DEF validate_source_evidence
<1>7. r.confidence >= 75 /\ r.confidence >= setup.threshold
  <2>1. r.confidence \in 0 .. 100
    BY DEF ExtractedBusinessRecord
  <2>2. ~(r.confidence < 75)
    BY <1>1 DEF validate_confidence
  <2>3. ~(r.confidence < setup.threshold)
    BY DEF needs_review
  <2> QED BY <2>1, <2>2, <2>3
<1> QED BY <1>3, <1>4, <1>5, <1>6, <1>7 DEF Trustworthy

-------------------------------------------------------------------------------
(***************************************************************************)
(* Types.                                                                  *)
(***************************************************************************)

\* The document of a setup, and the threshold.
LEMMA SetupType ==
  ASSUME setup \in Setups
  PROVE  setup.document \in Document /\ setup.threshold \in 0 .. 100
  BY ReviewAssumption DEF Setup

\* The flag changes, the rest of the record does not.
LEMMA FlaggedType ==
  ASSUME NEW r \in ExtractedBusinessRecord
  PROVE  [r EXCEPT !.needs_review = needs_review(r)] \in ExtractedBusinessRecord
<1>1. needs_review(r) \in BOOLEAN
  BY DEF needs_review
<1> HIDE DEF needs_review
<1> QED BY <1>1 DEF ExtractedBusinessRecord

\* The first state has its types.
LEMMA InitType == Init => TypeOK
  BY ReviewAssumption DEF Init, TypeOK

\* Every step of every execution keeps them.
LEMMA StepType == TypeOK /\ [Next]_vars => TypeOK'
<1> SUFFICES ASSUME TypeOK, [Next]_vars PROVE TypeOK'
  OBVIOUS
<1> USE DEF TypeOK, Goto, Over
<1>0. CASE UNCHANGED vars
  BY <1>0 DEF vars
<1> SUFFICES ASSUME NEW e \in Executions, Start(e) \/ Handle(e) PROVE TypeOK'
  BY <1>0 DEF Next
<1>1. CASE Start(e)
  BY <1>1 DEF Start
<1>2. ASSUME NEW from, NEW where \in {"parse", "extract"}, Raise(e, from, where)
       PROVE  TypeOK'
  BY <1>2, ReviewAssumption DEF Raise
<1>3. CASE Parse(e)
  BY <1>3, <1>2 DEF Parse
<1>4. ASSUME NEW r \in ExtractedBusinessRecord, Return(e, r) PROVE TypeOK'
  BY <1>4, ReviewAssumption DEF Return
<1>5. CASE CallMock(e)
  <2>1. MockRecord(setup.document) \in ExtractedBusinessRecord
    BY SetupType, MockRecordType
  <2>2. CASE Raise(e, "call", "extract")
    BY <1>2, <2>2
  <2> QED BY <1>4, <1>5, <2>1, <2>2 DEF CallMock
<1>6. CASE CallModel(e)
  <2>1. CASE \E r \in Answers : Return(e, r)
    BY <1>4, <2>1, ReviewAssumption
  <2>2. CASE Raise(e, "call", "extract")
    BY <1>2, <2>2
  <2>3. CASE ~Exhausted(e) /\ Goto(e, "call", "retry")
             /\ UNCHANGED <<setup, attempt, raised, result, record, findings, errors>>
    BY <2>3, ReviewAssumption DEF Exhausted
  <2> QED BY <1>6, <2>1, <2>2, <2>3 DEF CallModel
<1>7. ASSUME NEW row, NEW from, NEW to \in {"delay", "recorded", "reported"},
             row \in [by : Executions, stage : {"parse", "extract", "worker"},
                      retryable : BOOLEAN, attempt : Nat \ {0}],
             Goto(e, from, to), to = "delay" => from = "retry",
             errors' = errors \cup {row},
             UNCHANGED <<setup, attempt, raised, result, record, findings>>
      PROVE  TypeOK'
  BY <1>7
<1>8. CASE RecordRetry(e)
  <2>1. ErrorRow(e, "extract", TRUE) \in [by : Executions,
          stage : {"parse", "extract", "worker"}, retryable : BOOLEAN, attempt : Nat \ {0}]
    BY ReviewAssumption DEF ErrorRow
  <2> QED BY <1>7, <1>8, <2>1 DEF RecordRetry
<1>9. CASE NextAttempt(e)
  <2>1. attempt[e] + 1 \in 1 .. MaxAttempts
    BY <1>9, ReviewAssumption DEF NextAttempt
  <2> QED BY <1>9, <2>1 DEF NextAttempt
<1>10. CASE CreateExtractionError(e)
  <2>1. ErrorRow(e, raised[e], FALSE) \in [by : Executions,
          stage : {"parse", "extract", "worker"}, retryable : BOOLEAN, attempt : Nat \ {0}]
    BY <1>10, ReviewAssumption DEF ErrorRow, CreateExtractionError
  <2> QED BY <1>7, <1>10, <2>1 DEF CreateExtractionError
<1>11. CASE RaisePipelineError(e) \/ ReturnResult(e)
  BY <1>11 DEF RaisePipelineError, ReturnResult
<1>12. CASE SelectRecord(e)
  BY <1>12 DEF SelectRecord
<1>13. CASE InsertRecord(e)
  <2>1. result[e] \in ExtractedBusinessRecord
    BY <1>13 DEF InsertRecord
  <2>2. record' \in Row
    BY <1>13, <2>1, FlaggedType DEF InsertRecord, Row
  <2> QED BY <1>13, <2>2 DEF InsertRecord
<1>14. CASE CreateValidationErrors(e)
  BY <1>14, FindingsType DEF CreateValidationErrors
<1>15. CASE Break(e) \/ Stop(e)
  BY <1>15 DEF Break, Stop
<1>16. CASE WorkerError(e)
  <2> SUFFICES ASSUME NEW again \in BOOLEAN,
                      errors' = errors \cup {[by |-> e, stage |-> "worker",
                                             retryable |-> again,
                                             attempt |-> JobAttempts[e]]}
               PROVE  TypeOK'
    BY <1>16 DEF WorkerError
  <2>1. JobAttempts[e] \in Nat \ {0}
    BY ReviewAssumption
  <2> QED BY <1>7, <1>16, <2>1 DEF WorkerError
<1> QED
  BY <1>1, <1>3, <1>5, <1>6, <1>8, <1>9, <1>10, <1>11, <1>12, <1>13, <1>14, <1>15, <1>16
  DEF Handle

\* Types, for every execution and setup.
THEOREM ReviewTypeCorrect == Spec => []TypeOK
  BY InitType, StepType, PTL DEF Spec

-------------------------------------------------------------------------------
(***************************************************************************)
(* The review decision.                                                    *)
(***************************************************************************)

\* A step writes the record only when there is none, and then with the flag.
LEMMA RecordWrites ==
  ASSUME [Next]_vars
  PROVE  /\ setup' = setup
         /\ \/ record' = record
            \/ /\ record = None
               /\ \E e \in Executions : InsertRecord(e)
<1> USE DEF Raise, Return
<1>1. CASE UNCHANGED vars
  BY <1>1 DEF vars
<1>2. ASSUME NEW e \in Executions, Start(e) \/ Parse(e) \/ CallMock(e) \/ CallModel(e)
      PROVE  record' = record /\ setup' = setup
  BY <1>2 DEF Start, Parse, CallMock, CallModel
<1>3. ASSUME NEW e \in Executions,
             RecordRetry(e) \/ NextAttempt(e) \/ CreateExtractionError(e)
               \/ RaisePipelineError(e) \/ SelectRecord(e) \/ CreateValidationErrors(e)
               \/ ReturnResult(e) \/ Break(e) \/ WorkerError(e) \/ Stop(e)
      PROVE  record' = record /\ setup' = setup
  BY <1>3 DEF RecordRetry, NextAttempt, CreateExtractionError, RaisePipelineError,
              SelectRecord, CreateValidationErrors, ReturnResult, Break, WorkerError, Stop
<1>4. ASSUME NEW e \in Executions, InsertRecord(e)
      PROVE  record = None /\ setup' = setup
  BY <1>4 DEF InsertRecord
<1> QED BY <1>1, <1>2, <1>3, <1>4 DEF Next, Handle

\* A record without the flag is trustworthy, whatever the document is, whatever
\* the model answers and whichever execution stored it.
THEOREM NothingUntrustworthyPasses == Spec => []NotReviewedIsTrustworthy
<1>1. Init => NotReviewedIsTrustworthy
  BY DEF Init, NotReviewedIsTrustworthy
<1>2. TypeOK /\ NotReviewedIsTrustworthy /\ [Next]_vars => NotReviewedIsTrustworthy'
  <2> SUFFICES ASSUME TypeOK, NotReviewedIsTrustworthy, [Next]_vars,
                      record' # None, ~record'.extracted.needs_review
               PROVE  Trustworthy(record.extracted)'
    BY DEF NotReviewedIsTrustworthy
  <2>1. setup' = setup
    BY RecordWrites
  <2>2. CASE record' = record
    BY <2>1, <2>2 DEF NotReviewedIsTrustworthy, Trustworthy
  <2>3. ASSUME NEW e \in Executions, InsertRecord(e)
        PROVE  Trustworthy(record.extracted)'
    <3> DEFINE r == result[e]
               stored == [r EXCEPT !.needs_review = needs_review(r)]
    <3>1. r \in ExtractedBusinessRecord
      BY <2>3 DEF TypeOK, InsertRecord, Goto
    <3>2. record'.extracted = stored
      BY <2>3 DEF InsertRecord
    <3>3. /\ stored.needs_review = needs_review(r)
          /\ \A f \in {"record_type", "vendor_name", "document_id", "currency",
                       "total_amount", "summary", "line_items", "source_evidence",
                       "confidence"} : stored[f] = r[f]
      BY <3>1 DEF ExtractedBusinessRecord
    <3>4. Trustworthy(r)
      BY <3>1, <3>2, <3>3, NoFindingTrustworthy, SetupType DEF TypeOK
    <3> HIDE DEF r, stored
    <3> QED BY <2>1, <3>2, <3>3, <3>4 DEF Trustworthy
  <2> QED BY <2>2, <2>3, RecordWrites
<1> QED BY <1>1, <1>2, ReviewTypeCorrect, PTL DEF Spec

-------------------------------------------------------------------------------
(***************************************************************************)
(* The record and the findings.                                            *)
(***************************************************************************)

\* An execution past the record extracts nothing any more.
Past == {"validate", "validated", "returned", "raised", "reported", "stopped"}

\* The strengthening of ReviewCoversFindings: the record carries the decision
\* on what its author extracted, and so do the findings of each execution; the
\* mock extractor gives every execution the same; findings need a record.
CoverInv ==
  /\ record # None =>
       /\ record.by \in Executions
       /\ pc[record.by] \in Past
       /\ record.extracted.needs_review = needs_review(result[record.by])
       /\ result[record.by] # None
  /\ \A e \in Executions :
       /\ pc[e] \in {"validate", "validated", "returned"} => record # None
       /\ setup.provider = "mock" => result[e] \in {None, MockRecord(setup.document)}
       /\ findings[e] # {} =>
            /\ record # None /\ pc[e] \in Past
            /\ validate_extracted_record(result[e]) # {} /\ result[e] # None

\* No record and no findings at the start.
LEMMA InitCover == Init => CoverInv
  BY DEF Init, CoverInv

\* No step stores a finding that the flag of its record does not cover.
LEMMA StepCover == TypeOK /\ CoverInv /\ [Next]_vars => CoverInv'
<1> SUFFICES ASSUME TypeOK, CoverInv, [Next]_vars PROVE CoverInv'
  OBVIOUS
<1>0. CASE UNCHANGED vars
  BY <1>0 DEF vars, CoverInv, needs_review
<1> SUFFICES ASSUME NEW e \in Executions, Start(e) \/ Handle(e) PROVE CoverInv'
  BY <1>0 DEF Next
<1> USE DEF Goto
<1> DEFINE Quiet == UNCHANGED <<setup, result, record, findings>>
           Moves(from, to) == pc[e] \in from /\ \E s \in to : pc' = [pc EXCEPT ![e] = s]
<1>1. ASSUME Quiet,
             \/ Moves({"idle", "parse", "call", "retry", "delay", "failing", "recorded"},
                      {"parse", "call", "retry", "delay", "failing", "recorded", "failed"})
             \/ \E from, to : Goto(e, from, to) /\ to \in {"raised", "reported", "stopped"}
             \/ Goto(e, "validated", "returned")
      PROVE  CoverInv'
  BY <1>1 DEF TypeOK, CoverInv, Past, needs_review
<1>2. CASE Start(e)
  BY <1>1, <1>2 DEF Start
<1>3. ASSUME NEW from \in {"parse", "call"}, NEW where, Raise(e, from, where)
      PROVE  CoverInv'
  BY <1>1, <1>3 DEF Raise
<1>4. CASE Parse(e)
  BY <1>1, <1>3, <1>4 DEF Parse
<1>5. ASSUME NEW r, setup.provider = "mock" => r = MockRecord(setup.document),
             Return(e, r)
      PROVE  CoverInv'
  BY <1>5 DEF TypeOK, CoverInv, Past, Return, needs_review
<1>6. CASE CallMock(e)
  BY <1>3, <1>5, <1>6 DEF CallMock
<1>7. CASE CallModel(e)
  BY <1>1, <1>3, <1>5, <1>7 DEF CallModel
<1>8. CASE RecordRetry(e) \/ NextAttempt(e)
  BY <1>1, <1>8 DEF RecordRetry, NextAttempt
<1>9. CASE CreateExtractionError(e) \/ RaisePipelineError(e)
  BY <1>1, <1>9 DEF CreateExtractionError, RaisePipelineError
<1>10. CASE SelectRecord(e)
  BY <1>10 DEF SelectRecord, TypeOK, CoverInv, Past, needs_review
<1>11. CASE InsertRecord(e)
  <2> DEFINE r == result[e]
  <2>1. r \in ExtractedBusinessRecord
    BY <1>11 DEF InsertRecord, TypeOK
  <2>2. needs_review(r)' = needs_review(r)
    BY <1>11 DEF InsertRecord, needs_review
  <2>3. [r EXCEPT !.needs_review = needs_review(r)].needs_review = needs_review(r)
    BY <2>1 DEF ExtractedBusinessRecord
  <2>4. /\ record'.by = e
        /\ record'.extracted.needs_review = needs_review(result[e])'
    BY <1>11, <2>2, <2>3 DEF InsertRecord
  <2>5. \A x \in Executions : findings[x] = {}
    BY <1>11 DEF InsertRecord, CoverInv
  <2>6. record' # None
    BY <1>11, <2>1, FlaggedType, ReviewAssumption DEF InsertRecord, Row
  <2>7. result'[e] # None
    BY <1>11 DEF InsertRecord, TypeOK
  <2> QED BY <1>11, <2>4, <2>5, <2>6, <2>7 DEF InsertRecord, TypeOK, CoverInv, Past
<1>12. CASE CreateValidationErrors(e)
  BY <1>12 DEF CreateValidationErrors, TypeOK, CoverInv, Past, needs_review
<1>13. CASE ReturnResult(e) \/ WorkerError(e)
  BY <1>1, <1>13 DEF ReturnResult, WorkerError
<1>14. CASE Break(e) \/ Stop(e)
  BY <1>1, <1>14 DEF Break, Stop
<1> QED
  BY <1>2, <1>4, <1>6, <1>7, <1>8, <1>9, <1>10, <1>11, <1>12, <1>13, <1>14 DEF Handle

\* A finding on the record's own extraction, or on the same document by the mock
\* extractor, is in its flag.
THEOREM FindingsAreReviewed == Spec => []ReviewCoversFindings
<1>1. CoverInv => ReviewCoversFindings
  BY FindingNeedsReview DEF CoverInv, ReviewCoversFindings
<1>2. Spec => []CoverInv
  BY InitCover, StepCover, ReviewTypeCorrect, PTL DEF Spec
<1> QED BY <1>1, <1>2, PTL

-------------------------------------------------------------------------------
(***************************************************************************)
(* The account of the retries.                                             *)
(***************************************************************************)

\* Where an execution may have broken off, and where its final row may be there.
Broken == {"raised", "reported", "stopped"}
Late == {"recorded", "failed"} \cup Broken

\* The attempts that have a retryable row of the pipeline, and the final rows.
Retried(e) ==
  {row.attempt : row \in {row \in errors : row.by = e /\ row.stage # "worker"
                                           /\ row.retryable}}
Final(e) == {row \in errors : row.by = e /\ row.stage # "worker" /\ ~row.retryable}
Workers(e) == {row \in errors : row.by = e /\ row.stage = "worker"}

\* The strengthening of RetriesAccounted, for one execution: it knows where the
\* row of the running call is and is not there yet, and an execution that is about
\* to record the failure of a model has used all its attempts.
Accounted(e) ==
  /\ pc[e] = "delay" => Retried(e) = 1 .. attempt[e]
  /\ pc[e] \notin Broken \cup {"delay"} => Retried(e) = 1 .. attempt[e] - 1
  /\ pc[e] \in Broken => Retried(e) \in {1 .. attempt[e], 1 .. attempt[e] - 1}
  /\ pc[e] \in {"recorded", "failed"} => Final(e) # {}
  /\ \A row \in Final(e) :
       /\ pc[e] \in Late
       /\ row.attempt = attempt[e]
       /\ setup.provider = "openai" /\ row.stage = "extract"
            /\ setup.document.parsing = "text" => row.attempt = MaxAttempts
  /\ Workers(e) # {} <=> pc[e] = "reported"
  /\ pc[e] \in {"call", "retry", "delay"} => setup.document.parsing = "text"
  /\ pc[e] = "failing" /\ raised[e] = "extract" /\ setup.provider = "openai"
       /\ setup.document.parsing = "text" => attempt[e] = MaxAttempts

AccountInv == \A e \in Executions : Accounted(e)

\* The property is the account without its strengthening.
LEMMA AccountImplies == AccountInv => RetriesAccounted
<1> SUFFICES ASSUME AccountInv PROVE RetriesAccounted
  OBVIOUS
<1> DEFINE rows(e) == {row \in errors : row.by = e /\ row.stage # "worker"}
           attempts(e) == {row.attempt : row \in {row \in rows(e) : row.retryable}}
<1>1. ASSUME NEW e \in Executions
      PROVE  /\ \/ attempts(e) = 1 .. attempt[e] - 1
                \/ /\ attempts(e) = 1 .. attempt[e]
                   /\ pc[e] \in {"delay", "raised", "reported", "stopped"}
             /\ pc[e] = "failed" => \E row \in rows(e) : ~row.retryable
             /\ \A row \in rows(e) : ~row.retryable =>
                  /\ pc[e] \in {"recorded", "failed", "raised", "reported", "stopped"}
                  /\ row.attempt = attempt[e]
                  /\ setup.provider = "openai" /\ row.stage = "extract"
                       /\ setup.document.parsing = "text" => row.attempt = MaxAttempts
             /\ (\E row \in errors : row.by = e /\ row.stage = "worker")
                  <=> pc[e] = "reported"
  <2>1. Accounted(e)
    BY DEF AccountInv
  <2>2. {row \in rows(e) : row.retryable}
          = {row \in errors : row.by = e /\ row.stage # "worker" /\ row.retryable}
    OBVIOUS
  <2>3. attempts(e) = Retried(e)
    BY <2>2 DEF Retried
  <2>4. \A row : row \in rows(e) /\ ~row.retryable <=> row \in Final(e)
    BY DEF Final
  <2>5. Workers(e) # {} <=> \E row \in errors : row.by = e /\ row.stage = "worker"
    BY DEF Workers
  <2> HIDE DEF rows, attempts
  <2> QED BY <2>1, <2>3, <2>4, <2>5 DEF Accounted, Broken, Late
<1> QED BY <1>1 DEF RetriesAccounted

\* No attempt has failed and no row is written at the start.
LEMMA InitAccount == Init => AccountInv
<1>1. 1 .. 1 - 1 = {}
  OBVIOUS
<1> QED
  BY <1>1 DEF Init, AccountInv, Accounted, Retried, Final, Workers, Broken

\* A row of one execution is in no other's account.
LEMMA RowElsewhere ==
  ASSUME NEW e, NEW row, row.by = e, errors' = errors \cup {row},
         NEW x, x # e
  PROVE  Retried(x)' = Retried(x) /\ Final(x)' = Final(x) /\ Workers(x)' = Workers(x)
<1>1. {r \in errors' : r.by = x /\ r.stage # "worker" /\ r.retryable}
        = {r \in errors : r.by = x /\ r.stage # "worker" /\ r.retryable}
  OBVIOUS
<1>2. Final(x)' = Final(x) /\ Workers(x)' = Workers(x)
  BY DEF Final, Workers
<1> QED BY <1>1, <1>2 DEF Retried

\* What an execution does without a row and without an attempt: it moves on, and
\* nobody else moves.
LEMMA QuietAccount ==
  ASSUME TypeOK, AccountInv, NEW e \in Executions, NEW from, NEW to,
         Goto(e, from, to), UNCHANGED <<setup, attempt, errors>>,
         to \notin {"recorded", "reported", "delay"}, from # "reported",
         from = "delay" => to \in Broken,
         from \in Broken => to \in Broken,
         from \in Late => to \in Late,
         to = "failed" => from = "recorded",
         to \in {"call", "retry"} => setup.document.parsing = "text",
         \A x \in Executions \ {e} : raised'[x] = raised[x],
         to = "failing" /\ raised'[e] = "extract" /\ setup.provider = "openai"
           /\ setup.document.parsing = "text" => attempt[e] = MaxAttempts
  PROVE  AccountInv'
<1>1. \A x \in Executions :
        Retried(x)' = Retried(x) /\ Final(x)' = Final(x) /\ Workers(x)' = Workers(x)
  BY DEF Retried, Final, Workers
<1>2. pc'[e] = to /\ pc[e] = from /\ \A x \in Executions \ {e} : pc'[x] = pc[x]
  BY DEF TypeOK, Goto
<1>3. Accounted(e)
  BY DEF AccountInv
<1>4. Accounted(e)'
  BY <1>1, <1>2, <1>3 DEF Accounted, Late, Broken
<1>5. ASSUME NEW x \in Executions \ {e} PROVE Accounted(x)'
  <2>1. Accounted(x)
    BY DEF AccountInv
  <2> QED BY <1>1, <1>2, <2>1 DEF Accounted
<1> QED BY <1>4, <1>5 DEF AccountInv

\* What an execution does with a row or with an attempt: its own account agrees
\* afterwards, and nobody else's is touched.
LEMMA OwnAccount ==
  ASSUME TypeOK, AccountInv, NEW e \in Executions, NEW to, pc' = [pc EXCEPT ![e] = to],
         UNCHANGED <<setup, raised>>,
         \A x \in Executions \ {e} : attempt'[x] = attempt[x],
         \/ errors' = errors
         \/ \E row : row.by = e /\ errors' = errors \cup {row},
         Accounted(e)'
  PROVE  AccountInv'
<1>1. ASSUME NEW x \in Executions \ {e} PROVE Accounted(x)'
  <2>1. Accounted(x) /\ pc'[x] = pc[x] /\ attempt'[x] = attempt[x]
    BY DEF AccountInv, TypeOK
  <2>2. Retried(x)' = Retried(x) /\ Final(x)' = Final(x) /\ Workers(x)' = Workers(x)
    <3>1. CASE errors' = errors
      BY <3>1 DEF Retried, Final, Workers
    <3>2. CASE \E row : row.by = e /\ errors' = errors \cup {row}
      BY <3>2, RowElsewhere
    <3> QED BY <3>1, <3>2
  <2> QED BY <2>1, <2>2 DEF Accounted
<1> QED BY <1>1 DEF AccountInv

\* Every step keeps attempts and rows in agreement.
LEMMA StepAccount == TypeOK /\ AccountInv /\ [Next]_vars => AccountInv'
<1> SUFFICES ASSUME TypeOK, AccountInv, [Next]_vars PROVE AccountInv'
  OBVIOUS
<1>0. CASE UNCHANGED vars
  BY <1>0 DEF vars, AccountInv, Accounted, Retried, Final, Workers
<1> SUFFICES ASSUME NEW e \in Executions, Start(e) \/ Handle(e) PROVE AccountInv'
  BY <1>0 DEF Next
<1> USE DEF Broken, Late
<1>1. Accounted(e)
  BY DEF AccountInv
<1>2. CASE Start(e)
  BY <1>2, QuietAccount DEF Start
<1>3. CASE Parse(e)
  <2>1. CASE setup.document.parsing = "text" /\ Goto(e, "parse", "call")
             /\ UNCHANGED <<setup, attempt, raised, result, record, findings, errors>>
    BY <2>1, QuietAccount
  <2>2. ASSUME NEW where, setup.document.parsing # "text", Raise(e, "parse", where)
        PROVE  AccountInv'
    BY <2>2, QuietAccount DEF Raise, TypeOK
  <2> QED BY <1>3, <2>1, <2>2 DEF Parse
<1>4. ASSUME NEW r, Return(e, r) PROVE AccountInv'
  BY <1>4, QuietAccount DEF Return
<1>5. ASSUME Raise(e, "call", "extract"),
             setup.provider = "openai" => attempt[e] = MaxAttempts
      PROVE  AccountInv'
  BY <1>5, QuietAccount DEF Raise, TypeOK
<1>6. CASE CallMock(e)
  BY <1>4, <1>5, <1>6 DEF CallMock
<1>7. CASE CallModel(e)
  <2>1. CASE \E r \in Answers : Return(e, r)
    BY <1>4, <2>1
  <2>2. CASE Exhausted(e) /\ Raise(e, "call", "extract")
    <3>1. attempt[e] = MaxAttempts
      BY <2>2, ReviewAssumption DEF Exhausted, TypeOK
    <3> QED BY <1>5, <2>2, <3>1
  <2>3. CASE Goto(e, "call", "retry")
             /\ UNCHANGED <<setup, attempt, raised, result, record, findings, errors>>
    <3>1. setup.document.parsing = "text"
      BY <1>1, <2>3 DEF Goto, Accounted
    <3> QED BY <2>3, <3>1, QuietAccount
  <2> QED BY <1>7, <2>1, <2>2, <2>3 DEF CallModel
<1>8. CASE RaisePipelineError(e)
  BY <1>8, QuietAccount DEF RaisePipelineError
<1>9. CASE SelectRecord(e)
  BY <1>9, QuietAccount DEF SelectRecord
<1>10. CASE InsertRecord(e)
  BY <1>10, QuietAccount DEF InsertRecord
<1>11. CASE CreateValidationErrors(e)
  BY <1>11, QuietAccount DEF CreateValidationErrors
<1>12. CASE ReturnResult(e)
  BY <1>12, QuietAccount DEF ReturnResult
<1>13. ASSUME NEW to \in {"raised", "stopped"}, pc[e] \notin Over,
              pc' = [pc EXCEPT ![e] = to],
              UNCHANGED <<setup, attempt, raised, result, record, findings, errors>>
       PROVE  AccountInv'
  BY <1>13, QuietAccount DEF Goto, Over
<1>14. CASE Break(e) \/ Stop(e)
  BY <1>13, <1>14 DEF Break, Stop
<1>15. CASE RecordRetry(e)
  <2> DEFINE row == ErrorRow(e, "extract", TRUE)
  <2>1. /\ row.by = e /\ row.retryable /\ row.attempt = attempt[e]
        /\ row.stage = "extract"
    BY DEF ErrorRow
  <2>2. /\ pc[e] = "retry" /\ pc' = [pc EXCEPT ![e] = "delay"] /\ pc'[e] = "delay"
        /\ errors' = errors \cup {row} /\ UNCHANGED <<setup, attempt, raised>>
    BY <1>15 DEF RecordRetry, Goto, TypeOK
  <2> HIDE DEF row
  <2>3. Final(e)' = Final(e) /\ Workers(e)' = Workers(e)
    BY <2>1, <2>2 DEF Final, Workers
  <2>4. Retried(e)' = Retried(e) \cup {attempt[e]}
    BY <2>1, <2>2 DEF Retried
  <2>5. Retried(e) = 1 .. attempt[e] - 1
    BY <1>1, <2>2 DEF Accounted
  <2>6. attempt[e] \in Nat \ {0}
    BY DEF TypeOK
  <2>7. (1 .. attempt[e] - 1) \cup {attempt[e]} = 1 .. attempt[e]
    BY <2>6
  <2>8. Accounted(e)'
    BY <1>1, <2>2, <2>3, <2>4, <2>5, <2>7 DEF Accounted
  <2> QED BY <2>1, <2>2, <2>8, OwnAccount
<1>16. CASE NextAttempt(e)
  <2>1. /\ pc[e] = "delay" /\ pc' = [pc EXCEPT ![e] = "call"] /\ pc'[e] = "call"
        /\ attempt[e] \in Nat /\ attempt'[e] = attempt[e] + 1
        /\ \A x \in Executions \ {e} : attempt'[x] = attempt[x]
        /\ UNCHANGED <<setup, raised, errors>>
    BY <1>16 DEF NextAttempt, Goto, TypeOK
  <2>2. Retried(e)' = Retried(e) /\ Final(e)' = Final(e) /\ Workers(e)' = Workers(e)
    BY <2>1 DEF Retried, Final, Workers
  <2>3. attempt'[e] - 1 = attempt[e]
    BY <2>1
  <2>4. Accounted(e)'
    BY <1>1, <2>1, <2>2, <2>3 DEF Accounted
  <2> QED BY <2>1, <2>4, OwnAccount
<1>17. CASE CreateExtractionError(e)
  <2> DEFINE row == ErrorRow(e, raised[e], FALSE)
  <2>1. /\ row.by = e /\ ~row.retryable /\ row.attempt = attempt[e]
        /\ row.stage = raised[e]
    BY DEF ErrorRow
  <2>2. /\ pc[e] = "failing" /\ pc' = [pc EXCEPT ![e] = "recorded"]
        /\ pc'[e] = "recorded" /\ raised[e] \in {"parse", "extract"}
        /\ errors' = errors \cup {row} /\ UNCHANGED <<setup, attempt, raised>>
    BY <1>17 DEF CreateExtractionError, Goto, TypeOK
  <2> HIDE DEF row
  <2>3. Retried(e)' = Retried(e) /\ Workers(e)' = Workers(e)
    <3>1. {r \in errors' : r.by = e /\ r.stage # "worker" /\ r.retryable}
            = {r \in errors : r.by = e /\ r.stage # "worker" /\ r.retryable}
      BY <2>1, <2>2
    <3> QED BY <2>1, <2>2, <3>1 DEF Retried, Workers
  <2>4. Final(e)' = Final(e) \cup {row} /\ Final(e) = {}
    BY <1>1, <2>1, <2>2 DEF Final, Accounted
  <2>5. Accounted(e)'
    BY <1>1, <2>1, <2>2, <2>3, <2>4 DEF Accounted
  <2> QED BY <2>1, <2>2, <2>5, OwnAccount
<1>18. CASE WorkerError(e)
  <2>1. PICK again \in BOOLEAN :
          errors' = errors \cup {[by |-> e, stage |-> "worker", retryable |-> again,
                                 attempt |-> JobAttempts[e]]}
    BY <1>18 DEF WorkerError
  <2> DEFINE row == [by |-> e, stage |-> "worker", retryable |-> again,
                     attempt |-> JobAttempts[e]]
  <2>2. row.by = e /\ row.stage = "worker"
    OBVIOUS
  <2>3. /\ pc[e] = "raised" /\ pc' = [pc EXCEPT ![e] = "reported"]
        /\ pc'[e] = "reported"
        /\ errors' = errors \cup {row} /\ UNCHANGED <<setup, attempt, raised>>
    BY <1>18, <2>1 DEF WorkerError, Goto, TypeOK
  <2> HIDE DEF row
  <2>4. Retried(e)' = Retried(e) /\ Final(e)' = Final(e)
    <3>1. {r \in errors' : r.by = e /\ r.stage # "worker" /\ r.retryable}
            = {r \in errors : r.by = e /\ r.stage # "worker" /\ r.retryable}
      BY <2>2, <2>3
    <3> QED BY <2>2, <2>3, <3>1 DEF Retried, Final
  <2>5. Workers(e)' # {}
    BY <2>2, <2>3 DEF Workers
  <2>6. Accounted(e)'
    BY <1>1, <2>3, <2>4, <2>5 DEF Accounted
  <2> QED BY <2>2, <2>3, <2>6, OwnAccount
<1> QED
  BY <1>2, <1>3, <1>6, <1>7, <1>8, <1>9, <1>10, <1>11, <1>12, <1>14, <1>15, <1>16, <1>17,
     <1>18
  DEF Handle

\* Every failed call of the model has its row in extraction_errors, and so has
\* every execution that ended in an exception: the pipeline's row before a
\* PipelineError, the worker's before the end of any other that is reported.
THEOREM EveryRetryAccounted == Spec => []RetriesAccounted
<1>1. Spec => []AccountInv
  BY InitAccount, StepAccount, ReviewTypeCorrect, PTL DEF Spec
<1> QED BY <1>1, AccountImplies, PTL

-------------------------------------------------------------------------------
(***************************************************************************)
(* What ExecutionsEnd rests on.                                            *)
(***************************************************************************)

\* The steps an execution can still take: a call, its row and its delay for every
\* attempt that is left, then six to the end.
Left(e) ==
  CASE pc[e] = "idle" -> 3 * MaxAttempts + 5
    [] pc[e] = "parse" -> 3 * MaxAttempts + 4
    [] pc[e] = "call" -> 3 * (MaxAttempts - attempt[e]) + 6
    [] pc[e] = "retry" -> 3 * (MaxAttempts - attempt[e]) + 5
    [] pc[e] = "delay" -> 3 * (MaxAttempts - attempt[e]) + 4
    [] pc[e] = "select" -> 5
    [] pc[e] = "insert" -> 4
    [] pc[e] \in {"validate", "failing"} -> 3
    [] pc[e] \in {"validated", "recorded"} -> 2
    [] pc[e] = "raised" -> 1
    [] OTHER -> 0

\* An execution that has ended has no step left, another has.
LEMMA LeftType ==
  ASSUME TypeOK, NEW e \in Executions
  PROVE  Left(e) \in Nat /\ (Left(e) = 0 <=> pc[e] \in Over)
<1> DEFINE p == pc[e]
           a == attempt[e]
<1>1. /\ p \in {"idle", "parse", "call", "retry", "delay", "failing", "recorded",
                 "select", "insert", "validate", "validated", "raised", "returned",
                 "failed", "reported", "stopped"}
      /\ a \in 1 .. MaxAttempts
  BY DEF TypeOK, Over
<1> HIDE DEF p, a
<1>2. MaxAttempts \in Nat \ {0}
  BY ReviewAssumption
<1> QED BY <1>1, <1>2 DEF Left, Over, p, a

\* Every step of an execution is one of those it had left.
LEMMA StepCounts ==
  ASSUME TypeOK, TypeOK', NEW e \in Executions, Start(e) \/ Handle(e)
  PROVE  Left(e)' < Left(e)
<1>1. /\ pc \in [Executions -> {"idle", "parse", "call", "retry", "delay", "failing",
                "recorded", "select", "insert", "validate", "validated", "raised",
                "returned", "failed", "reported", "stopped"}]
      /\ attempt[e] \in 1 .. MaxAttempts /\ MaxAttempts \in Nat \ {0}
      /\ attempt \in [Executions -> 1 .. MaxAttempts]
  BY ReviewAssumption DEF TypeOK, Over
<1>2. CASE Start(e)
  BY <1>1, <1>2 DEF Start, Goto, Left
<1>3. CASE Parse(e)
  BY <1>1, <1>3 DEF Parse, Raise, Goto, Left
<1>4. CASE CallMock(e) \/ CallModel(e)
  <2>1. /\ pc[e] = "call" /\ pc'[e] \in {"select", "failing", "retry"}
        /\ attempt' = attempt
    BY <1>1, <1>4 DEF CallMock, CallModel, Return, Raise, Goto
  <2> QED BY <1>1, <2>1 DEF Left
<1>5. CASE RecordRetry(e) \/ NextAttempt(e)
  <2>1. \/ pc[e] = "retry" /\ pc'[e] = "delay" /\ attempt' = attempt
        \/ pc[e] = "delay" /\ pc'[e] = "call" /\ attempt'[e] = attempt[e] + 1
    BY <1>1, <1>5 DEF RecordRetry, NextAttempt, Goto
  <2> QED BY <1>1, <2>1 DEF Left
<1>6. CASE CreateExtractionError(e) \/ RaisePipelineError(e) \/ SelectRecord(e)
             \/ InsertRecord(e) \/ CreateValidationErrors(e) \/ ReturnResult(e)
             \/ WorkerError(e)
  <2>1. \/ pc[e] = "failing" /\ pc'[e] = "recorded"
        \/ pc[e] = "recorded" /\ pc'[e] = "failed"
        \/ pc[e] = "select" /\ pc'[e] \in {"insert", "validate"}
        \/ pc[e] = "insert" /\ pc'[e] = "validate"
        \/ pc[e] = "validate" /\ pc'[e] = "validated"
        \/ pc[e] = "validated" /\ pc'[e] = "returned"
        \/ pc[e] = "raised" /\ pc'[e] = "reported"
    BY <1>1, <1>6 DEF CreateExtractionError, RaisePipelineError, SelectRecord, InsertRecord,
                      CreateValidationErrors, ReturnResult, WorkerError, Goto
  <2> QED BY <2>1 DEF Left
<1>7. CASE Break(e)
  <2>1. pc[e] \notin Over \cup {"idle", "raised"} /\ pc'[e] = "raised"
    BY <1>1, <1>7 DEF Break
  <2>2. Left(e) > 1
    BY <1>1, <2>1 DEF Left, Over
  <2>3. Left(e)' = 1
    BY <2>1 DEF Left
  <2>4. Left(e) \in Nat
    BY LeftType
  <2> HIDE DEF Left
  <2> QED BY <2>2, <2>3, <2>4
<1>8. CASE Stop(e)
  <2>1. pc[e] \notin Over /\ pc'[e] = "stopped"
    BY <1>1, <1>8 DEF Stop
  <2>2. Left(e) \in Nat /\ Left(e) # 0
    BY <2>1, LeftType
  <2>3. Left(e)' = 0
    BY <2>1 DEF Left
  <2> QED BY <2>2, <2>3
<1> QED BY <1>2, <1>3, <1>4, <1>5, <1>6, <1>7, <1>8 DEF Handle

\* run_document_pipeline and its retry_async (retry.py) cannot go round for ever,
\* whatever parser, provider and database answer and whichever executions run
\* next to each other: each step an execution takes is one of the at most
\* 3 * MaxAttempts + 5 it had at first, no step of another gives it one back, and
\* when none is left it is over.  With fairness this is why ExecutionsEnd.
THEOREM StepsCountDown ==
  Spec => /\ [](\A e \in Executions : Left(e) \in 0 .. 3 * MaxAttempts + 5
                                       /\ (Left(e) = 0 <=> pc[e] \in Over))
          /\ [][\E e \in Executions :
                  /\ Left(e)' < Left(e)
                  /\ \A f \in Executions \ {e} : Left(f)' = Left(f)]_vars
<1> DEFINE Bounded == \A e \in Executions : Left(e) \in 0 .. 3 * MaxAttempts + 5
                                            /\ (Left(e) = 0 <=> pc[e] \in Over)
           Counts == \E e \in Executions :
                       /\ Left(e)' < Left(e)
                       /\ \A f \in Executions \ {e} : Left(f)' = Left(f)
<1>1. TypeOK => Bounded
  <2> SUFFICES ASSUME TypeOK, NEW e \in Executions
               PROVE  /\ Left(e) \in 0 .. 3 * MaxAttempts + 5
                      /\ Left(e) = 0 <=> pc[e] \in Over
    OBVIOUS
  <2>1. attempt[e] \in 1 .. MaxAttempts /\ MaxAttempts \in Nat \ {0}
    BY ReviewAssumption DEF TypeOK
  <2>2. Left(e) <= 3 * MaxAttempts + 5
    BY <2>1 DEF Left
  <2>3. Left(e) \in Nat /\ (Left(e) = 0 <=> pc[e] \in Over)
    BY LeftType
  <2> HIDE DEF Left
  <2> QED BY <2>1, <2>2, <2>3
<1>2. TypeOK /\ TypeOK' /\ [Next]_vars => [Counts]_vars
  <2> SUFFICES ASSUME TypeOK, TypeOK', NEW e \in Executions, Start(e) \/ Handle(e)
               PROVE  Counts
    BY DEF Next
  <2>1. \A f \in Executions \ {e} : pc'[f] = pc[f] /\ attempt'[f] = attempt[f]
    BY DEF TypeOK, Start, Handle, Parse, CallMock, CallModel, Return, Raise, RecordRetry,
           NextAttempt, CreateExtractionError, RaisePipelineError, SelectRecord,
           InsertRecord, CreateValidationErrors, ReturnResult, Break, WorkerError, Stop,
           Goto
  <2>2. \A f \in Executions \ {e} : Left(f)' = Left(f)
    BY <2>1 DEF Left
  <2> QED BY <2>2, StepCounts
<1> QED BY <1>1, <1>2, ReviewTypeCorrect, PTL DEF Spec

===============================================================================
