-------------------------------- MODULE Workspace --------------------------------
(***************************************************************************)
(* The HTTP API around the pipeline: sessions and roles (app/auth), upload *)
(* (app/ingestion, routes/files.py), jobs, reports (routes/reports.py,     *)
(* app/reports), downloads, listings and the dashboard (app/analytics),    *)
(* over the tables of app/db and the object store of app/storage, for      *)
(* several tenants, next to the worker that commits results.               *)
(*                                                                         *)
(* A request is a sequence of statements and object accesses; between any  *)
(* two of them the others go on, and it may end (a crash, an exception, a  *)
(* client that left).  The queue behind the job's status is JobQueue; here *)
(* a handler is what one execution of a job commits, in its order.         *)
(***************************************************************************)
EXTENDS Naturals, Sequences, FiniteSets

CONSTANTS
  Tenants,      \* the workspaces, each of one organization
  NoTenant,     \* the NULL tenant of rows older than the tenant columns
  Users, TenantOf, RoleOf,   \* accounts, with their oldest membership
  MaxSessions,  \* bound: users with a valid token at a time
  Files, LegacyFiles,        \* ids of files; those that are there from before
  Jobs,
  Reports,
  Requests,     \* the requests the API processes work on at a time
  Backends,     \* settings.storage_backend: a subset of {"local", "s3"}
  None          \* NULL: no row, no object, no request

Owners == Tenants \cup {NoTenant}

Key == [space : Owners \cup {"reports"}, id : Files \cup Reports]

FileRow == [tenant : Owners, path : Key]

\* The part of a record or an error that says whose it is.
Origin == [file : Files, tenant : Owners]

Statuses == {"queued", "running", "completed", "failed"}

JobRow == [file : Files, tenant : Owners, status : Statuses]

ASSUME WorkspaceAssumption ==
  /\ NoTenant \notin Tenants
  /\ TenantOf \in [Users -> Tenants]
  /\ LegacyFiles \subseteq Files
  /\ None \notin Files \cup Reports \cup Origin \cup JobRow \cup FileRow

VARIABLES
  backend,    \* the storage backend in use
  sessions,   \* users with a token that is neither expired nor revoked
  objects,    \* the object store: stored objects with their contents
  files,      \* uploaded_files
  jobs,       \* processing_jobs
  records,    \* extracted_records, by their job
  findings,   \* validation_errors, by the job whose record they are about
  errors,     \* extraction_errors, by their job; the pipeline's and the worker's
  reports,    \* generated_reports; content is what the artifact was made of
  request,    \* request[q]: the request q, or None
  handler,    \* handler[j]: where the execution of job j is
  owed        \* jobs of a worker that has not written its own error row yet

vars == <<backend, sessions, objects, files, jobs, records, findings, errors,
          reports, request, handler, owed>>

tables == <<files, jobs, records, findings, errors, reports>>

Tables == {"files", "jobs", "records", "findings", "errors", "reports"}

\* What a listing, a report or the dashboard gets of a row; a finding has the
\* id of its record, and that is the id of the job it is unique for.
Row == [table : Tables, id : Files \cup Jobs \cup Reports, tenant : Owners]

-------------------------------------------------------------------------------
(***************************************************************************)
(* Roles and endpoints.                                                    *)
(***************************************************************************)

\* ROLE_PERMISSIONS
Granted ==
  [viewer  |-> {"analytics:read", "report:read"},
   analyst |-> {"analytics:read", "report:read", "report:write", "pipeline:write"},
   admin   |-> {"analytics:read", "report:read", "report:write", "pipeline:write",
                "audit:read"},
   owner   |-> {"analytics:read", "report:read", "report:write", "pipeline:write",
                "audit:read", "workspace:admin"}]

\* The permission each endpoint requires.
Needs ==
  [upload |-> "pipeline:write", extract |-> "pipeline:write", run |-> "pipeline:write",
   parsed |-> "pipeline:write", report |-> "report:write", download |-> "report:read",
   reports |-> "report:read", records |-> "analytics:read",
   findings |-> "analytics:read", dashboard |-> "analytics:read",
   errors |-> "audit:read"]

\* The tables an endpoint lists, one statement each, in this order.
Reads ==
  [k \in DOMAIN Needs |->
     IF k = "report" THEN <<"records", "findings">>
     ELSE IF k = "dashboard"
       THEN <<"files", "jobs", "records", "findings", "errors", "reports">>
     ELSE IF k \in Tables THEN <<k>> ELSE <<>>]

\* authenticate_user stores the hash of a new token.
Login(u) ==
  /\ Cardinality(sessions \cup {u}) <= MaxSessions
  /\ sessions' = sessions \cup {u}
  /\ UNCHANGED <<backend, objects, tables, request, handler, owed>>

\* The token's expires_at passes, or it is revoked.
Expire(u) ==
  /\ sessions' = sessions \ {u}
  /\ UNCHANGED <<backend, objects, tables, request, handler, owed>>

\* get_current_context and require_permission: the tenant is that of the
\* caller's membership and never an argument of the request.
Receive(q) ==
  /\ request[q] = None
  /\ \E u \in sessions, k \in DOMAIN Needs :
       /\ Needs[k] \in Granted[RoleOf[u]]
       /\ request' = [request EXCEPT ![q] =
            [kind |-> k, tenant |-> TenantOf[u], at |-> "start", subject |-> None,
             todo |-> Reads[k], rows |-> {}, known |-> {}]]
  /\ UNCHANGED <<backend, sessions, objects, tables, handler, owed>>

\* The answer, whatever it is, or the end of the process that works on it.
End(q) ==
  /\ request[q] # None
  /\ request' = [request EXCEPT ![q] = None]
  /\ UNCHANGED <<backend, sessions, objects, tables, handler, owed>>

\* q is at a step of one of the endpoints ks.
At(q, ks, step) ==
  /\ request[q] # None
  /\ request[q].kind \in ks
  /\ request[q].at = step
  /\ request[q].todo = <<>>

Go(q, step, subject) ==
  request' = [request EXCEPT ![q].at = step, ![q].subject = subject]

-------------------------------------------------------------------------------
(***************************************************************************)
(* Tenants.                                                                *)
(***************************************************************************)

\* Rows without a tenant are everybody's; a caller without one sees all.
is_tenant_match(owner, t) == t = NoTenant \/ owner \in {t, NoTenant}

RowsOf(table, content) ==
  {[table |-> table, id |-> i, tenant |-> content[i].tenant] :
     i \in {i \in DOMAIN content : content[i] # None}}

ErrorRows ==
  UNION {{[table |-> "errors", id |-> j, tenant |-> row.tenant] : row \in errors[j]} :
           j \in Jobs}

\* The rows of a table.
Stored(table) ==
  IF table = "errors" THEN ErrorRows
  ELSE RowsOf(table, [files |-> files, jobs |-> jobs, records |-> records,
                      findings |-> findings, reports |-> reports][table])

\* Mutant of apply_tenant_filter: a table no filter was written for.
apply_tenant_filter_Forgotten(table, t) ==
  {row \in Stored(table) : table = "findings" \/ is_tenant_match(row.tenant, t)}

\* What a listing of a table returns.
apply_tenant_filter(table, t) ==
  {row \in Stored(table) : is_tenant_match(row.tenant, t)}

-------------------------------------------------------------------------------
(***************************************************************************)
(* The object store.                                                       *)
(***************************************************************************)

\* Keys: one space per workspace for uploads, one for all reports.
artifact_key(t, f) == [space |-> t, id |-> f]

\* Mutant of report_key: all reports have one file name.
report_key_Fixed(r) == [space |-> "reports", id |-> "report"]

\* The file name is a fresh UUID.
report_key(r) == [space |-> "reports", id |-> r]

\* An id that was never drawn: every drawing of one stores an object.
Fresh(i) == \A o \in objects : o.uri.id # i

put_bytes(uri, content) ==
  objects' = {o \in objects : o.uri # uri} \cup {[uri |-> uri, content |-> content]}

\* A write that breaks off leaves nothing (S3) or a truncated file (local).
put_fails(uri) == backend = "local" /\ put_bytes(uri, None)

\* parse_file takes the storage path for a path of the local file system.
Readable(path) == backend = "local" /\ \E o \in objects : o.uri = path

-------------------------------------------------------------------------------
Init ==
  /\ backend \in Backends
  /\ sessions = {}
  /\ objects = {[uri |-> artifact_key(NoTenant, f), content |-> f] : f \in LegacyFiles}
  /\ files = [f \in Files |-> IF f \in LegacyFiles
       THEN [tenant |-> NoTenant, path |-> artifact_key(NoTenant, f)] ELSE None]
  /\ jobs \in [Jobs -> {None} \cup
       [file : LegacyFiles, tenant : {NoTenant}, status : {"queued"}]]
  /\ records = [j \in Jobs |-> None]
  /\ findings = [j \in Jobs |-> None]
  /\ errors = [j \in Jobs |-> {}]
  /\ reports = [r \in Reports |-> None]
  /\ request = [q \in Requests |-> None]
  /\ handler = [j \in Jobs |-> "idle"]
  /\ owed = {}

-------------------------------------------------------------------------------
(***************************************************************************)
(* Upload, and the jobs of a file.                                         *)
(***************************************************************************)

\* Mutant of StoreUpload: an error of the store is swallowed.
StoreUpload_Swallowed(q) ==
  /\ At(q, {"upload"}, "start")
  /\ \E f \in Files :
       LET uri == artifact_key(request[q].tenant, f)
       IN  /\ Fresh(f)
           /\ \/ put_bytes(uri, f) /\ Go(q, "stored", f)
              \/ put_fails(uri) /\ Go(q, "stored", None)
  /\ UNCHANGED <<backend, sessions, tables, handler, owed>>

\* store_upload: the bytes are read and checked before any effect, and
\* the object is stored under an id drawn for it.
StoreUpload(q) ==
  /\ At(q, {"upload"}, "start")
  /\ \E f \in Files :
       LET uri == artifact_key(request[q].tenant, f)
       IN  /\ Fresh(f)
           /\ \/ put_bytes(uri, f) /\ Go(q, "stored", f)
              \/ put_fails(uri) /\ request' = [request EXCEPT ![q] = None]
  /\ UNCHANGED <<backend, sessions, tables, handler, owed>>

\* create_uploaded_file: the row and its audit entry in one commit.
CreateUploadedFile(q) ==
  LET f == request[q].subject
      t == request[q].tenant
  IN  /\ At(q, {"upload"}, "stored")
      /\ files' = [files EXCEPT ![f] = [tenant |-> t, path |-> artifact_key(t, f)]]
      /\ request' = [request EXCEPT ![q] = None]
      /\ UNCHANGED <<backend, sessions, objects, jobs, records, findings, errors,
                     reports, handler, owed>>

\* get_uploaded_file: a file that is not there or not the caller's is a 404.
GetUploadedFile(q) ==
  /\ At(q, {"extract", "parsed"}, "start")
  /\ \E f \in Files :
       /\ files[f] # None
       /\ is_tenant_match(files[f].tenant, request[q].tenant)
       /\ Go(q, "found", f)
  /\ UNCHANGED <<backend, sessions, objects, tables, handler, owed>>

\* create_processing_job, from POST /jobs and POST /files/{id}/extract
CreateProcessingJob(q) ==
  /\ At(q, {"extract"}, "found")
  /\ \E j \in Jobs :
       /\ jobs[j] = None
       /\ jobs' = [jobs EXCEPT ![j] = [file |-> request[q].subject,
                                       tenant |-> request[q].tenant,
                                       status |-> "queued"]]
  /\ request' = [request EXCEPT ![q] = None]
  /\ UNCHANGED <<backend, sessions, objects, files, records, findings, errors, reports,
                 handler, owed>>

\* get_processing_job and request_job_run: a failed job is queued again (what
\* overlapping requests do to the row is JobQueue's).
RunJob(q) ==
  /\ At(q, {"run"}, "start")
  /\ \E j \in Jobs :
       /\ jobs[j] # None
       /\ is_tenant_match(jobs[j].tenant, request[q].tenant)
       /\ jobs[j].status \in {"queued", "failed"}
       /\ jobs' = [jobs EXCEPT ![j].status = "queued"]
  /\ request' = [request EXCEPT ![q] = None]
  /\ UNCHANGED <<backend, sessions, objects, files, records, findings, errors, reports,
                 handler, owed>>

-------------------------------------------------------------------------------
(***************************************************************************)
(* Listings, the dashboard, reports and downloads.                         *)
(***************************************************************************)

\* One SELECT of a listing, a report or the dashboard.  known (a ghost) is
\* every record there was when the records were read.
ReadTable(q) ==
  LET rq == request[q]
  IN  /\ rq # None /\ rq.todo # <<>>
      /\ request' = [request EXCEPT
           ![q].rows = rq.rows \cup apply_tenant_filter(Head(rq.todo), rq.tenant),
           ![q].todo = Tail(rq.todo),
           ![q].known = IF Head(rq.todo) = "records"
                          THEN {j \in Jobs : records[j] # None} ELSE @]
      /\ UNCHANGED <<backend, sessions, objects, tables, handler, owed>>

\* build_summary_report or build_records_csv_rows over what was read, then
\* write_json_report or write_csv_report
WriteArtifact(q) ==
  /\ At(q, {"report"}, "start")
  /\ \E r \in Reports :
       /\ Fresh(r)
       /\ \/ put_bytes(report_key(r), request[q].rows) /\ Go(q, "stored", r)
          \/ put_fails(report_key(r)) /\ request' = [request EXCEPT ![q] = None]
  /\ UNCHANGED <<backend, sessions, tables, handler, owed>>

\* create_generated_report: row and audit entry in one commit.
CreateGeneratedReport(q) ==
  LET r == request[q].subject
  IN  /\ At(q, {"report"}, "stored")
      /\ reports' = [reports EXCEPT ![r] =
           [tenant |-> request[q].tenant, path |-> report_key(r),
            content |-> request[q].rows]]
      /\ request' = [request EXCEPT ![q] = None]
      /\ UNCHANGED <<backend, sessions, objects, files, jobs, records, findings, errors,
                     handler, owed>>

\* Mutant of GetGeneratedReport: the id alone finds a report.
GetGeneratedReport_AnyTenant(q) ==
  /\ At(q, {"download"}, "start")
  /\ \E r \in Reports : reports[r] # None /\ Go(q, "found", r)
  /\ UNCHANGED <<backend, sessions, objects, tables, handler, owed>>

GetGeneratedReport(q) ==
  /\ At(q, {"download"}, "start")
  /\ \E r \in Reports :
       /\ reports[r] # None
       /\ is_tenant_match(reports[r].tenant, request[q].tenant)
       /\ Go(q, "found", r)
  /\ UNCHANGED <<backend, sessions, objects, tables, handler, owed>>

\* storage.exists and storage.read_bytes; a missing object is a 404.
ReadArtifact(q) ==
  /\ At(q, {"download"}, "found")
  /\ \E o \in objects :
       /\ o.uri = reports[request[q].subject].path
       /\ request' = [request EXCEPT ![q].at = "answered", ![q].rows = o.content]
  /\ UNCHANGED <<backend, sessions, objects, tables, handler, owed>>

-------------------------------------------------------------------------------
(***************************************************************************)
(* The worker: the commits of run_document_pipeline, with the tenant of    *)
(* the job it claimed.                                                     *)
(***************************************************************************)

Claim(j) ==
  /\ jobs[j] # None /\ jobs[j].status = "queued" /\ handler[j] = "idle"
  /\ jobs' = [jobs EXCEPT ![j].status = "running"]
  /\ handler' = [handler EXCEPT ![j] = "lookup"]
  /\ UNCHANGED <<backend, sessions, objects, files, records, findings, errors, reports,
                 request, owed>>

\* get_uploaded_file with the job's tenant, parse_file, the extractor.
FindSource(j) ==
  LET row == files[jobs[j].file]
  IN  /\ handler[j] = "lookup"
      /\ \E outcome \in {"extracted", "broken"} :
           handler' = [handler EXCEPT ![j] =
             IF ~is_tenant_match(row.tenant, jobs[j].tenant) THEN "failing"
             ELSE IF ~Readable(row.path) THEN "missing" ELSE outcome]
      /\ UNCHANGED <<backend, sessions, objects, tables, request, owed>>

\* create_extraction_error, from the except clause of the pipeline
RecordError(j) ==
  /\ handler[j] \in {"missing", "broken"}
  /\ errors' = [errors EXCEPT ![j] = @ \cup {[file |-> jobs[j].file,
                                             tenant |-> jobs[j].tenant]}]
  /\ handler' = [handler EXCEPT ![j] = "failing"]
  /\ UNCHANGED <<backend, sessions, objects, files, jobs, records, findings, reports,
                 request, owed>>

\* Mutant of CreateExtractedRecord: the record inherits the file's tenant.
CreateExtractedRecord_FileTenant(j) ==
  /\ handler[j] = "extracted"
  /\ records' = [records EXCEPT ![j] = [file |-> jobs[j].file,
                                        tenant |-> files[jobs[j].file].tenant]]
  /\ handler' = [handler EXCEPT ![j] = "recorded"]
  /\ UNCHANGED <<backend, sessions, objects, files, jobs, findings, errors, reports,
                 request, owed>>

CreateExtractedRecord(j) ==
  /\ handler[j] = "extracted"
  /\ records' = [records EXCEPT ![j] = [file |-> jobs[j].file,
                                        tenant |-> jobs[j].tenant]]
  /\ handler' = [handler EXCEPT ![j] = "recorded"]
  /\ UNCHANGED <<backend, sessions, objects, files, jobs, findings, errors, reports,
                 request, owed>>

\* The rules find something or nothing.
CreateValidationErrors(j) ==
  /\ handler[j] = "recorded"
  /\ findings' \in {findings, [findings EXCEPT ![j] = [tenant |-> jobs[j].tenant]]}
  /\ handler' = [handler EXCEPT ![j] = "returned"]
  /\ UNCHANGED <<backend, sessions, objects, files, jobs, records, errors, reports,
                 request, owed>>

\* Mutant of Outcomes: a handler that raised leaves a completed job.
Outcomes_Swallowed(j) ==
  IF handler[j] = "idle" THEN {}
  ELSE IF handler[j] \in {"returned", "failing"} THEN {"completed"}
  ELSE {"queued", "failed"}

\* complete_job; fail_job; or, after a crash, recover_expired_jobs.
Outcomes(j) ==
  IF handler[j] = "idle" THEN {}
  ELSE {"queued", "failed"} \cup {s \in {"completed"} : handler[j] = "returned"}

\* The row of create_extraction_error(stage="worker"): job and file, no tenant.
WorkerRow(j) == [file |-> jobs[j].file, tenant |-> NoTenant]

\* complete_job, fail_job or recover_expired_jobs.  After fail_job, run_once
\* writes an error row of its own, unless the exception was a PipelineError
\* ("failing"); any other may come at any step, after its commit too.  (A second
\* row like one that is there changes nothing here and is left out.)
Settle(j) ==
  /\ \E s \in Outcomes(j) :
       /\ jobs' = [jobs EXCEPT ![j].status = s]
       /\ \/ owed' = owed
          \/ s # "completed" /\ WorkerRow(j) \notin errors[j] /\ owed' = owed \cup {j}
  /\ handler' = [handler EXCEPT ![j] = "idle"]
  /\ UNCHANGED <<backend, sessions, objects, files, records, findings, errors, reports,
                 request>>

\* That commit comes after fail_job's: the job may have been claimed again since,
\* and a crash in between leaves no row.
WorkerError(j) ==
  /\ j \in owed
  /\ errors' = [errors EXCEPT ![j] = @ \cup {WorkerRow(j)}]
  /\ owed' = owed \ {j}
  /\ UNCHANGED <<backend, sessions, objects, files, jobs, records, findings, reports,
                 request, handler>>

-------------------------------------------------------------------------------
RequestStep(q) ==
  \/ Receive(q) \/ End(q)
  \/ StoreUpload(q) \/ CreateUploadedFile(q)
  \/ GetUploadedFile(q) \/ CreateProcessingJob(q) \/ RunJob(q)
  \/ ReadTable(q) \/ WriteArtifact(q) \/ CreateGeneratedReport(q)
  \/ GetGeneratedReport(q) \/ ReadArtifact(q)

HandlerStep(j) ==
  \/ Claim(j) \/ FindSource(j) \/ RecordError(j)
  \/ CreateExtractedRecord(j) \/ CreateValidationErrors(j) \/ Settle(j)
  \/ WorkerError(j)

Next ==
  \/ \E u \in Users : Login(u) \/ Expire(u)
  \/ \E q \in Requests : RequestStep(q)
  \/ \E j \in Jobs : HandlerStep(j)

Spec == Init /\ [][Next]_vars

-------------------------------------------------------------------------------
(***************************************************************************)
(* Properties.                                                             *)
(***************************************************************************)

\* What an object can hold; None is a truncated one.
Content == Files \cup (SUBSET Row) \cup {None}

RequestRow ==
  [kind : DOMAIN Needs, tenant : Tenants,
   at : {"start", "stored", "found", "answered"},
   subject : Files \cup Reports \cup {None}, todo : Seq(Tables), rows : SUBSET Row,
   known : SUBSET Jobs]

\* A request is at a step with the subject this step works on.
SubjectOK(rq) ==
  rq.subject \in IF rq.at = "start" THEN {None}
                 ELSE IF rq.kind \in {"upload", "extract", "parsed"} THEN Files ELSE Reports

\* No two objects have one key; a request's subject fits its step.
TypeOK ==
  /\ backend \in Backends
  /\ sessions \subseteq Users
  /\ objects \subseteq [uri : Key, content : Content]
  /\ \A o, p \in objects : o.uri = p.uri => o = p
  /\ files \in [Files -> {None} \cup FileRow]
  /\ jobs \in [Jobs -> {None} \cup JobRow]
  /\ records \in [Jobs -> {None} \cup Origin]
  /\ findings \in [Jobs -> {None} \cup [tenant : Owners]]
  /\ errors \in [Jobs -> SUBSET Origin]
  /\ reports \in [Reports -> {None} \cup
                    [tenant : Tenants, path : Key, content : SUBSET Row]]
  /\ request \in [Requests -> {None} \cup RequestRow]
  /\ \A q \in Requests : request[q] # None => SubjectOK(request[q])
  /\ handler \in [Jobs -> {"idle", "lookup", "missing", "broken", "extracted",
                           "recorded", "returned", "failing"}]
  /\ owed \subseteq Jobs

\* The object first, the row second (routes/files.py, routes/reports.py): an
\* upload or a report that breaks off between the two leaves an object without
\* a row, never a row whose object is missing, truncated, or another's.
RowsHaveObjects ==
  /\ \A f \in Files : files[f] # None =>
       [uri |-> files[f].path, content |-> f] \in objects
  /\ \A r \in Reports : reports[r] # None =>
       [uri |-> reports[r].path, content |-> reports[r].content] \in objects

\* What descends from a job is its job's: the file is of the job's tenant or of
\* none, the record and its findings carry file and tenant of the job, and each
\* error its file and its tenant or none, whoever uploaded, asked, or retried.
Lineage ==
  \A j \in Jobs :
    /\ jobs[j] # None =>
         /\ files[jobs[j].file] # None
         /\ files[jobs[j].file].tenant \in {jobs[j].tenant, NoTenant}
    /\ records[j] # None =>
         jobs[j] # None /\ records[j] = [file |-> jobs[j].file, tenant |-> jobs[j].tenant]
    /\ \A row \in errors[j] :
         /\ jobs[j] # None /\ row.file = jobs[j].file
         /\ row.tenant \in {jobs[j].tenant, NoTenant}
    /\ findings[j] # None =>
         records[j] # None /\ findings[j].tenant = records[j].tenant

\* Whose a row is by what it is about: its file's, its report's or its job's.
OwnerOf(row) ==
  CASE row.table = "files" -> files[row.id].tenant
    [] row.table = "reports" -> reports[row.id].tenant
    [] OTHER -> jobs[row.id].tenant

\* AI_POWERED_DATA_PIPELINE_IMPLEMENTATION_PLAN.md:571, "Tenant A cannot access
\* Tenant B data": what an answer holds, also what comes back with a report written
\* earlier, is of files, jobs and reports of the caller's tenant or of none.  The
\* error rows without a tenant are left to ErrorsWithinTenant.
AnswersWithinTenant ==
  \A q \in Requests : request[q] # None =>
    \A row \in request[q].rows :
      row.table # "errors" \/ row.tenant # NoTenant
        => OwnerOf(row) \in {request[q].tenant, NoTenant}

\* The same line of the plan, for every error row of an answer.
ErrorsWithinTenant ==
  \A q \in Requests : request[q] # None =>
    \A row \in request[q].rows :
      row.table = "errors" => OwnerOf(row) \in {request[q].tenant, NoTenant}

\* A report or the dashboard reads records and findings with two statements, so
\* a finding in it may be of a record that it does not list; but then that
\* record was committed while it was reading.
SnapshotsJoin ==
  \A q \in Requests : request[q] # None /\ request[q].kind \in {"report", "dashboard"} =>
    \A row \in request[q].rows : row.table = "findings" =>
      \/ [row EXCEPT !.table = "records"] \in request[q].rows
      \/ row.id \notin request[q].known

\* frontend/src/App.tsx:232-238 lists the records as soon as it sees a
\* completed job and reports an error when the job's is not among them: whoever
\* sees the job completed also sees its record.
CompletedJobShowsRecord ==
  \A j \in Jobs, t \in Tenants :
    /\ jobs[j] # None /\ jobs[j].status = "completed"
    /\ is_tenant_match(jobs[j].tenant, t)
    => \E row \in apply_tenant_filter("records", t) : row.id = j

\* routes/files.py, routes/reports.py, repositories.py:156-199: what was stored
\* stays as it was.  Once there is a row for an upload or a report, no other upload,
\* report, or write that breaks off, of any tenant, changes the row, removes its
\* object or puts other bytes under its key: a later parse or download gets what
\* was stored.  Nor does a retried job move its record to another file or tenant.
StoredForGood ==
  [][/\ \A f \in Files : files[f] # None =>
          files'[f] = files[f] /\ [uri |-> files[f].path, content |-> f] \in objects'
     /\ \A r \in Reports : reports[r] # None =>
          /\ reports'[r] = reports[r]
          /\ [uri |-> reports[r].path, content |-> reports[r].content] \in objects'
     /\ \A j \in Jobs : records[j] # None => records'[j] = records[j]]_vars

===============================================================================
