---------------------------- MODULE WorkspaceProofs ----------------------------
(***************************************************************************)
(* Theorems about Workspace, for any number of tenants, users, requests at *)
(* a time, jobs, files and reports, and any sequence of reads.             *)
(***************************************************************************)
EXTENDS Workspace, TLAPS

\* What holds of the request rq while it is at a step: what it has stored is
\* there and not yet named by a row; what it has found is there and its tenant's;
\* every record it knew of and may see is in what it has read, and every finding
\* it has read is of a record.
RequestInv(rq) ==
  /\ rq.at # "start" => rq.todo = <<>>
  /\ rq.at = "stored" => rq.kind \in {"upload", "report"}
  /\ rq.kind = "download" => rq.todo = <<>> /\ rq.known = {}
  /\ rq.kind = "upload" /\ rq.at = "stored" =>
       /\ files[rq.subject] = None
       /\ [uri |-> artifact_key(rq.tenant, rq.subject), content |-> rq.subject] \in objects
  /\ rq.kind = "report" /\ rq.at = "stored" =>
       /\ reports[rq.subject] = None
       /\ [uri |-> report_key(rq.subject), content |-> rq.rows] \in objects
  /\ rq.kind = "extract" /\ rq.at = "found" =>
       /\ files[rq.subject] # None
       /\ files[rq.subject].tenant \in {rq.tenant, NoTenant}
  /\ rq.kind = "download" /\ rq.at = "found" =>
       /\ reports[rq.subject] # None
       /\ reports[rq.subject].tenant = rq.tenant
  /\ \A j \in rq.known :
       /\ records[j] # None
       /\ is_tenant_match(records[j].tenant, rq.tenant)
            => [table |-> "records", id |-> j, tenant |-> records[j].tenant] \in rq.rows
  /\ rq.kind # "download" =>
       \A row \in rq.rows : row.table = "findings" =>
         row.id \in Jobs /\ records[row.id] # None /\ row.tenant = records[row.id].tenant

RequestsInv == \A q \in Requests : request[q] # None => RequestInv(request[q])

\* No two requests are about to name the same object.
StoredApart ==
  \A p, q \in Requests :
    /\ p # q /\ request[p] # None /\ request[q] # None
    /\ request[p].at = "stored" /\ request[q].at = "stored"
    => request[p].subject # request[q].subject

\* A file or report row names the object with its own id.
PathsHaveIds ==
  /\ \A f \in Files : files[f] # None => files[f].path.id = f
  /\ \A r \in Reports : reports[r] # None => reports[r].path.id = r

\* A row that t may see: it is t's or nobody's, of a file, report or job that is
\* there, and its tenant is the tenant of that; an error's may be missing.
Shown(row, t) ==
  /\ row.tenant \in {t, NoTenant}
  /\ row.table = "files" =>
       /\ row.id \in Files /\ files[row.id] # None
       /\ files[row.id].tenant = row.tenant
  /\ row.table = "reports" =>
       /\ row.id \in Reports /\ reports[row.id] # None
       /\ reports[row.id].tenant = row.tenant
  /\ row.table \notin {"files", "reports"} => row.id \in Jobs /\ jobs[row.id] # None
  /\ row.table \in {"jobs", "records", "findings"} => jobs[row.id].tenant = row.tenant
  /\ row.table = "errors" /\ row.tenant # NoTenant => jobs[row.id].tenant = row.tenant

\* A request and a report hold what their tenant may see.
AnswersShown ==
  \A q \in Requests : request[q] # None =>
    \A row \in request[q].rows : Shown(row, request[q].tenant)

ReportsShown ==
  \A r \in Reports : reports[r] # None =>
    \A row \in reports[r].content : Shown(row, reports[r].tenant)

\* A handler works on a job; it and a completed job have their record.
HandlersInv ==
  \A j \in Jobs :
    /\ handler[j] # "idle" \/ j \in owed => jobs[j] # None
    /\ handler[j] \in {"recorded", "returned"} => records[j] # None
    /\ jobs[j] # None /\ jobs[j].status = "completed" => records[j] # None

WorkspaceInv ==
  /\ TypeOK /\ RowsHaveObjects /\ Lineage /\ AnswersShown /\ SnapshotsJoin
  /\ RequestsInv /\ StoredApart /\ PathsHaveIds /\ ReportsShown /\ HandlersInv

-------------------------------------------------------------------------------
(***************************************************************************)
(* Constants and helpers.                                                  *)
(***************************************************************************)

\* The endpoints.
LEMMA Kinds ==
  DOMAIN Needs = {"upload", "extract", "run", "parsed", "report", "download", "reports",
                  "records", "findings", "dashboard", "errors"}
  BY DEF Needs

\* What an endpoint reads, if anything, is a sequence of tables.
LEMMA ReadsType ==
  ASSUME NEW k \in DOMAIN Needs
  PROVE  /\ Reads[k] \in Seq(Tables)
         /\ k \in {"upload", "extract", "run", "parsed", "download"} => Reads[k] = <<>>
<1>1. Reads[k] = IF k = "report" THEN <<"records", "findings">>
                 ELSE IF k = "dashboard"
                   THEN <<"files", "jobs", "records", "findings", "errors", "reports">>
                 ELSE IF k \in Tables THEN <<k>> ELSE <<>>
  BY DEF Reads
<1>2. /\ <<"records", "findings">> \in Seq(Tables)
      /\ <<"files", "jobs", "records", "findings", "errors", "reports">> \in Seq(Tables)
      /\ k \in Tables => <<k>> \in Seq(Tables)
      /\ <<>> \in Seq(Tables)
  BY DEF Tables
<1> QED BY <1>1, <1>2 DEF Tables

\* The rows of one table.
LEMMA RowsOfType ==
  ASSUME NEW table \in Tables, NEW content,
         DOMAIN content \subseteq Files \cup Jobs \cup Reports,
         \A i \in DOMAIN content : content[i] # None => content[i].tenant \in Owners
  PROVE  RowsOf(table, content) \in SUBSET Row
  BY DEF RowsOf, Row

\* Each table, as Stored picks it.
LEMMA StoredTables ==
  /\ Stored("files") = RowsOf("files", files)
  /\ Stored("jobs") = RowsOf("jobs", jobs)
  /\ Stored("records") = RowsOf("records", records)
  /\ Stored("findings") = RowsOf("findings", findings)
  /\ Stored("errors") = ErrorRows
  /\ Stored("reports") = RowsOf("reports", reports)
  BY DEF Stored

\* What any table holds are rows.
LEMMA StoredType ==
  ASSUME TypeOK, NEW table \in Tables
  PROVE  Stored(table) \in SUBSET Row
<1>1. Tenants \subseteq Owners
  BY DEF Owners
<1>2. /\ RowsOf("files", files) \in SUBSET Row
      /\ RowsOf("jobs", jobs) \in SUBSET Row
      /\ RowsOf("records", records) \in SUBSET Row
      /\ RowsOf("findings", findings) \in SUBSET Row
      /\ RowsOf("reports", reports) \in SUBSET Row
  BY <1>1, RowsOfType DEF TypeOK, Tables, Origin, JobRow, FileRow
<1>3. ErrorRows \in SUBSET Row
  BY DEF ErrorRows, TypeOK, Origin, Row, Tables
<1> QED BY <1>2, <1>3, StoredTables DEF Tables

-------------------------------------------------------------------------------
(***************************************************************************)
(* Types.                                                                  *)
(***************************************************************************)

\* The keys that uploads and reports are stored under.
LEMMA KeysType ==
  /\ \A t \in Owners, f \in Files : artifact_key(t, f) \in Key
  /\ \A r \in Reports : report_key(r) \in Key
  /\ Tenants \subseteq Owners
  BY DEF artifact_key, report_key, Key, Owners

\* The first state has its types, legacy files and jobs included.
LEMMA InitType == Init => TypeOK
<1> SUFFICES ASSUME Init PROVE TypeOK
  OBVIOUS
<1>1. LegacyFiles \subseteq Files /\ NoTenant \in Owners
  BY WorkspaceAssumption DEF Owners
<1>2. /\ objects \subseteq [uri : Key, content : Content]
      /\ \A o, p \in objects : o.uri = p.uri => o = p
  BY <1>1, KeysType DEF Init, artifact_key, Content
<1>3. files \in [Files -> {None} \cup FileRow]
  BY <1>1, KeysType DEF Init, FileRow
<1>4. jobs \in [Jobs -> {None} \cup JobRow]
  BY <1>1 DEF Init, Statuses, JobRow
<1> QED BY <1>2, <1>3, <1>4 DEF Init, TypeOK

\* A step that is a step of one request.
LEMMA PutType ==
  ASSUME TypeOK, NEW uri \in Key, NEW c \in Content,
         put_bytes(uri, c)
  PROVE  /\ objects' \subseteq [uri : Key, content : Content]
         /\ \A o, p \in objects' : o.uri = p.uri => o = p
  BY DEF TypeOK, put_bytes

\* The request that replaces another fits.
LEMMA RequestType ==
  ASSUME TypeOK, NEW q \in Requests, NEW rq \in {None} \cup RequestRow,
         rq # None => SubjectOK(rq), request' = [request EXCEPT ![q] = rq]
  PROVE  /\ request' \in [Requests -> {None} \cup RequestRow]
         /\ \A p \in Requests : request'[p] # None => SubjectOK(request'[p])
  BY DEF TypeOK

\* Go as a replacement of the whole request.
LEMMA GoType ==
  ASSUME TypeOK, NEW q \in Requests, request[q] # None,
         NEW step \in {"stored", "found", "answered"}, NEW subject, Go(q, step, subject),
         subject \in IF request[q].kind \in {"upload", "extract", "parsed"}
                       THEN Files ELSE Reports
  PROVE  /\ request' = [request EXCEPT ![q] =
              [request[q] EXCEPT !.at = step, !.subject = subject]]
         /\ [request[q] EXCEPT !.at = step, !.subject = subject] \in RequestRow
         /\ request' \in [Requests -> {None} \cup RequestRow]
         /\ \A p \in Requests : request'[p] # None => SubjectOK(request'[p])
<1> DEFINE rq == [request[q] EXCEPT !.at = step, !.subject = subject]
<1>1. request[q] \in RequestRow
  BY DEF TypeOK
<1>2. rq \in RequestRow
  BY <1>1 DEF RequestRow
<1>3. SubjectOK(rq)
  BY <1>1 DEF RequestRow, SubjectOK
<1>4. request' = [request EXCEPT ![q] = rq]
  BY <1>1 DEF Go, TypeOK
<1> HIDE DEF rq
<1>5. /\ request' \in [Requests -> {None} \cup RequestRow]
      /\ \A p \in Requests : request'[p] # None => SubjectOK(request'[p])
  BY <1>2, <1>3, <1>4, RequestType
<1> QED BY <1>2, <1>4, <1>5 DEF rq

\* What Go leaves of a request.
LEMMA GoEffect ==
  ASSUME TypeOK, NEW q \in Requests, request[q] # None, NEW step, NEW subject,
         Go(q, step, subject)
  PROVE  /\ request'[q].at = step /\ request'[q].subject = subject
         /\ request'[q].kind = request[q].kind /\ request'[q].tenant = request[q].tenant
         /\ request'[q].todo = request[q].todo /\ request'[q].rows = request[q].rows
         /\ request'[q].known = request[q].known
<1>1. request[q] \in RequestRow
  BY DEF TypeOK
<1>2. request'[q] = [request[q] EXCEPT !.at = step, !.subject = subject]
  BY <1>1 DEF Go, TypeOK
<1> QED BY <1>1, <1>2 DEF RequestRow

\* Requests and what they write.
LEMMA RequestStepType ==
  ASSUME WorkspaceInv, NEW q \in Requests, RequestStep(q)
  PROVE  TypeOK'
<1> USE DEF WorkspaceInv, TypeOK, tables, JobRow
<1>1. CASE Receive(q)
  <2>1. PICK u \in sessions, k \in DOMAIN Needs :
          request' = [request EXCEPT ![q] =
            [kind |-> k, tenant |-> TenantOf[u], at |-> "start", subject |-> None,
             todo |-> Reads[k], rows |-> {}, known |-> {}]]
    BY <1>1 DEF Receive
  <2> DEFINE rq == [kind |-> k, tenant |-> TenantOf[u], at |-> "start", subject |-> None,
                    todo |-> Reads[k], rows |-> {}, known |-> {}]
  <2>2. TenantOf[u] \in Tenants
    BY WorkspaceAssumption
  <2>3. rq \in RequestRow /\ SubjectOK(rq)
    BY <2>2, ReadsType DEF RequestRow, SubjectOK
  <2> HIDE DEF rq
  <2>4. /\ request' \in [Requests -> {None} \cup RequestRow]
        /\ \A p \in Requests : request'[p] # None => SubjectOK(request'[p])
    BY <2>1, <2>3, RequestType DEF rq
  <2> QED BY <1>1, <2>4 DEF Receive
<1>2. ASSUME request' = [request EXCEPT ![q] = None]
      PROVE  /\ request' \in [Requests -> {None} \cup RequestRow]
             /\ \A p \in Requests : request'[p] # None => SubjectOK(request'[p])
  BY <1>2, RequestType
<1>3. request[q] # None =>
        /\ request[q] \in RequestRow /\ SubjectOK(request[q])
        /\ request[q].tenant \in Tenants
        /\ request[q].rows \in SUBSET Row
  BY DEF RequestRow
<1>4. CASE End(q)
  BY <1>2, <1>4 DEF End
<1>5. CASE StoreUpload(q)
  <2>1. PICK f \in Files :
          LET uri == artifact_key(request[q].tenant, f)
          IN  \/ put_bytes(uri, f) /\ Go(q, "stored", f)
              \/ put_fails(uri) /\ request' = [request EXCEPT ![q] = None]
    BY <1>5 DEF StoreUpload
  <2>2. /\ request[q] # None /\ request[q].kind = "upload"
        /\ UNCHANGED <<backend, sessions, tables, handler, owed>>
    BY <1>5 DEF StoreUpload, At
  <2>3. artifact_key(request[q].tenant, f) \in Key
    BY <1>3, <2>2, KeysType
  <2>4. /\ objects' \subseteq [uri : Key, content : Content]
        /\ \A o, p \in objects' : o.uri = p.uri => o = p
    BY <2>1, <2>3, PutType DEF put_fails, Content
  <2>5. /\ request' \in [Requests -> {None} \cup RequestRow]
        /\ \A p \in Requests : request'[p] # None => SubjectOK(request'[p])
    BY <1>2, <2>1, <2>2, GoType
  <2> QED BY <2>2, <2>4, <2>5
<1>6. CASE CreateUploadedFile(q)
  <2>1. request[q].subject \in Files /\ request[q] # None
    BY <1>3, <1>6 DEF CreateUploadedFile, At, SubjectOK
  <2>2. [tenant |-> request[q].tenant,
         path |-> artifact_key(request[q].tenant, request[q].subject)]
          \in FileRow
    BY <1>3, <2>1, KeysType DEF FileRow
  <2> QED BY <1>2, <1>6, <2>1, <2>2 DEF CreateUploadedFile
<1>7. CASE GetUploadedFile(q)
  BY <1>7, GoType DEF GetUploadedFile, At
<1>8. CASE CreateProcessingJob(q)
  <2>1. request[q] # None /\ request[q].kind = "extract" /\ request[q].at = "found"
    BY <1>8 DEF CreateProcessingJob, At
  <2>2. request[q].subject \in Files
    BY <1>3, <2>1 DEF SubjectOK
  <2>3. [file |-> request[q].subject, tenant |-> request[q].tenant, status |-> "queued"]
          \in JobRow
    BY <1>3, <2>1, <2>2, KeysType DEF Statuses, JobRow
  <2> QED BY <1>2, <1>8, <2>3 DEF CreateProcessingJob
<1>9. CASE RunJob(q)
  BY <1>2, <1>9 DEF RunJob, Statuses
<1>10. CASE ReadTable(q)
  <2> DEFINE rq == [request[q] EXCEPT
               !.rows = request[q].rows
                          \cup apply_tenant_filter(Head(request[q].todo), request[q].tenant),
               !.todo = Tail(request[q].todo),
               !.known = IF Head(request[q].todo) = "records"
                           THEN {j \in Jobs : records[j] # None} ELSE @]
  <2>1. request[q] # None /\ request[q].todo # <<>> /\ request[q].todo \in Seq(Tables)
    BY <1>3, <1>10 DEF ReadTable, RequestRow
  <2>2. Head(request[q].todo) \in Tables /\ Tail(request[q].todo) \in Seq(Tables)
    BY <2>1
  <2>3. apply_tenant_filter(Head(request[q].todo), request[q].tenant) \in SUBSET Row
    BY <2>2, StoredType DEF apply_tenant_filter
  <2>4. rq \in RequestRow /\ SubjectOK(rq)
    BY <1>3, <2>1, <2>2, <2>3 DEF RequestRow, SubjectOK
  <2>5. request' = [request EXCEPT ![q] = rq]
    BY <1>3, <1>10, <2>1 DEF ReadTable, RequestRow
  <2> HIDE DEF rq
  <2>6. /\ request' \in [Requests -> {None} \cup RequestRow]
        /\ \A p \in Requests : request'[p] # None => SubjectOK(request'[p])
    BY <2>4, <2>5, RequestType
  <2> QED BY <1>10, <2>6 DEF ReadTable
<1>11. CASE WriteArtifact(q)
  <2>1. PICK r \in Reports :
          \/ put_bytes(report_key(r), request[q].rows) /\ Go(q, "stored", r)
          \/ put_fails(report_key(r)) /\ request' = [request EXCEPT ![q] = None]
    BY <1>11 DEF WriteArtifact
  <2>2. /\ request[q] # None /\ request[q].kind = "report"
        /\ UNCHANGED <<backend, sessions, tables, handler, owed>>
    BY <1>11 DEF WriteArtifact, At
  <2>3. report_key(r) \in Key /\ request[q].rows \in SUBSET Row
    BY <1>3, <2>2, KeysType
  <2>4. /\ objects' \subseteq [uri : Key, content : Content]
        /\ \A o, p \in objects' : o.uri = p.uri => o = p
    BY <2>1, <2>3, PutType DEF put_fails, Content
  <2>5. /\ request' \in [Requests -> {None} \cup RequestRow]
        /\ \A p \in Requests : request'[p] # None => SubjectOK(request'[p])
    BY <1>2, <2>1, <2>2, GoType
  <2> QED BY <2>2, <2>4, <2>5
<1>12. CASE CreateGeneratedReport(q)
  <2>1. request[q] # None /\ request[q].kind = "report" /\ request[q].at = "stored"
    BY <1>12 DEF CreateGeneratedReport, At
  <2>2. request[q].subject \in Reports
    BY <1>3, <2>1 DEF SubjectOK
  <2>3. [tenant |-> request[q].tenant, path |-> report_key(request[q].subject),
         content |-> request[q].rows]
          \in [tenant : Tenants, path : Key, content : SUBSET Row]
    BY <1>3, <2>1, <2>2, KeysType
  <2> QED BY <1>2, <1>12, <2>3 DEF CreateGeneratedReport
<1>13. CASE GetGeneratedReport(q)
  BY <1>13, GoType DEF GetGeneratedReport, At
<1>14. CASE ReadArtifact(q)
  <2>1. request[q] # None /\ request[q].kind = "download" /\ request[q].at = "found"
    BY <1>14 DEF ReadArtifact, At
  <2> DEFINE r == request[q].subject
  <2>2. r \in Reports /\ reports[r] # None
    BY <1>3, <2>1 DEF SubjectOK, RequestsInv, RequestInv
  <2>3. PICK o \in objects :
          /\ o.uri = reports[r].path
          /\ request' = [request EXCEPT ![q].at = "answered", ![q].rows = o.content]
    BY <1>14 DEF ReadArtifact
  <2>4. o.content = reports[r].content
    <3>1. [uri |-> reports[r].path, content |-> reports[r].content] \in objects
      BY <2>2 DEF RowsHaveObjects
    <3>2. o = [uri |-> reports[r].path, content |-> reports[r].content]
      BY <2>3, <3>1
    <3> QED BY <3>2
  <2>5. o.content \in SUBSET Row
    BY <2>2, <2>4
  <2> DEFINE rq == [request[q] EXCEPT !.at = "answered", !.rows = o.content]
  <2>6. rq \in RequestRow /\ SubjectOK(rq)
    BY <1>3, <2>1, <2>2, <2>5 DEF RequestRow, SubjectOK
  <2>7. request' = [request EXCEPT ![q] = rq]
    BY <1>3, <2>1, <2>3 DEF RequestRow
  <2> HIDE DEF rq
  <2>8. /\ request' \in [Requests -> {None} \cup RequestRow]
        /\ \A p \in Requests : request'[p] # None => SubjectOK(request'[p])
    BY <2>6, <2>7, RequestType
  <2> QED BY <1>14, <2>8 DEF ReadArtifact
<1> QED
  BY <1>1, <1>4, <1>5, <1>6, <1>7, <1>8, <1>9, <1>10, <1>11, <1>12, <1>13, <1>14
  DEF RequestStep

\* Handlers and what they commit.
LEMMA HandlerStepType ==
  ASSUME WorkspaceInv, NEW j \in Jobs, HandlerStep(j)
  PROVE  TypeOK'
<1> USE DEF WorkspaceInv, TypeOK, JobRow
<1>1. CASE Claim(j)
  BY <1>1 DEF Claim, Statuses
<1>2. CASE FindSource(j)
  BY <1>2 DEF FindSource, tables
<1>3. handler[j] # "idle" \/ j \in owed =>
        /\ [file |-> jobs[j].file, tenant |-> jobs[j].tenant]
             \in Origin
        /\ [tenant |-> jobs[j].tenant] \in [tenant : Owners]
        /\ WorkerRow(j) \in Origin
  BY DEF HandlersInv, Origin, WorkerRow, Owners
<1>4. CASE RecordError(j)
  BY <1>3, <1>4 DEF RecordError
<1>5. CASE CreateExtractedRecord(j)
  BY <1>3, <1>5 DEF CreateExtractedRecord
<1>6. CASE CreateValidationErrors(j)
  BY <1>3, <1>6 DEF CreateValidationErrors
<1>7. CASE Settle(j)
  <2>1. Outcomes(j) \subseteq Statuses
    BY DEF Outcomes, Statuses
  <2>2. handler[j] # "idle"
    BY <1>7 DEF Settle, Outcomes
  <2> QED BY <1>7, <2>1, <2>2 DEF Settle, HandlersInv
<1>8. CASE WorkerError(j)
  BY <1>3, <1>8 DEF WorkerError
<1> QED BY <1>1, <1>2, <1>4, <1>5, <1>6, <1>7, <1>8 DEF HandlerStep

-------------------------------------------------------------------------------
(***************************************************************************)
(* What is stored stays.                                                   *)
(***************************************************************************)

\* A write under an id that was never drawn takes nothing away.
LEMMA PutGrows ==
  ASSUME TypeOK, NEW uri, NEW c, Fresh(uri.id), put_bytes(uri, c)
  PROVE  objects \subseteq objects' /\ [uri |-> uri, content |-> c] \in objects'
  BY DEF Fresh, put_bytes

\* A job whose status is set stays what it is otherwise.
LEMMA JobUpdate ==
  ASSUME TypeOK, NEW j \in Jobs, jobs[j] # None, NEW s \in Statuses,
         jobs' = [jobs EXCEPT ![j].status = s]
  PROVE  /\ jobs'[j] # None
         /\ jobs'[j].file = jobs[j].file /\ jobs'[j].tenant = jobs[j].tenant
         /\ jobs'[j].status = s
         /\ \A i \in Jobs \ {j} : jobs'[i] = jobs[i]
<1>1. jobs[j] \in JobRow
  BY DEF TypeOK
<1>2. jobs'[j] = [jobs[j] EXCEPT !.status = s]
  BY DEF TypeOK
<1>3. jobs'[j] \in JobRow
  BY <1>1, <1>2 DEF JobRow
<1>4. jobs'[j] # None
  BY <1>3, WorkspaceAssumption
<1> QED BY <1>1, <1>2, <1>4 DEF TypeOK, JobRow

\* Objects, rows, and the tenants of jobs and records stay.
Grows ==
  /\ objects \subseteq objects'
  /\ \A f \in Files : files[f] # None => files'[f] = files[f]
  /\ \A r \in Reports : reports[r] # None => reports'[r] = reports[r]
  /\ \A j \in Jobs : jobs[j] # None =>
       jobs'[j] # None /\ jobs'[j].tenant = jobs[j].tenant
  /\ \A j \in Jobs : records[j] # None =>
       records'[j] # None /\ records'[j].tenant = records[j].tenant

\* What a tenant may see it may see for ever.
LEMMA ShownStable ==
  ASSUME Grows, NEW row, NEW t, Shown(row, t)
  PROVE  Shown(row, t)'
  BY DEF Grows, Shown

\* What a tenant reads of a table it may see.
LEMMA StoredShown ==
  ASSUME WorkspaceInv, NEW t \in Tenants, NEW table \in Tables,
         NEW row \in apply_tenant_filter(table, t)
  PROVE  Shown(row, t)
<1> USE DEF WorkspaceInv, TypeOK
<1>1. row \in Stored(table) /\ row.tenant \in {t, NoTenant}
  BY WorkspaceAssumption DEF apply_tenant_filter, is_tenant_match
<1>2. CASE table = "files"
  BY <1>1, <1>2, StoredTables DEF RowsOf, Shown
<1>3. CASE table = "reports"
  BY <1>1, <1>3, StoredTables DEF RowsOf, Shown
<1>4. CASE table = "jobs"
  BY <1>1, <1>4, StoredTables DEF RowsOf, Shown
<1>5. CASE table = "records"
  <2>1. PICK j \in Jobs : /\ records[j] # None
                          /\ row = [table |-> "records", id |-> j,
                                    tenant |-> records[j].tenant]
    BY <1>1, <1>5, StoredTables DEF RowsOf
  <2>2. jobs[j] # None /\ records[j].tenant = jobs[j].tenant
    BY <2>1 DEF Lineage
  <2> QED BY <1>1, <2>1, <2>2 DEF Shown
<1>6. CASE table = "findings"
  <2>1. PICK j \in Jobs : /\ findings[j] # None
                          /\ row = [table |-> "findings", id |-> j,
                                    tenant |-> findings[j].tenant]
    BY <1>1, <1>6, StoredTables DEF RowsOf
  <2>2. jobs[j] # None /\ findings[j].tenant = jobs[j].tenant
    BY <2>1 DEF Lineage
  <2> QED BY <1>1, <2>1, <2>2 DEF Shown
<1>7. CASE table = "errors"
  <2>1. PICK j \in Jobs : \E error \in errors[j] :
          row = [table |-> "errors", id |-> j, tenant |-> error.tenant]
    BY <1>1, <1>7, StoredTables DEF ErrorRows
  <2>2. jobs[j] # None /\ row.tenant \in {jobs[j].tenant, NoTenant}
    BY <2>1 DEF Lineage
  <2> QED BY <1>1, <2>1, <2>2 DEF Shown
<1> QED BY <1>2, <1>3, <1>4, <1>5, <1>6, <1>7 DEF Tables

\* What the steps of one request change of objects and rows.
LEMMA RequestGrows ==
  ASSUME WorkspaceInv, NEW q \in Requests, RequestStep(q)
  PROVE  /\ Grows
         /\ UNCHANGED <<records, findings, errors, handler, owed>>
         /\ \A p \in Requests \ {q} : request'[p] = request[p]
         /\ files' = files \/ CreateUploadedFile(q)
         /\ reports' = reports \/ CreateGeneratedReport(q)
<1> USE DEF WorkspaceInv, TypeOK, tables, Grows
<1>1. CASE Receive(q) \/ End(q)
  BY <1>1 DEF Receive, End
<1>2. CASE StoreUpload(q)
  <2>1. PICK f \in Files :
          /\ Fresh(f)
          /\ \/ put_bytes(artifact_key(request[q].tenant, f), f) /\ Go(q, "stored", f)
             \/ put_bytes(artifact_key(request[q].tenant, f), None)
                  /\ request' = [request EXCEPT ![q] = None]
    BY <1>2 DEF StoreUpload, put_fails
  <2>2. artifact_key(request[q].tenant, f).id = f
    BY DEF artifact_key
  <2>3. objects \subseteq objects'
    BY <2>1, <2>2, PutGrows
  <2> QED BY <1>2, <2>1, <2>3 DEF StoreUpload, Go
<1>3. CASE CreateUploadedFile(q)
  <2>1. files[request[q].subject] = None
    BY <1>3 DEF CreateUploadedFile, At, RequestsInv, RequestInv
  <2> QED BY <1>3, <2>1 DEF CreateUploadedFile
<1>4. CASE GetUploadedFile(q) \/ CreateProcessingJob(q)
  BY <1>4 DEF GetUploadedFile, CreateProcessingJob, Go
<1>8. CASE RunJob(q)
  <2>1. PICK j \in Jobs : jobs[j] # None /\ jobs' = [jobs EXCEPT ![j].status = "queued"]
    BY <1>8 DEF RunJob
  <2>2. \A i \in Jobs : jobs[i] # None => jobs'[i] # None /\ jobs'[i].tenant = jobs[i].tenant
    BY <2>1, JobUpdate DEF Statuses
  <2> QED BY <1>8, <2>2 DEF RunJob
<1>5. CASE ReadTable(q) \/ GetGeneratedReport(q) \/ ReadArtifact(q)
  BY <1>5 DEF ReadTable, GetGeneratedReport, ReadArtifact, Go
<1>6. CASE WriteArtifact(q)
  <2>1. PICK r \in Reports :
          /\ Fresh(r)
          /\ \/ put_bytes(report_key(r), request[q].rows) /\ Go(q, "stored", r)
             \/ put_bytes(report_key(r), None) /\ request' = [request EXCEPT ![q] = None]
    BY <1>6 DEF WriteArtifact, put_fails
  <2>2. report_key(r).id = r
    BY DEF report_key
  <2>3. objects \subseteq objects'
    BY <2>1, <2>2, PutGrows
  <2> QED BY <1>6, <2>1, <2>3 DEF WriteArtifact, Go
<1>7. CASE CreateGeneratedReport(q)
  <2>1. reports[request[q].subject] = None
    BY <1>7 DEF CreateGeneratedReport, At, RequestsInv, RequestInv
  <2> QED BY <1>7, <2>1 DEF CreateGeneratedReport
<1> QED BY <1>1, <1>2, <1>3, <1>4, <1>5, <1>6, <1>7, <1>8 DEF RequestStep

\* And what the handlers change of them.
LEMMA HandlerGrows ==
  ASSUME WorkspaceInv, NEW j \in Jobs, HandlerStep(j)
  PROVE  /\ Grows
         /\ UNCHANGED <<objects, files, reports, request>>
<1> USE DEF WorkspaceInv, TypeOK, tables, Grows
<1>1. CASE FindSource(j) \/ RecordError(j) \/ WorkerError(j)
  BY <1>1 DEF FindSource, RecordError, WorkerError
<1>4. ASSUME NEW s \in Statuses, jobs[j] # None, jobs' = [jobs EXCEPT ![j].status = s]
      PROVE  \A i \in Jobs : jobs[i] # None =>
               jobs'[i] # None /\ jobs'[i].tenant = jobs[i].tenant
  BY <1>4, JobUpdate
<1>5. CASE Claim(j)
  <2>1. \A i \in Jobs : jobs[i] # None => jobs'[i] # None /\ jobs'[i].tenant = jobs[i].tenant
    BY <1>4, <1>5 DEF Claim, Statuses
  <2> QED BY <1>5, <2>1 DEF Claim
<1>6. CASE Settle(j)
  <2>1. Outcomes(j) \subseteq Statuses /\ (Outcomes(j) # {} => jobs[j] # None)
    BY DEF Outcomes, Statuses, HandlersInv
  <2>2. \A i \in Jobs : jobs[i] # None => jobs'[i] # None /\ jobs'[i].tenant = jobs[i].tenant
    BY <1>4, <1>6, <2>1 DEF Settle
  <2> QED BY <1>6, <2>2 DEF Settle
<1>2. CASE CreateExtractedRecord(j)
  <2>1. records[j] # None => records[j].tenant = jobs[j].tenant
    BY DEF Lineage
  <2>2. handler[j] # "idle"
    BY <1>2 DEF CreateExtractedRecord
  <2>3. [file |-> jobs[j].file, tenant |-> jobs[j].tenant] # None
    BY <2>2, WorkspaceAssumption DEF HandlersInv, Origin, JobRow
  <2> QED BY <1>2, <2>1, <2>3 DEF CreateExtractedRecord
<1>3. CASE CreateValidationErrors(j)
  BY <1>3 DEF CreateValidationErrors
<1> QED BY <1>1, <1>2, <1>3, <1>5, <1>6 DEF HandlerStep

-------------------------------------------------------------------------------
(***************************************************************************)
(* Objects and rows.                                                       *)
(***************************************************************************)

\* A row is written for an object that its request has stored.
LEMMA StepRows ==
  ASSUME WorkspaceInv, NEW q \in Requests, RequestStep(q)
  PROVE  (RowsHaveObjects /\ PathsHaveIds /\ ReportsShown)'
<1> USE DEF WorkspaceInv, TypeOK
<1>1. Grows /\ (files' = files \/ CreateUploadedFile(q))
      /\ (reports' = reports \/ CreateGeneratedReport(q))
  BY RequestGrows
<1>2. ASSUME NEW f \in Files, files'[f] # None
      PROVE  [uri |-> files'[f].path, content |-> f] \in objects' /\ files'[f].path.id = f
  <2>1. CASE files'[f] = files[f]
    BY <1>1, <1>2, <2>1 DEF Grows, RowsHaveObjects, PathsHaveIds
  <2>2. CASE files'[f] # files[f]
    <3>1. /\ CreateUploadedFile(q) /\ request[q] # None /\ request[q].subject = f
          /\ files'[f].path = artifact_key(request[q].tenant, f)
      BY <1>1, <2>2 DEF CreateUploadedFile, At
    <3>2. [uri |-> artifact_key(request[q].tenant, f), content |-> f] \in objects
      BY <3>1 DEF CreateUploadedFile, At, RequestsInv, RequestInv
    <3> QED BY <1>1, <3>1, <3>2 DEF Grows, artifact_key
  <2> QED BY <2>1, <2>2
<1>3. ASSUME NEW r \in Reports, reports'[r] # None
      PROVE  /\ [uri |-> reports'[r].path, content |-> reports'[r].content] \in objects'
             /\ reports'[r].path.id = r
             /\ \A row \in reports'[r].content : Shown(row, reports[r].tenant)'
  <2>1. CASE reports'[r] = reports[r]
    <3>1. \A row \in reports[r].content : Shown(row, reports[r].tenant)
      BY <1>3, <2>1 DEF ReportsShown
    <3>2. ASSUME NEW row \in reports'[r].content PROVE Shown(row, reports[r].tenant)'
      <4> DEFINE t == reports[r].tenant
      <4>1. Shown(row, t) /\ t' = t
        BY <2>1, <3>1
      <4> QED BY <1>1, <2>1, <4>1, ShownStable DEF Shown
    <3> QED BY <1>1, <1>3, <2>1, <3>2 DEF Grows, RowsHaveObjects, PathsHaveIds
  <2>2. CASE reports'[r] # reports[r]
    <3>1. /\ CreateGeneratedReport(q) /\ request[q] # None /\ request[q].subject = r
          /\ reports'[r] = [tenant |-> request[q].tenant, path |-> report_key(r),
                            content |-> request[q].rows]
      BY <1>1, <2>2 DEF CreateGeneratedReport, At
    <3>2. [uri |-> report_key(r), content |-> request[q].rows] \in objects
      BY <3>1 DEF CreateGeneratedReport, At, RequestsInv, RequestInv
    <3>3. ASSUME NEW row \in reports'[r].content PROVE Shown(row, reports[r].tenant)'
      <4>1. Shown(row, request[q].tenant) /\ reports'[r].tenant = request[q].tenant
        BY <3>1 DEF AnswersShown
      <4> QED BY <1>1, <4>1, ShownStable DEF Shown
    <3> QED BY <1>1, <3>1, <3>2, <3>3 DEF Grows, report_key
  <2> QED BY <2>1, <2>2
<1> QED BY <1>2, <1>3 DEF RowsHaveObjects, PathsHaveIds, ReportsShown

\* A pending object has the id of the request's subject.
LEMMA PendingObject ==
  ASSUME WorkspaceInv, NEW p \in Requests, request[p] # None, request[p].at = "stored"
  PROVE  \E o \in objects : o.uri.id = request[p].subject
<1>1. RequestInv(request[p])
  BY DEF WorkspaceInv, RequestsInv
<1> QED BY <1>1 DEF RequestInv, artifact_key, report_key

\* An id that is drawn is in no row and in no other request.
LEMMA StepStoredApart ==
  ASSUME WorkspaceInv, NEW q \in Requests, RequestStep(q)
  PROVE  StoredApart'
<1> USE DEF WorkspaceInv, TypeOK
<1>1. \A p \in Requests \ {q} : request'[p] = request[p]
  BY RequestGrows
<1>2. ASSUME request'[q] # None, request'[q].at = "stored",
             ~(request[q] # None /\ request[q].at = "stored"
                 /\ request[q].subject = request'[q].subject)
      PROVE  Fresh(request'[q].subject)
  <2>1. CASE Receive(q) \/ End(q)
    BY <1>2, <2>1 DEF Receive, End
  <2>2. CASE StoreUpload(q)
    <3>1. request[q] # None /\ request[q].kind = "upload"
      BY <2>2 DEF StoreUpload, At
    <3>2. PICK f \in Files : Fresh(f) /\ Go(q, "stored", f)
      BY <1>2, <2>2 DEF StoreUpload
    <3>3. request'[q].subject = f
      BY <3>1, <3>2, GoEffect
    <3> QED BY <3>2, <3>3
  <2>3. CASE WriteArtifact(q)
    <3>1. request[q] # None /\ request[q].kind = "report"
      BY <2>3 DEF WriteArtifact, At
    <3>2. PICK r \in Reports : Fresh(r) /\ Go(q, "stored", r)
      BY <1>2, <2>3 DEF WriteArtifact
    <3>3. request'[q].subject = r
      BY <3>1, <3>2, GoEffect
    <3> QED BY <3>2, <3>3
  <2>4. CASE GetUploadedFile(q) \/ GetGeneratedReport(q) \/ ReadArtifact(q)
    BY <1>2, <2>4 DEF GetUploadedFile, GetGeneratedReport, ReadArtifact, Go, At, RequestRow
  <2>5. CASE CreateUploadedFile(q) \/ CreateProcessingJob(q) \/ RunJob(q)
               \/ CreateGeneratedReport(q)
    BY <1>2, <2>5 DEF CreateUploadedFile, CreateProcessingJob, RunJob, CreateGeneratedReport
  <2>6. CASE ReadTable(q)
    BY <1>2, <2>6 DEF ReadTable, RequestRow
  <2> QED BY <2>1, <2>2, <2>3, <2>4, <2>5, <2>6 DEF RequestStep
<1>3. ASSUME NEW p \in Requests \ {q}, request[p] # None, request[p].at = "stored",
             request'[q] # None, request'[q].at = "stored"
      PROVE  request[p].subject # request'[q].subject
  BY <1>2, <1>3, PendingObject DEF Fresh, StoredApart
<1> QED BY <1>1, <1>3 DEF StoredApart

-------------------------------------------------------------------------------
(***************************************************************************)
(* Requests.                                                               *)
(***************************************************************************)

\* What a request relies on is not undone by a step that leaves it alone.
LEMMA RequestStable ==
  ASSUME WorkspaceInv, Grows, NEW p \in Requests, request[p] # None,
         request'[p] = request[p],
         request[p].at = "stored" =>
           /\ request[p].kind = "upload"
                => files'[request[p].subject] = files[request[p].subject]
           /\ request[p].kind = "report"
                => reports'[request[p].subject] = reports[request[p].subject]
  PROVE  RequestInv(request[p])'
<1>1. request[p] \in RequestRow /\ SubjectOK(request[p]) /\ RequestInv(request[p])
  BY DEF WorkspaceInv, TypeOK, RequestsInv
<1>2. \A j \in request[p].known : j \in Jobs
  BY <1>1 DEF RequestRow
<1>3. request[p].kind = "extract" /\ request[p].at = "found" => request[p].subject \in Files
  BY <1>1 DEF SubjectOK
<1>4. request[p].kind = "download" /\ request[p].at = "found" => request[p].subject \in Reports
  BY <1>1 DEF SubjectOK
<1> QED
  BY <1>1, <1>2, <1>3, <1>4
  DEF RequestInv, Grows, artifact_key, report_key, is_tenant_match

\* A step of one request leaves what the others rely on.
LEMMA OthersStable ==
  ASSUME WorkspaceInv, NEW q \in Requests, RequestStep(q),
         NEW p \in Requests \ {q}, request'[p] # None
  PROVE  RequestInv(request[p])'
<1>1. /\ Grows /\ request'[p] = request[p]
      /\ files' = files \/ CreateUploadedFile(q)
      /\ reports' = reports \/ CreateGeneratedReport(q)
  BY RequestGrows
<1>2. ASSUME request[p].at = "stored", request[q] # None, request[q].at = "stored"
      PROVE  request[p].subject # request[q].subject
  BY <1>1, <1>2 DEF WorkspaceInv, StoredApart
<1>3. request[p] \in RequestRow /\ SubjectOK(request[p]) /\ RequestInv(request[p])
  BY <1>1 DEF WorkspaceInv, TypeOK, RequestsInv
<1>4. request[p].at = "stored" /\ request[p].kind = "upload"
        => files'[request[p].subject] = files[request[p].subject]
  <2>1. CASE CreateUploadedFile(q)
    <3>1. /\ request[q] # None /\ request[q].at = "stored"
          /\ \A f \in Files \ {request[q].subject} : files'[f] = files[f]
      BY <2>1 DEF CreateUploadedFile, At, WorkspaceInv, TypeOK
    <3> QED BY <1>2, <1>3, <3>1 DEF SubjectOK
  <2> QED BY <1>1, <2>1
<1>5. request[p].at = "stored" /\ request[p].kind = "report"
        => reports'[request[p].subject] = reports[request[p].subject]
  <2>1. CASE CreateGeneratedReport(q)
    <3>1. /\ request[q] # None /\ request[q].at = "stored"
          /\ \A r \in Reports \ {request[q].subject} : reports'[r] = reports[r]
      BY <2>1 DEF CreateGeneratedReport, At, WorkspaceInv, TypeOK
    <3> QED BY <1>2, <1>3, <3>1 DEF SubjectOK
  <2> QED BY <1>1, <2>1
<1> QED BY <1>1, <1>4, <1>5, RequestStable

\* A finding that is read is of a record, with its tenant.
LEMMA FindingRows ==
  ASSUME WorkspaceInv, NEW table \in Tables, NEW t,
         NEW row \in apply_tenant_filter(table, t), row.table = "findings"
  PROVE  /\ table = "findings"
         /\ row.id \in Jobs /\ records[row.id] # None
         /\ row.tenant = records[row.id].tenant /\ is_tenant_match(row.tenant, t)
<1>1. row \in Stored(table) /\ is_tenant_match(row.tenant, t)
  BY DEF apply_tenant_filter
<1>2. table = "findings"
  BY <1>1, StoredTables DEF RowsOf, ErrorRows, Tables
<1>3. PICK j \in Jobs : /\ findings[j] # None
                        /\ row = [table |-> "findings", id |-> j, tenant |-> findings[j].tenant]
  BY <1>1, <1>2, StoredTables DEF RowsOf, WorkspaceInv, TypeOK
<1> QED BY <1>1, <1>2, <1>3 DEF WorkspaceInv, Lineage

\* What the step of a request leaves of it.
LEMMA OwnStable ==
  ASSUME WorkspaceInv, NEW q \in Requests, RequestStep(q), request'[q] # None
  PROVE  RequestInv(request[q])'
<1> USE DEF WorkspaceInv, TypeOK
<1> DEFINE rq == request[q]
<1>1. CASE Receive(q)
  <2>1. PICK u \in sessions, k \in DOMAIN Needs :
          request'[q] =
            [kind |-> k, tenant |-> TenantOf[u], at |-> "start", subject |-> None,
             todo |-> Reads[k], rows |-> {}, known |-> {}]
    BY <1>1 DEF Receive
  <2> QED BY <2>1, ReadsType DEF RequestInv
<1>2. rq # None => rq \in RequestRow /\ RequestInv(rq)
  BY DEF RequestsInv
<1>3. CASE StoreUpload(q)
  <2>1. rq # None /\ rq.kind = "upload" /\ rq.at = "start" /\ rq.todo = <<>>
    BY <1>3 DEF StoreUpload, At
  <2>2. PICK f \in Files : /\ Fresh(f) /\ Go(q, "stored", f)
                           /\ put_bytes(artifact_key(rq.tenant, f), f)
    BY <1>3 DEF StoreUpload
  <2>3. /\ request'[q].at = "stored" /\ request'[q].subject = f
        /\ request'[q].kind = "upload" /\ request'[q].tenant = rq.tenant
        /\ request'[q].todo = <<>> /\ request'[q].known = rq.known
        /\ request'[q].rows = rq.rows /\ records' = records
    BY <1>3, <2>1, <2>2, GoEffect DEF StoreUpload, tables
  <2>4. artifact_key(rq.tenant, f).id = f
    BY DEF artifact_key
  <2>5. [uri |-> artifact_key(rq.tenant, f), content |-> f] \in objects'
    BY <2>2, <2>4, PutGrows
  <2>6. files'[f] = None
    <3>1. files' = files
      BY <1>3 DEF StoreUpload, tables
    <3>2. \A o \in objects : o.uri.id # f
      BY <2>2 DEF Fresh
    <3>3. files[f] # None => [uri |-> files[f].path, content |-> f] \in objects
                              /\ files[f].path.id = f
      BY DEF RowsHaveObjects, PathsHaveIds
    <3> QED BY <3>1, <3>2, <3>3
  <2> QED
    BY <1>2, <2>1, <2>3, <2>5, <2>6 DEF RequestInv, artifact_key, is_tenant_match
<1>4. CASE GetUploadedFile(q)
  <2>1. /\ rq # None /\ rq.kind \in {"extract", "parsed"} /\ rq.todo = <<>>
        /\ files' = files /\ records' = records
    BY <1>4 DEF GetUploadedFile, At, tables
  <2>2. PICK f \in Files : /\ files[f] # None /\ is_tenant_match(files[f].tenant, rq.tenant)
                           /\ Go(q, "found", f)
    BY <1>4 DEF GetUploadedFile
  <2>3. /\ request'[q].at = "found" /\ request'[q].subject = f
        /\ request'[q].kind = rq.kind /\ request'[q].tenant = rq.tenant
        /\ request'[q].todo = <<>> /\ request'[q].known = rq.known
        /\ request'[q].rows = rq.rows
    BY <2>1, <2>2, GoEffect
  <2>4. files[f].tenant \in {rq.tenant, NoTenant}
    BY <1>2, <2>1, <2>2, WorkspaceAssumption DEF is_tenant_match, RequestRow
  <2> QED BY <1>2, <2>1, <2>2, <2>3, <2>4 DEF RequestInv, is_tenant_match
<1>5. CASE ReadTable(q)
  <2> DEFINE table == Head(rq.todo)
             read == rq.rows \cup apply_tenant_filter(table, rq.tenant)
  <2>1. rq # None /\ rq.todo # <<>> /\ rq.at = "start"
    BY <1>2, <1>5 DEF ReadTable, RequestInv
  <2>2. /\ request'[q].at = "start" /\ request'[q].kind = rq.kind
        /\ request'[q].tenant = rq.tenant /\ request'[q].rows = read
        /\ request'[q].known = IF table = "records" THEN {j \in Jobs : records[j] # None}
                               ELSE rq.known
        /\ records' = records
    BY <1>2, <1>5, <2>1 DEF ReadTable, RequestRow, tables
  <2>3. ASSUME table = "records", NEW j \in Jobs, records[j] # None,
               is_tenant_match(records[j].tenant, rq.tenant)
        PROVE  [table |-> "records", id |-> j, tenant |-> records[j].tenant] \in read
    BY <2>3, StoredTables DEF apply_tenant_filter, RowsOf
  <2>4. rq.kind # "download"
    BY <1>2, <2>1 DEF RequestInv
  <2>5. ASSUME NEW j \in request'[q].known
        PROVE  /\ records'[j] # None
               /\ is_tenant_match(records'[j].tenant, request'[q].tenant)
                    => [table |-> "records", id |-> j, tenant |-> records'[j].tenant]
                         \in request'[q].rows
    BY <1>2, <2>1, <2>2, <2>3 DEF RequestInv
  <2>6. ASSUME NEW row \in request'[q].rows, row.table = "findings"
        PROVE  /\ row.id \in Jobs /\ records'[row.id] # None
               /\ row.tenant = records'[row.id].tenant
    <3>1. row \in rq.rows \/ row \in apply_tenant_filter(table, rq.tenant)
      BY <2>2, <2>6
    <3>2. rq.todo \in Seq(Tables)
      BY <1>2, <2>1 DEF RequestRow
    <3>3. table \in Tables
      BY <2>1, <3>2
    <3>4. CASE row \in rq.rows
      BY <1>2, <2>1, <2>2, <2>4, <2>6, <3>4 DEF RequestInv
    <3>5. CASE row \in apply_tenant_filter(table, rq.tenant)
      <4> HIDE DEF table
      <4> QED BY <2>2, <2>6, <3>3, <3>5, FindingRows
    <3> QED BY <3>1, <3>4, <3>5
  <2> HIDE DEF read
  <2> QED BY <1>2, <2>1, <2>2, <2>4, <2>5, <2>6 DEF RequestInv
<1>6. CASE WriteArtifact(q)
  <2>1. rq # None /\ rq.kind = "report" /\ rq.at = "start" /\ rq.todo = <<>>
    BY <1>6 DEF WriteArtifact, At
  <2>2. PICK r \in Reports : /\ Fresh(r) /\ Go(q, "stored", r)
                             /\ put_bytes(report_key(r), rq.rows)
    BY <1>6 DEF WriteArtifact
  <2>3. /\ request'[q].at = "stored" /\ request'[q].subject = r
        /\ request'[q].kind = "report" /\ request'[q].tenant = rq.tenant
        /\ request'[q].todo = <<>> /\ request'[q].known = rq.known
        /\ request'[q].rows = rq.rows
    BY <2>1, <2>2, GoEffect
  <2>4. report_key(r).id = r
    BY DEF report_key
  <2>5. [uri |-> report_key(r), content |-> rq.rows] \in objects'
    BY <2>2, <2>4, PutGrows
  <2>6. reports'[r] = None /\ records' = records
    <3>1. reports' = reports /\ records' = records
      BY <1>6 DEF WriteArtifact, tables
    <3>2. \A o \in objects : o.uri.id # r
      BY <2>2 DEF Fresh
    <3>3. reports[r] # None => [uri |-> reports[r].path, content |-> reports[r].content]
                                 \in objects /\ reports[r].path.id = r
      BY DEF RowsHaveObjects, PathsHaveIds
    <3> QED BY <3>1, <3>2, <3>3
  <2> QED BY <1>2, <2>1, <2>3, <2>5, <2>6 DEF RequestInv, report_key, is_tenant_match
<1>7. CASE GetGeneratedReport(q)
  <2>1. /\ rq # None /\ rq.kind = "download" /\ rq.todo = <<>> /\ reports' = reports
    BY <1>7 DEF GetGeneratedReport, At, tables
  <2>2. PICK r \in Reports : /\ reports[r] # None
                             /\ is_tenant_match(reports[r].tenant, rq.tenant)
                             /\ Go(q, "found", r)
    BY <1>7 DEF GetGeneratedReport
  <2>3. /\ request'[q].at = "found" /\ request'[q].subject = r
        /\ request'[q].kind = rq.kind /\ request'[q].tenant = rq.tenant
        /\ request'[q].todo = <<>> /\ request'[q].known = {}
    BY <1>2, <2>1, <2>2, GoEffect DEF RequestInv
  <2>4. reports[r].tenant = rq.tenant
    BY <1>2, <2>1, <2>2, WorkspaceAssumption DEF is_tenant_match, RequestRow
  <2> QED BY <2>1, <2>2, <2>3, <2>4 DEF RequestInv
<1>8. CASE ReadArtifact(q)
  <2>1. rq # None /\ rq.kind = "download" /\ rq.todo = <<>>
    BY <1>8 DEF ReadArtifact, At
  <2>2. /\ request'[q].at = "answered" /\ request'[q].kind = "download"
        /\ request'[q].todo = <<>> /\ request'[q].known = {}
    BY <1>2, <1>8, <2>1 DEF ReadArtifact, RequestRow, RequestInv
  <2> QED BY <2>2 DEF RequestInv
<1>9. CASE End(q) \/ CreateUploadedFile(q) \/ CreateProcessingJob(q) \/ RunJob(q)
             \/ CreateGeneratedReport(q)
  BY <1>9 DEF End, CreateUploadedFile, CreateProcessingJob, RunJob, CreateGeneratedReport
<1> QED
  BY <1>1, <1>3, <1>4, <1>5, <1>6, <1>7, <1>8, <1>9 DEF RequestStep

\* What a request has read after a step: nothing new, rows of one table that its
\* tenant may see, or the report it found.
LEMMA StepAnswers ==
  ASSUME WorkspaceInv, NEW q \in Requests, RequestStep(q)
  PROVE  (AnswersShown /\ SnapshotsJoin)'
<1> USE DEF WorkspaceInv, TypeOK
<1> DEFINE rq == request[q]
           Within(r) == \A row \in r.rows : Shown(row, r.tenant)
           Joins(r) ==
             r.kind \in {"report", "dashboard"} =>
               \A row \in r.rows : row.table = "findings" =>
                 \/ [row EXCEPT !.table = "records"] \in r.rows
                 \/ row.id \notin r.known
<1>1. Grows /\ \A p \in Requests \ {q} : request'[p] = request[p]
  BY RequestGrows
<1>2. rq # None => rq \in RequestRow /\ RequestInv(rq) /\ Within(rq) /\ Joins(rq)
  BY DEF RequestsInv, AnswersShown, SnapshotsJoin
<1> SUFFICES ASSUME request'[q] # None
             PROVE  Within(request'[q]) /\ Joins(request'[q])
  <2>1. ASSUME NEW p \in Requests, request'[p] # None, NEW row \in request'[p].rows,
               Within(request'[q])
        PROVE  Shown(row, request[p].tenant)'
    <3>1. Shown(row, request'[p].tenant)
      BY <1>1, <2>1 DEF AnswersShown
    <3> QED BY <1>1, <3>1, ShownStable DEF Shown
  <2>2. Within(request'[q]) => AnswersShown'
    <3> HIDE DEF Within
    <3> QED BY <2>1 DEF AnswersShown
  <2>3. Joins(request'[q]) => SnapshotsJoin'
    BY <1>1 DEF SnapshotsJoin
  <2>4. CASE request'[q] = None
    <3>1. AnswersShown'
      <4>1. ASSUME NEW p \in Requests, request'[p] # None, NEW row \in request'[p].rows
            PROVE  Shown(row, request[p].tenant)'
        <5>1. Shown(row, request'[p].tenant)
          BY <1>1, <2>4, <4>1 DEF AnswersShown
        <5> QED BY <1>1, <5>1, ShownStable DEF Shown
      <4> QED BY <4>1 DEF AnswersShown
    <3>2. SnapshotsJoin'
      BY <1>1, <2>4 DEF SnapshotsJoin
    <3> QED BY <3>1, <3>2
  <2> HIDE DEF Within, Joins
  <2> QED BY <2>2, <2>3, <2>4
<1>3. CASE Receive(q)
  <2>1. request'[q].rows = {}
    BY <1>3 DEF Receive
  <2> QED BY <2>1
<1>4. ASSUME rq # None, NEW step, NEW subject, Go(q, step, subject)
      PROVE  Within(request'[q]) /\ Joins(request'[q])
  BY <1>2, <1>4, GoEffect
<1>5. CASE StoreUpload(q) \/ GetUploadedFile(q) \/ WriteArtifact(q) \/ GetGeneratedReport(q)
  BY <1>4, <1>5 DEF StoreUpload, GetUploadedFile, WriteArtifact, GetGeneratedReport, At
<1>6. CASE ReadTable(q)
  <2> DEFINE table == Head(rq.todo)
             new == apply_tenant_filter(table, rq.tenant)
  <2>1. rq # None /\ rq.todo # <<>> /\ table \in Tables /\ rq.tenant \in Tenants
    BY <1>2, <1>6 DEF ReadTable, RequestRow
  <2>2. /\ request'[q].kind = rq.kind /\ request'[q].tenant = rq.tenant
        /\ request'[q].rows = rq.rows \cup new
        /\ request'[q].known = IF table = "records" THEN {j \in Jobs : records[j] # None}
                               ELSE rq.known
    BY <1>2, <1>6, <2>1 DEF ReadTable, RequestRow
  <2>3. \A row \in new : Shown(row, rq.tenant)
    <3> HIDE DEF table
    <3> QED BY <2>1, StoredShown
  <2>4. Within(request'[q])
    BY <1>2, <2>1, <2>2, <2>3
  <2>5. ASSUME rq.kind \in {"report", "dashboard"},
               NEW row \in request'[q].rows, row.table = "findings",
               row.id \in request'[q].known
        PROVE  [row EXCEPT !.table = "records"] \in request'[q].rows
    <3> DEFINE recorded == [table |-> "records", id |-> row.id,
                            tenant |-> records[row.id].tenant]
    <3>1. row \in Row
      BY <1>2, <2>1, <2>2, <2>5, StoredType DEF apply_tenant_filter, RequestRow
    <3>2. /\ row.id \in Jobs /\ records[row.id] # None
          /\ row.tenant = records[row.id].tenant
      BY <1>2, <2>1, <2>2, <2>5, FindingRows DEF RequestInv
    <3>3. [row EXCEPT !.table = "records"] = recorded
      BY <3>1, <3>2 DEF Row
    <3>4. is_tenant_match(records[row.id].tenant, rq.tenant)
      BY <2>2, <2>4, <2>5, <3>2 DEF is_tenant_match, Shown
    <3>5. CASE table = "records"
      <4>1. recorded \in Stored("records")
        BY <3>2, StoredTables DEF RowsOf
      <4> QED BY <2>2, <3>3, <3>4, <3>5, <4>1 DEF apply_tenant_filter
    <3>6. CASE table # "records"
      <4>1. recorded \in rq.rows
        BY <1>2, <2>1, <2>2, <2>5, <3>4, <3>6 DEF RequestInv
      <4> QED BY <2>2, <3>3, <4>1
    <3> QED BY <3>5, <3>6
  <2> QED BY <2>2, <2>4, <2>5
<1>7. CASE ReadArtifact(q)
  <2>1. rq # None /\ rq.kind = "download" /\ rq.at = "found"
    BY <1>7 DEF ReadArtifact, At
  <2>2. PICK o \in objects :
          /\ o.uri = reports[rq.subject].path
          /\ request' = [request EXCEPT ![q].at = "answered", ![q].rows = o.content]
    BY <1>7 DEF ReadArtifact
  <2>3. /\ request'[q].kind = "download" /\ request'[q].tenant = rq.tenant
        /\ request'[q].rows = o.content
    BY <1>2, <2>1, <2>2 DEF RequestRow
  <2>4. /\ rq.subject \in Reports /\ reports[rq.subject] # None
        /\ reports[rq.subject].tenant = rq.tenant
    BY <1>2, <2>1 DEF SubjectOK, RequestInv
  <2>5. o.content = reports[rq.subject].content
    <3>1. [uri |-> reports[rq.subject].path, content |-> reports[rq.subject].content]
            \in objects
      BY <2>4 DEF RowsHaveObjects
    <3>2. o = [uri |-> reports[rq.subject].path, content |-> reports[rq.subject].content]
      BY <2>2, <3>1
    <3> QED BY <3>2
  <2> QED BY <2>3, <2>4, <2>5 DEF ReportsShown
<1>8. CASE End(q) \/ CreateUploadedFile(q) \/ CreateProcessingJob(q) \/ RunJob(q)
             \/ CreateGeneratedReport(q)
  BY <1>8 DEF End, CreateUploadedFile, CreateProcessingJob, RunJob, CreateGeneratedReport
<1> QED BY <1>3, <1>5, <1>6, <1>7, <1>8 DEF RequestStep

-------------------------------------------------------------------------------
(***************************************************************************)
(* Jobs and what they commit.                                              *)
(***************************************************************************)

\* Requests create jobs for files that are there and their tenant's, and leave
\* what handlers committed; a job they queue again is not completed.
LEMMA RequestKeepsLineage ==
  ASSUME WorkspaceInv, NEW q \in Requests, RequestStep(q)
  PROVE  (Lineage /\ HandlersInv)'
<1> USE DEF WorkspaceInv, TypeOK, JobRow
<1>1. /\ \A f \in Files : files[f] # None => files'[f] = files[f]
      /\ UNCHANGED <<records, findings, errors, handler, owed>>
  BY RequestGrows DEF Grows
<1>2. CASE UNCHANGED jobs
  BY <1>1, <1>2 DEF Lineage, HandlersInv
<1>3. CASE CreateProcessingJob(q)
  <2>1. /\ request[q] # None /\ request[q].kind = "extract" /\ request[q].at = "found"
    BY <1>3 DEF CreateProcessingJob, At
  <2>2. /\ request[q].subject \in Files /\ files[request[q].subject] # None
        /\ files[request[q].subject].tenant \in {request[q].tenant, NoTenant}
    BY <2>1 DEF SubjectOK, RequestsInv, RequestInv
  <2>3. PICK j \in Jobs : /\ jobs[j] = None
                          /\ jobs' = [jobs EXCEPT ![j] =
                               [file |-> request[q].subject, tenant |-> request[q].tenant,
                                status |-> "queued"]]
    BY <1>3 DEF CreateProcessingJob
  <2>4. /\ jobs'[j] # None
        /\ jobs'[j].file = request[q].subject /\ jobs'[j].tenant = request[q].tenant
        /\ jobs'[j].status = "queued"
        /\ \A i \in Jobs \ {j} : jobs'[i] = jobs[i]
    <3>1. [file |-> request[q].subject, tenant |-> request[q].tenant,
           status |-> "queued"] \in JobRow
      BY <2>1, <2>2, KeysType DEF JobRow, Statuses, RequestRow
    <3> QED BY <2>3, <3>1, WorkspaceAssumption
  <2>5. /\ handler[j] = "idle" /\ records[j] = None /\ findings[j] = None /\ errors[j] = {}
        /\ j \notin owed
    BY <2>3 DEF Lineage, HandlersInv
  <2>6. Lineage'
    BY <1>1, <2>2, <2>4, <2>5 DEF Lineage
  <2>7. HandlersInv'
    BY <1>1, <2>4, <2>5 DEF HandlersInv
  <2> QED BY <2>6, <2>7
<1>4. CASE RunJob(q)
  <2>1. PICK j \in Jobs : jobs[j] # None /\ jobs' = [jobs EXCEPT ![j].status = "queued"]
    BY <1>4 DEF RunJob
  <2>2. /\ jobs'[j] # None
        /\ jobs'[j].file = jobs[j].file /\ jobs'[j].tenant = jobs[j].tenant
        /\ jobs'[j].status = "queued"
        /\ \A i \in Jobs \ {j} : jobs'[i] = jobs[i]
    BY <2>1, JobUpdate DEF Statuses
  <2>3. Lineage'
    BY <1>1, <2>1, <2>2 DEF Lineage
  <2>4. HandlersInv'
    BY <1>1, <2>1, <2>2 DEF HandlersInv
  <2> QED BY <2>3, <2>4
<1> QED
  BY <1>2, <1>3, <1>4
  DEF RequestStep, Receive, End, StoreUpload, CreateUploadedFile, GetUploadedFile,
      ReadTable, WriteArtifact, CreateGeneratedReport, GetGeneratedReport, ReadArtifact,
      tables

\* A handler commits a record and errors with the file and tenant of its job,
\* findings when there is a record, and completes a job that has one.
LEMMA HandlerKeepsLineage ==
  ASSUME WorkspaceInv, NEW j \in Jobs, HandlerStep(j)
  PROVE  (Lineage /\ HandlersInv)'
<1> USE DEF WorkspaceInv, TypeOK, JobRow
<1> DEFINE origin == [file |-> jobs[j].file, tenant |-> jobs[j].tenant]
<1>1. handler[j] # "idle" \/ j \in owed => origin # None /\ jobs[j] # None
  BY WorkspaceAssumption DEF HandlersInv, Origin, JobRow
<1>2. ASSUME NEW s \in Statuses, jobs[j] # None, jobs' = [jobs EXCEPT ![j].status = s],
             UNCHANGED <<files, records, findings, errors>>
      PROVE  Lineage'
  <2>1. /\ jobs'[j] # None
        /\ jobs'[j].file = jobs[j].file /\ jobs'[j].tenant = jobs[j].tenant
        /\ \A i \in Jobs \ {j} : jobs'[i] = jobs[i]
    BY <1>2, JobUpdate
  <2> QED BY <1>2, <2>1 DEF Lineage
<1>3. CASE Claim(j)
  <2>1. /\ jobs[j] # None /\ jobs' = [jobs EXCEPT ![j].status = "running"]
        /\ handler' = [handler EXCEPT ![j] = "lookup"]
        /\ UNCHANGED <<files, records, findings, errors, owed>>
    BY <1>3 DEF Claim
  <2>2. /\ jobs'[j] # None /\ jobs'[j].status = "running"
        /\ \A i \in Jobs \ {j} : jobs'[i] = jobs[i]
    BY <2>1, JobUpdate DEF Statuses
  <2>3. HandlersInv'
    BY <2>1, <2>2 DEF HandlersInv
  <2> QED BY <1>2, <2>1, <2>3 DEF Statuses
<1>4. CASE FindSource(j)
  <2>1. /\ handler[j] = "lookup" /\ UNCHANGED <<tables, owed>>
        /\ \E new \in {"extracted", "broken", "failing", "missing"} :
             handler' = [handler EXCEPT ![j] = new]
    BY <1>4 DEF FindSource
  <2> QED BY <1>1, <2>1 DEF Lineage, HandlersInv, tables
<1>5. CASE RecordError(j)
  <2>1. /\ handler[j] # "idle"
        /\ errors' = [errors EXCEPT ![j] = @ \cup {origin}]
        /\ handler' = [handler EXCEPT ![j] = "failing"]
        /\ UNCHANGED <<files, jobs, records, findings, owed>>
    BY <1>5 DEF RecordError
  <2> QED BY <1>1, <2>1 DEF Lineage, HandlersInv
<1>6. CASE CreateExtractedRecord(j)
  <2>1. /\ handler[j] # "idle"
        /\ records' = [records EXCEPT ![j] = origin]
        /\ handler' = [handler EXCEPT ![j] = "recorded"]
        /\ UNCHANGED <<files, jobs, findings, errors, owed>>
    BY <1>6 DEF CreateExtractedRecord
  <2>2. records[j] # None => records[j].tenant = origin.tenant
    BY DEF Lineage
  <2>3. Lineage'
    BY <1>1, <2>1, <2>2 DEF Lineage
  <2>4. HandlersInv'
    BY <1>1, <2>1 DEF HandlersInv
  <2> QED BY <2>3, <2>4
<1>7. CASE CreateValidationErrors(j)
  <2>1. /\ handler[j] = "recorded"
        /\ \A i \in Jobs :
             \/ findings'[i] = findings[i]
             \/ i = j /\ findings'[i].tenant = jobs[j].tenant
        /\ handler' = [handler EXCEPT ![j] = "returned"]
        /\ UNCHANGED <<files, jobs, records, errors, owed>>
    BY <1>7 DEF CreateValidationErrors
  <2>2. records[j] # None /\ records[j].tenant = jobs[j].tenant
    BY <2>1 DEF Lineage, HandlersInv
  <2> QED BY <1>1, <2>1, <2>2 DEF Lineage, HandlersInv
<1>8. CASE Settle(j)
  <2>1. PICK s \in Outcomes(j) : jobs' = [jobs EXCEPT ![j].status = s]
    BY <1>8 DEF Settle
  <2>2. /\ s \in Statuses /\ handler[j] # "idle"
        /\ s = "completed" => records[j] # None
    BY <2>1 DEF Outcomes, Statuses, HandlersInv
  <2>3. /\ handler' = [handler EXCEPT ![j] = "idle"]
        /\ owed' \in {owed, owed \cup {j}}
        /\ UNCHANGED <<files, records, findings, errors>>
    BY <1>8 DEF Settle
  <2>5. /\ jobs'[j] # None /\ jobs'[j].status = s
        /\ \A i \in Jobs \ {j} : jobs'[i] = jobs[i]
    BY <1>1, <2>1, <2>2, JobUpdate
  <2>4. HandlersInv'
    BY <2>2, <2>3, <2>5 DEF HandlersInv
  <2> QED BY <1>1, <1>2, <2>1, <2>2, <2>3, <2>4
<1>9. CASE WorkerError(j)
  <2>1. /\ j \in owed /\ owed' = owed \ {j}
        /\ errors' = [errors EXCEPT ![j] = @ \cup {WorkerRow(j)}]
        /\ UNCHANGED <<files, jobs, records, findings, handler>>
    BY <1>9 DEF WorkerError
  <2>2. WorkerRow(j).file = jobs[j].file /\ WorkerRow(j).tenant = NoTenant
    BY DEF WorkerRow
  <2> QED BY <1>1, <2>1, <2>2 DEF Lineage, HandlersInv
<1> QED BY <1>3, <1>4, <1>5, <1>6, <1>7, <1>8, <1>9 DEF HandlerStep

-------------------------------------------------------------------------------
(***************************************************************************)
(* The invariant.                                                          *)
(***************************************************************************)

\* In the first state there are legacy files with their objects, and jobs for
\* them that wait.
LEMMA InitInv == Init => WorkspaceInv
<1> SUFFICES ASSUME Init PROVE WorkspaceInv
  OBVIOUS
<1>1. TypeOK
  BY InitType
<1>2. /\ \A q \in Requests : request[q] = None
      /\ \A j \in Jobs : /\ records[j] = None /\ findings[j] = None /\ errors[j] = {}
                         /\ handler[j] = "idle" /\ j \notin owed
      /\ \A r \in Reports : reports[r] = None
  BY DEF Init
<1>3. \A f \in Files : files[f] # None =>
        /\ f \in LegacyFiles
        /\ files[f].path = artifact_key(NoTenant, f) /\ files[f].tenant = NoTenant
        /\ [uri |-> artifact_key(NoTenant, f), content |-> f] \in objects
  BY DEF Init
<1>4. \A j \in Jobs : jobs[j] # None =>
        /\ jobs[j].file \in LegacyFiles /\ jobs[j].status = "queued"
  BY DEF Init
<1>5. \A f \in LegacyFiles : files[f].tenant = NoTenant
  BY WorkspaceAssumption DEF Init
<1>6. ASSUME NEW f \in LegacyFiles PROVE files[f] # None
  <2>1. [tenant |-> NoTenant, path |-> artifact_key(NoTenant, f)] \in FileRow
    BY WorkspaceAssumption, KeysType DEF FileRow, Owners
  <2> QED BY <2>1, WorkspaceAssumption DEF Init
<1>7. RowsHaveObjects /\ PathsHaveIds /\ ReportsShown
  <2>1. ASSUME NEW f \in Files, files[f] # None
        PROVE  [uri |-> files[f].path, content |-> f] \in objects /\ files[f].path.id = f
    <3>1. /\ files[f].path = artifact_key(NoTenant, f)
          /\ [uri |-> artifact_key(NoTenant, f), content |-> f] \in objects
      BY <1>3, <2>1
    <3>2. artifact_key(NoTenant, f).id = f
      BY DEF artifact_key
    <3> QED BY <3>1, <3>2
  <2> QED BY <1>2, <2>1 DEF RowsHaveObjects, PathsHaveIds, ReportsShown
<1>8. Lineage /\ HandlersInv
  BY <1>2, <1>4, <1>5, <1>6 DEF Lineage, HandlersInv
<1>9. AnswersShown /\ SnapshotsJoin /\ RequestsInv /\ StoredApart
  BY <1>2 DEF AnswersShown, SnapshotsJoin, RequestsInv, StoredApart
<1> QED BY <1>1, <1>7, <1>8, <1>9 DEF WorkspaceInv

\* Every step keeps every part of the invariant.
LEMMA StepInv == WorkspaceInv /\ [Next]_vars => WorkspaceInv'
<1> SUFFICES ASSUME WorkspaceInv, [Next]_vars PROVE WorkspaceInv'
  OBVIOUS
<1>1. ASSUME UNCHANGED <<objects, tables, request, handler, owed, backend>>,
             sessions' \subseteq Users
      PROVE  WorkspaceInv'
  BY <1>1
  DEF WorkspaceInv, tables, TypeOK, RowsHaveObjects, Lineage, AnswersShown, Shown,
      SnapshotsJoin, RequestsInv, RequestInv, StoredApart, PathsHaveIds, ReportsShown,
      HandlersInv
<1>2. ASSUME NEW u \in Users, Login(u) \/ Expire(u) PROVE WorkspaceInv'
  BY <1>1, <1>2 DEF Login, Expire, WorkspaceInv, TypeOK
<1>3. CASE UNCHANGED vars
  BY <1>1, <1>3 DEF vars, tables, WorkspaceInv, TypeOK
<1>4. ASSUME NEW q \in Requests, RequestStep(q) PROVE WorkspaceInv'
  <2>1. \A p \in Requests : request'[p] # None => RequestInv(request[p])'
    BY <1>4, OthersStable, OwnStable
  <2>2. RequestsInv'
    BY <2>1 DEF RequestsInv
  <2> QED
    BY <1>4, <2>2, RequestStepType, StepRows, StepStoredApart, StepAnswers,
       RequestKeepsLineage
    DEF WorkspaceInv
<1>5. ASSUME NEW j \in Jobs, HandlerStep(j) PROVE WorkspaceInv'
  <2>1. Grows /\ UNCHANGED <<objects, files, reports, request>>
    BY <1>5, HandlerGrows
  <2>2. ASSUME NEW p \in Requests, request[p] # None PROVE RequestInv(request[p])'
    BY <2>1, <2>2, RequestStable
  <2>3. RequestsInv'
    BY <2>1, <2>2 DEF RequestsInv
  <2>4. RowsHaveObjects' /\ SnapshotsJoin' /\ StoredApart' /\ PathsHaveIds'
    BY <2>1 DEF WorkspaceInv, RowsHaveObjects, SnapshotsJoin, StoredApart, PathsHaveIds
  <2>5. ASSUME NEW row, NEW t, Shown(row, t) PROVE Shown(row, t)'
    BY <2>1, <2>5, ShownStable
  <2>6. AnswersShown'
    BY <2>1, <2>5 DEF WorkspaceInv, AnswersShown, Shown
  <2>7. ReportsShown'
    BY <2>1, <2>5 DEF WorkspaceInv, ReportsShown, Shown
  <2> QED
    BY <1>5, <2>3, <2>4, <2>6, <2>7, HandlerStepType, HandlerKeepsLineage DEF WorkspaceInv
<1> QED BY <1>2, <1>3, <1>4, <1>5 DEF Next

\* Every reachable state satisfies the inductive invariant.
LEMMA SpecInv == Spec => []WorkspaceInv
<1>1. Init => WorkspaceInv
  BY InitInv
<1>2. WorkspaceInv /\ [Next]_vars => WorkspaceInv'
  BY StepInv
<1> QED BY <1>1, <1>2, PTL DEF Spec

-------------------------------------------------------------------------------
(***************************************************************************)
(* Theorems.                                                               *)
(***************************************************************************)

\* Every table, object, request and handler has its type; no two objects have
\* one key, whatever uploads and reports overlap.
THEOREM WorkspaceTypeCorrect == Spec => []TypeOK
<1>1. WorkspaceInv => TypeOK
  BY DEF WorkspaceInv
<1> QED BY <1>1, SpecInv, PTL

\* No row of an upload or a report is ever without its whole object.
THEOREM RowsAlwaysHaveObjects == Spec => []RowsHaveObjects
<1>1. WorkspaceInv => RowsHaveObjects
  BY DEF WorkspaceInv
<1> QED BY <1>1, SpecInv, PTL

\* Records and findings are of the job's file and tenant, errors of its file and of
\* its tenant or none, through any number of executions.
THEOREM LineageHolds == Spec => []Lineage
<1>1. WorkspaceInv => Lineage
  BY DEF WorkspaceInv
<1> QED BY <1>1, SpecInv, PTL

\* No listing, report, dashboard or download ever holds what descends from another
\* tenant's file, job or report, the error rows without a tenant excepted, for any
\* number of tenants, users and overlapping requests.
THEOREM TenantsAreApart == Spec => []AnswersWithinTenant
<1>1. WorkspaceInv => AnswersWithinTenant
  <2> SUFFICES ASSUME WorkspaceInv, NEW q \in Requests, request[q] # None,
                      NEW row \in request[q].rows,
                      row.table # "errors" \/ row.tenant # NoTenant
               PROVE  OwnerOf(row) \in {request[q].tenant, NoTenant}
    BY DEF AnswersWithinTenant
  <2>1. Shown(row, request[q].tenant)
    BY DEF WorkspaceInv, AnswersShown
  <2>2. row.table \in Tables
    BY DEF WorkspaceInv, TypeOK, RequestRow, Row
  <2>3. OwnerOf(row) = row.tenant
    BY <2>1, <2>2 DEF Shown, OwnerOf, Tables
  <2> QED BY <2>1, <2>3 DEF Shown
<1> QED BY <1>1, SpecInv, PTL

\* A finding without its record in a report or on the dashboard is of a record
\* that was committed during the reading.
THEOREM OnlyNewFindingsDangle == Spec => []SnapshotsJoin
<1>1. WorkspaceInv => SnapshotsJoin
  BY DEF WorkspaceInv
<1> QED BY <1>1, SpecInv, PTL

\* Whoever sees a completed job is shown its record.
THEOREM CompletedJobsShowRecords == Spec => []CompletedJobShowsRecord
<1>1. WorkspaceInv => CompletedJobShowsRecord
  <2> SUFFICES ASSUME WorkspaceInv, NEW j \in Jobs, NEW t \in Tenants,
                      jobs[j] # None, jobs[j].status = "completed",
                      is_tenant_match(jobs[j].tenant, t)
               PROVE  \E row \in apply_tenant_filter("records", t) : row.id = j
    BY DEF CompletedJobShowsRecord
  <2> DEFINE shown == [table |-> "records", id |-> j, tenant |-> records[j].tenant]
  <2>1. records[j] # None
    BY DEF WorkspaceInv, HandlersInv
  <2>2. records[j].tenant = jobs[j].tenant
    <3>1. records[j] = [file |-> jobs[j].file, tenant |-> jobs[j].tenant]
      BY <2>1 DEF WorkspaceInv, Lineage
    <3> QED BY <3>1
  <2>3. shown \in Stored("records")
    BY <2>1, StoredTables DEF RowsOf, WorkspaceInv, TypeOK
  <2>4. shown \in apply_tenant_filter("records", t)
    BY <2>2, <2>3 DEF apply_tenant_filter
  <2> QED BY <2>4
<1> QED BY <1>1, SpecInv, PTL

\* What was stored stays as it was, for any number of overlapping requests and
\* retries: objects and rows are added, under keys and ids that were never used.
THEOREM NothingStoredIsLost == Spec => StoredForGood
<1> DEFINE Kept ==
      /\ \A f \in Files : files[f] # None =>
           files'[f] = files[f] /\ [uri |-> files[f].path, content |-> f] \in objects'
      /\ \A r \in Reports : reports[r] # None =>
           /\ reports'[r] = reports[r]
           /\ [uri |-> reports[r].path, content |-> reports[r].content] \in objects'
      /\ \A j \in Jobs : records[j] # None => records'[j] = records[j]
<1>1. ASSUME WorkspaceInv, Grows, \A j \in Jobs : records[j] # None => records'[j] = records[j]
      PROVE  Kept
  BY <1>1 DEF Grows, WorkspaceInv, RowsHaveObjects
<1> HIDE DEF Kept
<1>2. ASSUME WorkspaceInv, NEW q \in Requests, RequestStep(q)
      PROVE  Kept
  BY <1>1, <1>2, RequestGrows
<1>3. ASSUME WorkspaceInv, NEW j \in Jobs, HandlerStep(j)
      PROVE  Kept
  <2>1. Grows
    BY <1>3, HandlerGrows
  <2>2. ASSUME NEW k \in Jobs, records[k] # None
        PROVE  records'[k] = records[k]
    <3>1. records[k] = [file |-> jobs[k].file, tenant |-> jobs[k].tenant]
      BY <1>3, <2>2 DEF WorkspaceInv, Lineage
    <3>2. records \in [Jobs -> {None} \cup Origin]
      BY <1>3 DEF WorkspaceInv, TypeOK
    <3>3. CASE CreateExtractedRecord(j)
      BY <2>2, <3>1, <3>2, <3>3 DEF CreateExtractedRecord
    <3>4. CASE Claim(j) \/ FindSource(j) \/ RecordError(j) \/ Settle(j)
                 \/ CreateValidationErrors(j) \/ WorkerError(j)
      BY <3>4 DEF Claim, FindSource, RecordError, Settle, CreateValidationErrors,
                  WorkerError, tables
    <3> QED BY <1>3, <3>3, <3>4 DEF HandlerStep
  <2> QED BY <1>1, <1>3, <2>1, <2>2
<1>4. WorkspaceInv /\ [Next]_vars => [Kept]_vars
  <2> SUFFICES ASSUME WorkspaceInv, Next PROVE Kept
    OBVIOUS
  <2>1. CASE \E u \in Users : Login(u) \/ Expire(u)
    <3>1. UNCHANGED <<objects, files, jobs, reports, records>>
      BY <2>1 DEF Login, Expire, tables
    <3> QED BY <3>1, <1>1 DEF Grows
  <2> QED BY <1>2, <1>3, <2>1 DEF Next
<1> QED BY <1>4, SpecInv, PTL DEF Spec, StoredForGood, Kept

===============================================================================
