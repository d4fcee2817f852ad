------------------------------ MODULE Reports -------------------------------
(***************************************************************************)
(* Daily reports: ReportRepository in packages/persistence/...              *)
(* /report_repository.py, ImmutableReportStore in workforce_risk_mcp/tools   *)
(* /reports.py, the download route in agent_api/routes/reports.py and        *)
(* domain/workforce_risk/reports/generator.py.                               *)
(*                                                                         *)
(* No service calls the generator yet: the order of its calls (pending row,  *)
(* upload, stored row, each able to fail or be the last before a crash) is    *)
(* that of tests/integration/test_s3_reports.py.  Retries of one report      *)
(* overlap, and each generates it from the risks of its own time.            *)
(***************************************************************************)
EXTENDS Naturals, Sequences

CONSTANTS Generator,   \* overlapping attempts at one report
          Content,     \* canonical_bytes of the report as generated
          Prohibited,  \* the contents with sensitive terms
          MaxObjects   \* bound: versions in the bucket

VARIABLES report,      \* the ReportMetadata row, or NoReport
          objects,     \* objects[v]: the content of object version v
          generating,  \* generating[g]: where attempt g is
          listed,      \* the row as a reader's last list of the reports showed it
          link         \* history: the last link given out, with what the reader was shown

gvars == <<report, objects, generating, listed, link>>

NoReport == [status |-> "none", version |-> 0, checksum |-> <<>>]
NoLink == [version |-> 0, shown |-> NoReport]
NotGenerating == [phase |-> "idle"]

ReportsInit ==
    /\ report = NoReport
    /\ objects = <<>>
    /\ generating = [g \in Generator |-> NotGenerating]
    /\ listed = NoReport
    /\ link = NoLink

Checksum(content) == <<"sha256", content>>

\* DailyRiskReport: prohibited material is refused before anything is stored.
GenerateReport(g, content) ==
    /\ generating[g] = NotGenerating
    /\ content \notin Prohibited
    /\ generating' = [generating EXCEPT ![g] = [phase |-> "generated", content |-> content]]
    /\ UNCHANGED <<report, objects, listed, link>>

\* create_pending: the row found, or a new one under uq_reports_env_idempotency.
CreatePending(g) ==
    /\ generating[g].phase = "generated"
    /\ report' = IF report = NoReport THEN [NoReport EXCEPT !.status = "pending"] ELSE report
    /\ generating' = [generating EXCEPT ![g].phase = "pending"]
    /\ UNCHANGED <<objects, listed, link>>

\* upload: put_object of the dated key, answered with the object's version.
Upload(g) ==
    /\ generating[g].phase = "pending"
    /\ Len(objects) < MaxObjects
    /\ objects' = Append(objects, generating[g].content)
    /\ generating' = [generating EXCEPT ![g] =
         [phase |-> "uploaded", content |-> @.content, version |-> Len(objects) + 1]]
    /\ UNCHANGED <<report, listed, link>>

\* put_object raises, having stored the object or not.
UploadFails(g) ==
    /\ generating[g].phase = "pending"
    /\ objects' \in {objects} \cup
                    (IF Len(objects) < MaxObjects
                     THEN {Append(objects, generating[g].content)} ELSE {})
    /\ generating' = [generating EXCEPT ![g].phase = "failed"]
    /\ UNCHANGED <<report, listed, link>>

StoredRow_KeepsVersion(row, version, content) ==
    [status |-> "stored", checksum |-> Checksum(content),
     version |-> IF row.version = 0 THEN version ELSE row.version]

\* mark_stored sets the status, the object's key and version and the checksum,
\* whatever the row says.
StoredRow(row, version, content) ==
    [status |-> "stored", version |-> version, checksum |-> Checksum(content)]

MarkStored(g) ==
    LET s == generating[g] IN
    /\ s.phase = "uploaded"
    /\ report' = StoredRow(report, s.version, s.content)
    /\ generating' = [generating EXCEPT ![g] = NotGenerating]
    /\ UNCHANGED <<objects, listed, link>>

\* mark_failed, or nothing: a failed upload may leave the row as it is.
MarkFailed(g) ==
    /\ generating[g].phase = "failed"
    /\ report' \in {report, [report EXCEPT !.status = "failed"]}
    /\ generating' = [generating EXCEPT ![g] = NotGenerating]
    /\ UNCHANGED <<objects, listed, link>>

GeneratorDies(g) ==
    /\ generating[g] # NotGenerating
    /\ generating' = [generating EXCEPT ![g] = NotGenerating]
    /\ UNCHANGED <<report, objects, listed, link>>

\* GET /reports: a reader is shown the row, whatever its status.
ListReports ==
    /\ report # NoReport
    /\ listed' = report
    /\ UNCHANGED <<report, objects, generating, link>>

\* POST /reports/{id}/download of a listed report: a link to the exact object version
\* that its row names by now, if the row is stored.
DownloadUrl ==
    /\ listed # NoReport
    /\ report.status = "stored" /\ report.version # 0
    /\ link' = [version |-> report.version, shown |-> listed]
    /\ UNCHANGED <<report, objects, generating, listed>>

ReportsNext ==
    \/ \E g \in Generator :
          \/ \E content \in Content : GenerateReport(g, content)
          \/ CreatePending(g) \/ Upload(g) \/ UploadFails(g)
          \/ MarkStored(g) \/ MarkFailed(g) \/ GeneratorDies(g)
    \/ ListReports
    \/ DownloadUrl

ReportsSpec == ReportsInit /\ [][ReportsNext]_gvars

\* Every link leads to an object that is there and holds no prohibited material, and
\* one to the version the reader was shown leads to the content whose checksum the
\* reader was shown: whichever attempts uploaded, failed or died, in whatever order they
\* marked the row, and whatever happened to it between the list and the link.
LinksMatchChecksum ==
    link # NoLink =>
        /\ link.version \in 1..Len(objects)
        /\ objects[link.version] \notin Prohibited
        /\ link.shown.version = link.version =>
               Checksum(objects[link.version]) = link.shown.checksum

=============================================================================
