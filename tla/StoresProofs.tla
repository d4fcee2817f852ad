---------------------------- MODULE StoresProofs -----------------------------
(***************************************************************************)
(* Proofs about the tables and the tools that share no row: reports,         *)
(* evidence snapshots, comment evidence, the progress history and scoring.   *)
(*                                                                         *)
(* Each component has an inductive invariant (ReportsInv, EvidenceInv,       *)
(* CommentInv, ProgressInv, ScoringInv), one lemma for every action that can *)
(* disturb it, and the property from the invariant.  What a score says rests *)
(* on sums over the factors, so that part starts with induction: over the    *)
(* numbers, from the well-foundedness of <, and over the subsets of a finite  *)
(* set in the order in which SumFunction takes their elements.               *)
(***************************************************************************)
EXTENDS Progress, EvidenceStore, CommentEvidence, Reports, Scoring,
        FiniteSetTheorems, WellFoundedInduction, TLAPS

----------------------------------------------------------------------------
(* Reports.                                                                 *)

Lawful == Content \ Prohibited

Attempt ==
    {NotGenerating}
    \cup [phase : {"generated", "pending", "failed"}, content : Lawful]
    \cup [phase : {"uploaded"}, content : Lawful, version : Nat \ {0}]

\* Object version v is there, with this checksum.
Holds(version, checksum) ==
    /\ version \in 1 .. Len(objects)
    /\ Checksum(objects[version]) = checksum

ReportRowOK(row) ==
    /\ row = [status |-> row.status, version |-> row.version, checksum |-> row.checksum]
    /\ row.version # 0 => Holds(row.version, row.checksum)

UploadsOK ==
    \A g \in Generator : generating[g].phase = "uploaded" =>
        /\ generating[g].version \in 1 .. Len(objects)
        /\ objects[generating[g].version] = generating[g].content

\* What a reader was shown, when it listed the reports and when it was given the link.
ShownOK == ReportRowOK(listed) /\ ReportRowOK(link.shown)

LinkOK ==
    link # NoLink => link.version \in 1 .. Len(objects)

ReportsInv ==
    /\ objects \in Seq(Lawful)
    /\ generating \in [Generator -> Attempt]
    /\ ReportRowOK(report) /\ ShownOK /\ LinkOK /\ UploadsOK

LEMMA ReportsStart == ReportsInit => ReportsInv
BY DEF ReportsInit, ReportsInv, ReportRowOK, ShownOK, LinkOK, UploadsOK, Attempt, NotGenerating,
       NoReport, NoLink

LEMMA InvGivesLinks == ReportsInv => LinksMatchChecksum
<1> SUFFICES ASSUME ReportsInv, link # NoLink
             PROVE /\ link.version \in 1 .. Len(objects)
                   /\ objects[link.version] \notin Prohibited
                   /\ link.shown.version = link.version =>
                          Checksum(objects[link.version]) = link.shown.checksum
    BY DEF LinksMatchChecksum
<1>1. objects \in Seq(Lawful)  BY DEF ReportsInv
<1>2. link.version \in 1 .. Len(objects)  BY DEF ReportsInv, LinkOK
<1>3. objects[link.version] \in Lawful  BY <1>1, <1>2
<1>4. link.version # 0  BY <1>1, <1>2
<1>5. link.shown.version = link.version =>
          Checksum(objects[link.version]) = link.shown.checksum
    BY <1>4 DEF ReportsInv, ShownOK, ReportRowOK, Holds
<1> QED  BY <1>2, <1>3, <1>5 DEF Lawful

\* An attempt is idle, or has one of the phases that its fields belong to.
LEMMA AttemptShapes ==
    ASSUME NEW a \in Attempt
    PROVE  /\ a.phase \in {"idle", "generated", "pending", "failed", "uploaded"}
           /\ a.phase = "idle" => a = NotGenerating
           /\ a.phase \in {"generated", "pending", "failed"} =>
                  a = [phase |-> a.phase, content |-> a.content] /\ a.content \in Lawful
           /\ a.phase = "uploaded" =>
                  a.content \in Lawful /\ a.version \in Nat \ {0}
BY DEF Attempt, NotGenerating

\* A step that moves one attempt, adds no object and no link, and leaves the row alone.
LEMMA OneAttemptMoves ==
    ASSUME ReportsInv, NEW g \in Generator, NEW a \in Attempt, a.phase # "uploaded",
           generating' = [generating EXCEPT ![g] = a],
           UNCHANGED objects
    PROVE  objects' \in Seq(Lawful) /\ generating' \in [Generator -> Attempt] /\ UploadsOK'
<1>1. generating' \in [Generator -> Attempt]  BY DEF ReportsInv
<1>2. \A h \in Generator : generating'[h].phase = "uploaded" => generating'[h] = generating[h]
    BY DEF ReportsInv
<1>3. UploadsOK'  BY <1>2 DEF ReportsInv, UploadsOK
<1> QED  BY <1>1, <1>3 DEF ReportsInv

LEMMA GenerateKeepsInv ==
    ASSUME ReportsInv, NEW g \in Generator, NEW content \in Content, GenerateReport(g, content)
    PROVE  ReportsInv'
<1> DEFINE a == [phase |-> "generated", content |-> content]
<1>1. a \in Attempt /\ a.phase # "uploaded"  BY DEF GenerateReport, Attempt, Lawful
<1>2. generating' = [generating EXCEPT ![g] = a] /\ UNCHANGED <<report, objects, listed, link>>
    BY DEF GenerateReport
<1> HIDE DEF a
<1>3. objects' \in Seq(Lawful) /\ generating' \in [Generator -> Attempt] /\ UploadsOK'
    BY <1>1, <1>2, OneAttemptMoves
<1> QED  BY <1>2, <1>3 DEF ReportsInv, ReportRowOK, ShownOK, LinkOK, Holds

LEMMA CreatePendingKeepsInv ==
    ASSUME ReportsInv, NEW g \in Generator, CreatePending(g)
    PROVE  ReportsInv'
<1> DEFINE a == [phase |-> "pending", content |-> generating[g].content]
<1>0. generating[g] \in Attempt  BY DEF ReportsInv
<1>1. a \in Attempt /\ a.phase # "uploaded"
    BY <1>0, AttemptShapes DEF CreatePending, Attempt
<1>2. generating' = [generating EXCEPT ![g] = a]
    <2>1. generating[g] = [phase |-> generating[g].phase, content |-> generating[g].content]
        BY <1>0, AttemptShapes DEF CreatePending
    <2>2. [generating[g] EXCEPT !.phase = "pending"] = a  BY <2>1
    <2> QED  BY <2>2 DEF CreatePending
<1>3. UNCHANGED <<objects, listed, link>>  BY DEF CreatePending
<1> HIDE DEF a
<1>4. objects' \in Seq(Lawful) /\ generating' \in [Generator -> Attempt] /\ UploadsOK'
    BY <1>1, <1>2, <1>3, OneAttemptMoves
<1>5. ReportRowOK(report)'
    <2>1. CASE report = NoReport
        <3>1. report' = [status |-> "pending", version |-> 0, checksum |-> <<>>]
            BY <2>1 DEF CreatePending, NoReport
        <3> QED  BY <3>1 DEF ReportRowOK
    <2>2. CASE report # NoReport
        <3>1. report' = report  BY <2>2 DEF CreatePending
        <3> QED  BY <3>1, <1>3 DEF ReportsInv, ReportRowOK, Holds
    <2> QED  BY <2>1, <2>2
<1> QED  BY <1>3, <1>4, <1>5 DEF ReportsInv, ReportRowOK, ShownOK, LinkOK, Holds

\* Another object version leaves those that are there as they were.
LEMMA ObjectsGrow ==
    ASSUME objects \in Seq(Lawful), NEW content \in Lawful,
           objects' = Append(objects, content)
    PROVE  /\ objects' \in Seq(Lawful)
           /\ Len(objects') = Len(objects) + 1
           /\ objects'[Len(objects) + 1] = content
           /\ \A v \in 1 .. Len(objects) : v \in 1 .. Len(objects') /\ objects'[v] = objects[v]
           /\ \A v, checksum : Holds(v, checksum) => Holds(v, checksum)'
<1>1. /\ objects' \in Seq(Lawful)
      /\ Len(objects') = Len(objects) + 1
      /\ objects'[Len(objects) + 1] = content
      /\ \A v \in 1 .. Len(objects) : v \in 1 .. Len(objects') /\ objects'[v] = objects[v]
    OBVIOUS
<1> QED  BY <1>1 DEF Holds

LEMMA UploadKeepsInv ==
    ASSUME ReportsInv, NEW g \in Generator, Upload(g)
    PROVE  ReportsInv'
<1> DEFINE content == generating[g].content
           a == [phase |-> "uploaded", content |-> content, version |-> Len(objects) + 1]
<1>1. content \in Lawful
    <2>1. generating[g] \in Attempt  BY DEF ReportsInv
    <2> QED  BY <2>1, AttemptShapes DEF Upload
<1>2. objects' = Append(objects, content)  BY DEF Upload
<1>3. generating' = [generating EXCEPT ![g] = a]  BY DEF Upload
<1>4. UNCHANGED <<report, listed, link>>  BY DEF Upload
<1>5. objects \in Seq(Lawful) /\ Len(objects) \in Nat  BY DEF ReportsInv
<1>6. a \in Attempt  BY <1>1, <1>5 DEF Attempt
<1>7. a.phase = "uploaded" /\ a.version = Len(objects) + 1 /\ a.content = content  OBVIOUS
<1> HIDE DEF a, content
<1>8. /\ objects' \in Seq(Lawful)
      /\ Len(objects') = Len(objects) + 1
      /\ objects'[Len(objects) + 1] = content
      /\ \A v \in 1 .. Len(objects) : v \in 1 .. Len(objects') /\ objects'[v] = objects[v]
    BY <1>1, <1>2, <1>5, ObjectsGrow
<1>9. \A v, checksum : Holds(v, checksum) => Holds(v, checksum)'
    BY <1>1, <1>2, <1>5, ObjectsGrow
<1>10. generating' \in [Generator -> Attempt]  BY <1>3, <1>6 DEF ReportsInv
<1>11. UploadsOK'
    <2> SUFFICES ASSUME NEW h \in Generator, generating'[h].phase = "uploaded"
                 PROVE /\ generating'[h].version \in 1 .. Len(objects')
                       /\ objects'[generating'[h].version] = generating'[h].content
        BY DEF UploadsOK
    <2>1. CASE h = g
        <3>1. generating'[h] = a  BY <1>3, <2>1 DEF ReportsInv
        <3> QED  BY <3>1, <1>5, <1>7, <1>8
    <2>2. CASE h # g
        <3>1. generating'[h] = generating[h]  BY <1>3, <2>2 DEF ReportsInv
        <3> QED  BY <3>1, <1>8 DEF ReportsInv, UploadsOK
    <2> QED  BY <2>1, <2>2
<1>12. ReportRowOK(report)' /\ ShownOK'  BY <1>4, <1>9 DEF ReportsInv, ReportRowOK, ShownOK
<1>13. LinkOK'  BY <1>4, <1>8 DEF ReportsInv, LinkOK
<1> QED  BY <1>8, <1>10, <1>11, <1>12, <1>13 DEF ReportsInv

LEMMA UploadFailsKeepsInv ==
    ASSUME ReportsInv, NEW g \in Generator, UploadFails(g)
    PROVE  ReportsInv'
<1> DEFINE content == generating[g].content
           a == [phase |-> "failed", content |-> content]
<1>0. generating[g] \in Attempt /\ generating[g].phase = "pending"
    BY DEF ReportsInv, UploadFails
<1>1. content \in Lawful  BY <1>0, AttemptShapes
<1>2. a \in Attempt /\ a.phase # "uploaded"  BY <1>1 DEF Attempt
<1>3. generating' = [generating EXCEPT ![g] = a]
    <2>1. generating[g] = [phase |-> generating[g].phase, content |-> generating[g].content]
        BY <1>0, AttemptShapes
    <2>2. [generating[g] EXCEPT !.phase = "failed"] = a  BY <2>1
    <2> QED  BY <2>2 DEF UploadFails
<1>4. UNCHANGED <<report, listed, link>>  BY DEF UploadFails
<1>5. objects' = objects \/ objects' = Append(objects, content)  BY DEF UploadFails
<1>6. objects \in Seq(Lawful)  BY DEF ReportsInv
<1> HIDE DEF a, content
<1>7. /\ objects' \in Seq(Lawful)
      /\ \A v \in 1 .. Len(objects) : v \in 1 .. Len(objects') /\ objects'[v] = objects[v]
      /\ \A v, checksum : Holds(v, checksum) => Holds(v, checksum)'
    <2>1. CASE objects' = objects  BY <2>1, <1>6 DEF Holds
    <2>2. CASE objects' = Append(objects, content)  BY <2>2, <1>1, <1>6, ObjectsGrow
    <2> QED  BY <1>5, <2>1, <2>2
<1>8. generating' \in [Generator -> Attempt]  BY <1>2, <1>3 DEF ReportsInv
<1>9. \A h \in Generator : generating'[h].phase = "uploaded" => generating'[h] = generating[h]
    BY <1>2, <1>3 DEF ReportsInv
<1>10. UploadsOK'  BY <1>7, <1>9 DEF ReportsInv, UploadsOK
<1>11. ReportRowOK(report)' /\ ShownOK'  BY <1>4, <1>7 DEF ReportsInv, ReportRowOK, ShownOK
<1>12. LinkOK'  BY <1>4, <1>7 DEF ReportsInv, LinkOK
<1> QED  BY <1>7, <1>8, <1>10, <1>11, <1>12 DEF ReportsInv

LEMMA MarkStoredKeepsInv ==
    ASSUME ReportsInv, NEW g \in Generator, MarkStored(g)
    PROVE  ReportsInv'
<1>1. generating' = [generating EXCEPT ![g] = NotGenerating] /\ UNCHANGED <<objects, listed, link>>
    BY DEF MarkStored
<1>2. NotGenerating \in Attempt /\ NotGenerating.phase # "uploaded"
    BY DEF Attempt, NotGenerating
<1>3. objects' \in Seq(Lawful) /\ generating' \in [Generator -> Attempt] /\ UploadsOK'
    BY <1>1, <1>2, OneAttemptMoves
<1>4. /\ generating[g].version \in 1 .. Len(objects)
      /\ objects[generating[g].version] = generating[g].content
    BY DEF MarkStored, ReportsInv, UploadsOK
<1>5. PICK row : row = StoredRow(report, generating[g].version, generating[g].content)  OBVIOUS
<1>6. report' = row  BY <1>5 DEF MarkStored
<1>7. /\ row = [status |-> row.status, version |-> row.version, checksum |-> row.checksum]
      /\ row.version = generating[g].version
      /\ row.checksum = Checksum(generating[g].content)
    BY <1>5 DEF StoredRow
<1>8. ReportRowOK(report)'
    <2>1. Holds(row.version, row.checksum)'  BY <1>1, <1>4, <1>7 DEF Holds
    <2> QED  BY <2>1, <1>6, <1>7 DEF ReportRowOK, Holds
<1>9. ShownOK' /\ LinkOK'  BY <1>1 DEF ReportsInv, ShownOK, ReportRowOK, LinkOK, Holds
<1> QED  BY <1>3, <1>8, <1>9 DEF ReportsInv

LEMMA MarkFailedKeepsInv ==
    ASSUME ReportsInv, NEW g \in Generator, MarkFailed(g)
    PROVE  ReportsInv'
<1>1. generating' = [generating EXCEPT ![g] = NotGenerating] /\ UNCHANGED <<objects, listed, link>>
    BY DEF MarkFailed
<1>2. NotGenerating \in Attempt /\ NotGenerating.phase # "uploaded"
    BY DEF Attempt, NotGenerating
<1>3. objects' \in Seq(Lawful) /\ generating' \in [Generator -> Attempt] /\ UploadsOK'
    BY <1>1, <1>2, OneAttemptMoves
<1>4. ShownOK' /\ LinkOK'  BY <1>1 DEF ReportsInv, ShownOK, ReportRowOK, LinkOK, Holds
<1>5. ReportRowOK(report)'
    <2>1. CASE report' = report  BY <2>1, <1>1 DEF ReportsInv, ReportRowOK, Holds
    <2>2. CASE report' = [report EXCEPT !.status = "failed"]
        <3>1. report = [status |-> report.status, version |-> report.version,
                        checksum |-> report.checksum]
            BY DEF ReportsInv, ReportRowOK
        <3>2. report' = [status |-> "failed", version |-> report.version,
                         checksum |-> report.checksum]
            BY <2>2, <3>1
        <3>3. report.version # 0 => Holds(report.version, report.checksum)
            BY DEF ReportsInv, ReportRowOK
        <3> QED  BY <3>2, <3>3, <1>1 DEF ReportRowOK, Holds
    <2> QED  BY <2>1, <2>2 DEF MarkFailed
<1> QED  BY <1>3, <1>4, <1>5 DEF ReportsInv

LEMMA GeneratorDiesKeepsInv ==
    ASSUME ReportsInv, NEW g \in Generator, GeneratorDies(g)
    PROVE  ReportsInv'
<1>1. /\ generating' = [generating EXCEPT ![g] = NotGenerating]
      /\ UNCHANGED <<report, objects, listed, link>>
    BY DEF GeneratorDies
<1>2. NotGenerating \in Attempt /\ NotGenerating.phase # "uploaded"
    BY DEF Attempt, NotGenerating
<1>3. objects' \in Seq(Lawful) /\ generating' \in [Generator -> Attempt] /\ UploadsOK'
    BY <1>1, <1>2, OneAttemptMoves
<1> QED  BY <1>1, <1>3 DEF ReportsInv, ReportRowOK, ShownOK, LinkOK, Holds

LEMMA ListKeepsInv ==
    ASSUME ReportsInv, ListReports
    PROVE  ReportsInv'
<1>1. listed' = report /\ UNCHANGED <<report, objects, generating, link>>  BY DEF ListReports
<1>2. ShownOK'  BY <1>1 DEF ReportsInv, ShownOK, ReportRowOK, Holds
<1> QED  BY <1>1, <1>2 DEF ReportsInv, ReportRowOK, UploadsOK, LinkOK, Holds

LEMMA DownloadKeepsInv ==
    ASSUME ReportsInv, DownloadUrl
    PROVE  ReportsInv'
<1>1. UNCHANGED <<report, objects, generating, listed>>  BY DEF DownloadUrl
<1>2. link'.version = report.version /\ link'.shown = listed  BY DEF DownloadUrl
<1>3. report.version \in 1 .. Len(objects)  BY DEF DownloadUrl, ReportsInv, ReportRowOK, Holds
<1>4. LinkOK'  BY <1>1, <1>2, <1>3 DEF LinkOK
<1>5. ShownOK'  BY <1>1, <1>2 DEF ReportsInv, ShownOK, ReportRowOK, Holds
<1> QED  BY <1>1, <1>4, <1>5 DEF ReportsInv, ReportRowOK, UploadsOK, Holds

LEMMA ReportsStep == ReportsInv /\ [ReportsNext]_gvars => ReportsInv'
<1> SUFFICES ASSUME ReportsInv, [ReportsNext]_gvars PROVE ReportsInv'  OBVIOUS
<1>1. ASSUME NEW g \in Generator, NEW content \in Content, GenerateReport(g, content)
      PROVE ReportsInv'
    BY <1>1, GenerateKeepsInv
<1>2. ASSUME NEW g \in Generator, CreatePending(g) PROVE ReportsInv'
    BY <1>2, CreatePendingKeepsInv
<1>3. ASSUME NEW g \in Generator, Upload(g) PROVE ReportsInv'  BY <1>3, UploadKeepsInv
<1>4. ASSUME NEW g \in Generator, UploadFails(g) PROVE ReportsInv'
    BY <1>4, UploadFailsKeepsInv
<1>5. ASSUME NEW g \in Generator, MarkStored(g) PROVE ReportsInv'  BY <1>5, MarkStoredKeepsInv
<1>6. ASSUME NEW g \in Generator, MarkFailed(g) PROVE ReportsInv'  BY <1>6, MarkFailedKeepsInv
<1>7. ASSUME NEW g \in Generator, GeneratorDies(g) PROVE ReportsInv'
    BY <1>7, GeneratorDiesKeepsInv
<1>8. CASE ListReports  BY <1>8, ListKeepsInv
<1>9. CASE DownloadUrl  BY <1>9, DownloadKeepsInv
<1>10. CASE UNCHANGED gvars
    BY <1>10 DEF gvars, ReportsInv, ReportRowOK, UploadsOK, ShownOK, LinkOK, Holds
<1> QED  BY <1>1, <1>2, <1>3, <1>4, <1>5, <1>6, <1>7, <1>8, <1>9, <1>10 DEF ReportsNext

\* Every link given out leads to an object that is there and holds no prohibited
\* material, and a link to the version a reader was shown has the checksum it was shown:
\* for any attempts at a report, uploading, failing and dying in any order between the
\* list and the link, because mark_stored writes the version and the checksum of one
\* attempt together, every other write keeps the two, and an object version never changes.
THEOREM LinksAlwaysMatch == ReportsSpec => []LinksMatchChecksum
<1>1. ReportsSpec => []ReportsInv  BY ReportsStart, ReportsStep, PTL DEF ReportsSpec
<1> QED  BY <1>1, InvGivesLinks, PTL

----------------------------------------------------------------------------
(* Evidence snapshots.                                                      *)

Observation ==
    {NotStoring}
    \cup [phase : {"observed", "insert", "found"}, kind : {"scan", "tool"},
          material : Material, at : Nat]

\* The material is what the employee's situation was at a time that has come.
WasSeen(material, at) == at \in 1 .. now /\ material = truth[at]

StoringOK ==
    \A w \in Writer : storing[w].phase # "idle" =>
        WasSeen(storing[w].material, storing[w].at)

FoundOK ==
    \A w \in Writer : storing[w].phase = "found" =>
        \E s \in snapshot : s.fingerprint = Fingerprint(storing[w].material)

SnapshotsOK ==
    \A s \in snapshot :
        s.fingerprint = Fingerprint(s.material) /\ WasSeen(s.material, s.observed)

EvidenceInv ==
    /\ now \in Nat \ {0}
    /\ truth \in [1 .. now -> Material]
    /\ storing \in [Writer -> Observation]
    /\ StoringOK /\ FoundOK /\ SnapshotsOK /\ ResultsMatchSnapshot

LEMMA EvidenceStarts == EvidenceInit => EvidenceInv
<1> SUFFICES ASSUME EvidenceInit PROVE EvidenceInv  OBVIOUS
<1>1. now = 1 /\ truth \in [{1} -> Material] /\ snapshot = {} /\ results = {}
    BY DEF EvidenceInit
<1>2. storing = [w \in Writer |-> NotStoring]  BY DEF EvidenceInit
<1>3. 1 .. now = {1}  BY <1>1
<1>4. storing \in [Writer -> Observation]  BY <1>2 DEF Observation
<1>5. \A w \in Writer : storing[w].phase = "idle"  BY <1>2 DEF NotStoring
<1> QED
    BY <1>1, <1>3, <1>4, <1>5
    DEF EvidenceInv, StoringOK, FoundOK, SnapshotsOK, ResultsMatchSnapshot

LEMMA InvGivesFaithful == EvidenceInv => EvidenceIsFaithful
<1> SUFFICES ASSUME EvidenceInv PROVE EvidenceIsFaithful  OBVIOUS
<1>1. \A s \in snapshot : s.material = truth[s.observed]
    BY DEF EvidenceInv, SnapshotsOK, WasSeen
<1>2. \A c \in 1 .. now : \A s \in get_at(c) : s.observed <= c  BY DEF get_at
<1> QED  BY <1>1, <1>2 DEF EvidenceIsFaithful, HistoryIsTrue, EvidenceInv

\* The same material has the same fingerprint, and no other has.
LEMMA FingerprintsIdentify ==
    ASSUME NEW a, NEW b
    PROVE  Fingerprint(a) = Fingerprint(b) <=> a = b
BY DEF Fingerprint

LEMMA ObservationShapes ==
    ASSUME NEW o \in Observation, o.phase # "idle"
    PROVE  /\ o \in [phase : {"observed", "insert", "found"}, kind : {"scan", "tool"},
                     material : Material, at : Nat]
           /\ o = [phase |-> o.phase, kind |-> o.kind, material |-> o.material, at |-> o.at]
BY DEF Observation, NotStoring

\* A step that moves one writer, with the clock and what was seen as they were.
LEMMA OneWriterMoves ==
    ASSUME EvidenceInv, NEW w \in Writer, NEW o \in Observation,
           storing' = [storing EXCEPT ![w] = o], UNCHANGED <<truth, now>>,
           o.phase # "idle" => WasSeen(o.material, o.at),
           o.phase = "found" =>
               \E s \in snapshot : s.fingerprint = Fingerprint(o.material),
           snapshot \subseteq snapshot'
    PROVE  storing' \in [Writer -> Observation] /\ StoringOK' /\ FoundOK'
<1>1. storing' \in [Writer -> Observation]  BY DEF EvidenceInv
<1>2. \A v \in Writer : storing'[v] = IF v = w THEN o ELSE storing[v]  BY DEF EvidenceInv
<1>3. StoringOK'  BY <1>2 DEF EvidenceInv, StoringOK, WasSeen
<1>4. FoundOK'
    <2> SUFFICES ASSUME NEW v \in Writer, storing'[v].phase = "found"
                 PROVE \E s \in snapshot' : s.fingerprint = Fingerprint(storing'[v].material)
        BY DEF FoundOK, Fingerprint
    <2>1. PICK s \in snapshot : s.fingerprint = Fingerprint(storing'[v].material)
        BY <1>2 DEF EvidenceInv, FoundOK
    <2> QED  BY <2>1
<1> QED  BY <1>1, <1>3, <1>4

LEMMA ObserveKeepsInv ==
    ASSUME EvidenceInv, NEW w \in Writer, NEW kind \in {"scan", "tool"}, Observe(w, kind)
    PROVE  EvidenceInv'
<1> DEFINE o == [phase |-> "observed", kind |-> kind, material |-> truth[now], at |-> now]
<1>1. storing' = [storing EXCEPT ![w] = o] /\ UNCHANGED <<truth, now, snapshot, results>>
    BY DEF Observe
<1>2. now \in 1 .. now /\ truth[now] \in Material /\ now \in Nat  BY DEF EvidenceInv
<1>3. o \in Observation  BY <1>2 DEF Observation
<1>4. o.phase = "observed" /\ o.material = truth[now] /\ o.at = now  OBVIOUS
<1> HIDE DEF o
<1>5. storing' \in [Writer -> Observation] /\ StoringOK' /\ FoundOK'
    BY <1>1, <1>2, <1>3, <1>4, OneWriterMoves DEF WasSeen
<1> QED
    BY <1>1, <1>5 DEF EvidenceInv, SnapshotsOK, ResultsMatchSnapshot, WasSeen, Fingerprint

LEMMA LookupKeepsInv ==
    ASSUME EvidenceInv, NEW w \in Writer, Lookup(w)
    PROVE  EvidenceInv'
<1> DEFINE s0 == storing[w]
           next == IF Stored(s0.material) = {} THEN "insert" ELSE "found"
           o == [phase |-> next, kind |-> s0.kind, material |-> s0.material, at |-> s0.at]
<1>1. s0 \in Observation /\ s0.phase = "observed"  BY DEF Lookup, EvidenceInv
<1>2. /\ s0 = [phase |-> s0.phase, kind |-> s0.kind, material |-> s0.material, at |-> s0.at]
      /\ s0.kind \in {"scan", "tool"} /\ s0.material \in Material /\ s0.at \in Nat
    BY <1>1, ObservationShapes
<1>3. storing' = [storing EXCEPT ![w] = o] /\ UNCHANGED <<truth, now, snapshot, results>>
    <2>1. storing' = [storing EXCEPT ![w] = [s0 EXCEPT !.phase = next]]  BY DEF Lookup
    <2>2. [s0 EXCEPT !.phase = next] = o  BY <1>2
    <2> QED  BY <2>1, <2>2 DEF Lookup
<1>4. o \in Observation  BY <1>2 DEF Observation
<1>5. /\ o.material = s0.material /\ o.at = s0.at
      /\ o.phase = "found" => Stored(s0.material) # {}
    OBVIOUS
<1>6. WasSeen(s0.material, s0.at)  BY <1>1 DEF EvidenceInv, StoringOK
<1>7. o.phase = "found" => \E s \in snapshot : s.fingerprint = Fingerprint(o.material)
    BY <1>5 DEF Stored
<1> HIDE DEF o, s0, next
<1>8. storing' \in [Writer -> Observation] /\ StoringOK' /\ FoundOK'
    BY <1>3, <1>4, <1>5, <1>6, <1>7, OneWriterMoves
<1> QED
    BY <1>3, <1>8 DEF EvidenceInv, SnapshotsOK, ResultsMatchSnapshot, WasSeen, Fingerprint

\* What is common to the two steps that finish a writer.
LEMMA FinishKeepsStoring ==
    ASSUME EvidenceInv, NEW w \in Writer, Finish(w), UNCHANGED <<truth, now>>,
           snapshot \subseteq snapshot'
    PROVE  storing' \in [Writer -> Observation] /\ StoringOK' /\ FoundOK'
<1>1. storing' = [storing EXCEPT ![w] = NotStoring]  BY DEF Finish
<1>2. NotStoring \in Observation /\ NotStoring.phase = "idle"  BY DEF Observation, NotStoring
<1> QED  BY <1>1, <1>2, OneWriterMoves

LEMMA InsertKeepsInv ==
    ASSUME EvidenceInv, NEW w \in Writer, InsertSnapshot(w)
    PROVE  EvidenceInv'
<1>1. UNCHANGED <<truth, now>> /\ Finish(w) /\ snapshot \subseteq snapshot'
    BY DEF InsertSnapshot
<1>2. storing' \in [Writer -> Observation] /\ StoringOK' /\ FoundOK'
    BY <1>1, FinishKeepsStoring
<1>3. WasSeen(storing[w].material, storing[w].at)
    BY DEF InsertSnapshot, EvidenceInv, StoringOK
<1>4. PICK row : row = Row(storing[w])  OBVIOUS
<1>5. /\ row.fingerprint = Fingerprint(storing[w].material)
      /\ row.material = storing[w].material /\ row.observed = storing[w].at
    BY <1>4 DEF Row, ObservedAt
<1>6. PICK result : result = Result(storing[w])  OBVIOUS
<1>7. /\ result.snapshot = Fingerprint(storing[w].material)
      /\ result.scored = storing[w].material
    BY <1>6 DEF Result
<1>8. \/ UNCHANGED <<snapshot, results>>
      \/ snapshot' = snapshot \cup {row} /\ results' = results \cup {result}
    BY <1>4, <1>6 DEF InsertSnapshot
<1>9. SnapshotsOK'
    BY <1>1, <1>3, <1>5, <1>8 DEF EvidenceInv, SnapshotsOK, WasSeen, Fingerprint
<1>10. ResultsMatchSnapshot'
    <2>1. CASE UNCHANGED <<snapshot, results>>
        BY <2>1 DEF EvidenceInv, ResultsMatchSnapshot
    <2>2. CASE snapshot' = snapshot \cup {row} /\ results' = results \cup {result}
        <3> SUFFICES ASSUME NEW r \in results'
                     PROVE \E s \in snapshot' : s.fingerprint = r.snapshot /\ s.material = r.scored
            BY DEF ResultsMatchSnapshot
        <3>1. CASE r \in results
            <4>1. PICK s \in snapshot : s.fingerprint = r.snapshot /\ s.material = r.scored
                BY <3>1 DEF EvidenceInv, ResultsMatchSnapshot
            <4> QED  BY <4>1, <2>2
        <3>2. CASE r = result
            <4>1. row \in snapshot'  BY <2>2
            <4> QED  BY <4>1, <3>2, <1>5, <1>7
        <3> QED  BY <2>2, <3>1, <3>2
    <2> QED  BY <1>8, <2>1, <2>2
<1> QED  BY <1>1, <1>2, <1>9, <1>10 DEF EvidenceInv

LEMMA ReuseKeepsInv ==
    ASSUME EvidenceInv, NEW w \in Writer, ReuseSnapshot(w)
    PROVE  EvidenceInv'
<1>1. UNCHANGED <<truth, now, snapshot>> /\ Finish(w)  BY DEF ReuseSnapshot
<1>2. storing' \in [Writer -> Observation] /\ StoringOK' /\ FoundOK'
    BY <1>1, FinishKeepsStoring
<1>3. PICK found \in snapshot : found.fingerprint = Fingerprint(storing[w].material)
    BY DEF ReuseSnapshot, EvidenceInv, FoundOK
<1>4. found.material = storing[w].material
    BY <1>3, FingerprintsIdentify DEF EvidenceInv, SnapshotsOK
<1>5. PICK result : result = Result(storing[w])  OBVIOUS
<1>6. /\ result.snapshot = Fingerprint(storing[w].material)
      /\ result.scored = storing[w].material
    BY <1>5 DEF Result
<1>7. \A r \in results' : r \in results \/ r = result  BY <1>5 DEF ReuseSnapshot
<1>8. ResultsMatchSnapshot'
    <2> SUFFICES ASSUME NEW r \in results'
                 PROVE \E s \in snapshot' : s.fingerprint = r.snapshot /\ s.material = r.scored
        BY DEF ResultsMatchSnapshot
    <2>1. CASE r \in results  BY <2>1, <1>1 DEF EvidenceInv, ResultsMatchSnapshot
    <2>2. CASE r = result  BY <2>2, <1>1, <1>3, <1>4, <1>6
    <2> QED  BY <1>7, <2>1, <2>2
<1>9. SnapshotsOK'  BY <1>1 DEF EvidenceInv, SnapshotsOK, WasSeen, Fingerprint
<1> QED  BY <1>1, <1>2, <1>8, <1>9 DEF EvidenceInv

LEMMA TimeKeepsInv ==
    ASSUME EvidenceInv, TimePasses
    PROVE  EvidenceInv'
<1>1. now \in Nat \ {0} /\ now' = now + 1 /\ UNCHANGED <<snapshot, results, storing>>
    BY DEF TimePasses, EvidenceInv
<1>2. PICK m \in Material : truth' = [n \in 1 .. now' |-> IF n = now' THEN m ELSE truth[n]]
    BY DEF TimePasses
<1>3. now' \in Nat \ {0} /\ now' \notin 1 .. now /\ 1 .. now \subseteq 1 .. now'  BY <1>1
<1>4. truth' \in [1 .. now' -> Material]
    <2>1. \A n \in 1 .. now' : n = now' \/ n \in 1 .. now  BY <1>1
    <2> QED  BY <1>2, <2>1 DEF EvidenceInv
<1>5. \A n \in 1 .. now : truth'[n] = truth[n]  BY <1>2, <1>3
<1>6. \A material, at : WasSeen(material, at) => WasSeen(material, at)'
    BY <1>3, <1>5 DEF WasSeen
<1>7. StoringOK' /\ SnapshotsOK' /\ FoundOK' /\ ResultsMatchSnapshot'
    <2>1. StoringOK'  BY <1>1, <1>6 DEF EvidenceInv, StoringOK
    <2>2. SnapshotsOK'  BY <1>1, <1>6 DEF EvidenceInv, SnapshotsOK, Fingerprint
    <2>3. FoundOK'  BY <1>1 DEF EvidenceInv, FoundOK, Fingerprint
    <2>4. ResultsMatchSnapshot'  BY <1>1 DEF EvidenceInv, ResultsMatchSnapshot
    <2> QED  BY <2>1, <2>2, <2>3, <2>4
<1> QED  BY <1>1, <1>3, <1>4, <1>7 DEF EvidenceInv

LEMMA EvidenceStep == EvidenceInv /\ [EvidenceNext]_evars => EvidenceInv'
<1> SUFFICES ASSUME EvidenceInv, [EvidenceNext]_evars PROVE EvidenceInv'  OBVIOUS
<1>1. ASSUME NEW w \in Writer, NEW kind \in {"scan", "tool"}, Observe(w, kind)
      PROVE EvidenceInv'
    BY <1>1, ObserveKeepsInv
<1>2. ASSUME NEW w \in Writer, Lookup(w) PROVE EvidenceInv'  BY <1>2, LookupKeepsInv
<1>3. ASSUME NEW w \in Writer, InsertSnapshot(w) PROVE EvidenceInv'  BY <1>3, InsertKeepsInv
<1>4. ASSUME NEW w \in Writer, ReuseSnapshot(w) PROVE EvidenceInv'  BY <1>4, ReuseKeepsInv
<1>5. CASE TimePasses  BY <1>5, TimeKeepsInv
<1>6. CASE UNCHANGED evars
    BY <1>6 DEF evars, EvidenceInv, StoringOK, FoundOK, SnapshotsOK, ResultsMatchSnapshot,
       WasSeen, Fingerprint
<1> QED  BY <1>1, <1>2, <1>3, <1>4, <1>5, <1>6 DEF EvidenceNext

\* A stored snapshot shows the employee at its time of observation, and a result the
\* evidence it was computed from: for any number of scans and tool calls that observe at
\* different times and store late, because the fingerprint under which a snapshot is
\* found or refused is that of the material.
THEOREM EvidenceIsAlwaysFaithful == EvidenceSpec => []EvidenceIsFaithful
<1>1. EvidenceSpec => []EvidenceInv  BY EvidenceStarts, EvidenceStep, PTL DEF EvidenceSpec
<1> QED  BY <1>1, InvGivesFaithful, PTL

----------------------------------------------------------------------------
(* Comment evidence.                                                        *)

CommentObservation == [phase : {"called", "absent", "stored"}, text : Comment, updated : Nat,
                retrieved : Nat]

SignalRow == [category : Category,
              authorType : {"employee", "manager", "reviewer", "automation"},
              window : BOOLEAN, updated : Nat, retrieved : Nat,
              freshness : {"current", "stale"}]

\* The comment is the newest of its versions.
VersionsOK ==
    /\ clock \in Nat /\ comment \in versions
    /\ \A v \in versions : v.text \in Comment /\ v.updated \in Nat /\ v.updated <= comment.updated
    /\ comment.updated <= clock

\* A caller's observation is of a version that stood when it read it.
WasRead(o) ==
    /\ o.retrieved <= clock
    /\ \E v \in versions : v.text = o.text /\ v.updated = o.updated /\ StoodAt(v, o.retrieved)

CallsOK ==
    /\ call \in [Callers -> {NoCall} \cup CommentObservation]
    /\ \A k \in Callers : call[k].phase # "idle" => WasRead(call[k])
    /\ \A k \in Callers : call[k].phase \in {"absent", "stored"} => HasSignal(call[k].text)

SignalOK(g) ==
    /\ g.retrieved <= clock
    /\ \E v \in versions : v.updated = g.updated /\ StoodAt(v, g.retrieved) /\ Tells(g, v)

SignalsOK ==
    /\ signals \in Seq(SignalRow)
    /\ \A i \in DOMAIN signals : SignalOK(signals[i])
    /\ RowsAreUnique

CommentInv == VersionsOK /\ CallsOK /\ SignalsOK

LEMMA CommentsStart == CommentInit => CommentInv
<1> SUFFICES ASSUME CommentInit PROVE CommentInv  OBVIOUS
<1>1. /\ clock = 1 /\ versions = {comment} /\ call = [k \in Callers |-> NoCall]
      /\ signals = <<>>
    BY DEF CommentInit
<1>2. comment.text \in Comment /\ comment.updated = 1
    BY CommentAssumption DEF CommentInit
<1>3. VersionsOK  BY <1>1, <1>2 DEF VersionsOK
<1>4. CallsOK  BY <1>1 DEF CallsOK, NoCall
<1>5. SignalsOK  BY <1>1 DEF SignalsOK, RowsAreUnique
<1> QED  BY <1>3, <1>4, <1>5 DEF CommentInv

\* A text that classifies has one category.
LEMMA OneCategory ==
    ASSUME NEW c, c.matches \subseteq Category, HasSignal(c)
    PROVE  c.matches = {CHOOSE k \in c.matches : TRUE}
<1>1. IsFiniteSet(c.matches)  BY CommentAssumption, FS_Subset
<1>2. Cardinality(c.matches) = 1  BY DEF HasSignal
<1>3. \E k : c.matches = {k}  BY <1>1, <1>2, FS_Singleton
<1> QED  BY <1>3

\* The row of an observation is one of what the version it was read of said.
LEMMA SignalTells ==
    ASSUME CommentInv, NEW o \in CommentObservation, WasRead(o), HasSignal(o.text)
    PROVE  Signal(o) \in SignalRow /\ SignalOK(Signal(o))
<1> DEFINE g == Signal(o)
<1>1. PICK v \in versions : v.text = o.text /\ v.updated = o.updated /\ StoodAt(v, o.retrieved)
    BY DEF WasRead
<1>2. /\ o.text \in Comment /\ o.updated \in Nat /\ o.retrieved \in Nat
      /\ o.text.matches \subseteq Category /\ o.text.window \in BOOLEAN
    BY DEF CommentObservation, Comment
<1>3. o.text.matches = {CHOOSE k \in o.text.matches : TRUE}
    BY <1>2, OneCategory
<1>4. /\ g.category = CHOOSE k \in o.text.matches : TRUE
      /\ g.authorType = AuthorType(o.text.author)
      /\ g.updated = o.updated /\ g.retrieved = o.retrieved
      /\ g.freshness = Freshness(o)
    BY DEF Signal
<1>5. g.window = (o.text.window /\ Temporary \in o.text.matches)
    BY DEF Signal
<1>6. g.window => g.category = Temporary /\ v.text.window
  <2>1. g.window => o.text.window /\ Temporary \in o.text.matches
      BY <1>5, Zenon
  <2> QED  BY <1>1, <1>3, <1>4, <2>1
<1>7. g.freshness = "current" <=> g.retrieved <= v.updated + Day
    BY <1>1, <1>2, <1>4, CommentAssumption DEF Freshness
<1>8. ~o.text.disqualified /\ AuthorType(o.text.author) # "unmapped"
    BY DEF HasSignal
<1>9. /\ AuthorType(o.text.author) \in {"employee", "manager", "reviewer", "automation"}
      /\ Freshness(o) \in {"current", "stale"}
    BY <1>8 DEF AuthorType, Freshness
<1>10. g.window \in BOOLEAN
    BY <1>5, Zenon
<1>11. g.category \in Category
    BY <1>2, <1>3, <1>4
<1>12. g \in SignalRow
    BY <1>2, <1>4, <1>9, <1>10, <1>11 DEF Signal, SignalRow
<1>13. Tells(g, v)
    BY <1>1, <1>3, <1>4, <1>6, <1>7, <1>8 DEF Tells
<1>14. g.retrieved <= clock
    BY <1>4 DEF WasRead
<1> HIDE DEF g
<1>15. SignalOK(g)
    BY <1>1, <1>4, <1>13, <1>14 DEF SignalOK
<1> QED  BY <1>12, <1>15 DEF g

\* The fields of a stored row.
LEMMA SignalFields ==
    ASSUME CommentInv, NEW i \in DOMAIN signals
    PROVE  signals[i].updated \in Nat /\ signals[i].retrieved \in Nat
<1>1. signals[i] \in SignalRow
    BY DEF CommentInv, SignalsOK
<1> QED  BY <1>1 DEF SignalRow

\* Of a caller's call only the phase changes, with nothing stored.
LEMMA CallKeepsInv ==
    ASSUME CommentInv, NEW k \in Callers, NEW o \in {NoCall} \cup CommentObservation,
           call' = [call EXCEPT ![k] = o],
           o.phase # "idle" => WasRead(o),
           o.phase \in {"absent", "stored"} => HasSignal(o.text),
           UNCHANGED <<clock, comment, versions, signals>>
    PROVE  CommentInv'
<1>1. VersionsOK' /\ SignalsOK'
    BY DEF CommentInv, VersionsOK, SignalsOK, SignalOK, RowsAreUnique, StoodAt, Tells
<1>2. call'[k] = o /\ \A j \in Callers : j # k => call'[j] = call[j]
    BY DEF CommentInv, CallsOK
<1>3. CallsOK'
    BY <1>2 DEF CommentInv, CallsOK, WasRead, StoodAt
<1> QED  BY <1>1, <1>3 DEF CommentInv

LEMMA PhaseKeepsInv ==
    ASSUME CommentInv, NEW k \in Callers, NEW phase \in {"called", "absent", "stored"},
           call[k].phase # "idle", HasSignal(call[k].text), Goes(k, phase)
    PROVE  CommentInv'
<1> DEFINE o == [call[k] EXCEPT !.phase = phase]
<1>1. call[k] \in CommentObservation /\ WasRead(call[k])
    BY DEF CommentInv, CallsOK, NoCall
<1>2. /\ o \in CommentObservation /\ o.phase = phase /\ o.text = call[k].text
      /\ o.updated = call[k].updated /\ o.retrieved = call[k].retrieved
    BY <1>1 DEF CommentObservation
<1>3. WasRead(o)
    BY <1>1, <1>2 DEF WasRead
<1>4. /\ call' = [call EXCEPT ![k] = o]
      /\ UNCHANGED <<clock, comment, versions, signals>>
    BY DEF Goes
<1> HIDE DEF o
<1> QED  BY <1>2, <1>3, <1>4, CallKeepsInv

LEMMA EndKeepsInv ==
    ASSUME CommentInv, NEW k \in Callers, Ends(k)
    PROVE  CommentInv'
<1>1. NoCall.phase = "idle"  BY DEF NoCall
<1> QED  BY <1>1, CallKeepsInv DEF Ends

\* The comment stands while it is read.
LEMMA RetrieveKeepsInv ==
    ASSUME CommentInv, NEW k \in Callers, Retrieve(k)
    PROVE  CommentInv'
<1> DEFINE o == [phase |-> "called", text |-> comment.text, updated |-> comment.updated,
                 retrieved |-> clock]
<1>1. /\ call' = [call EXCEPT ![k] = o]
      /\ UNCHANGED <<clock, comment, versions, signals>>
    BY DEF Retrieve
<1>2. o \in CommentObservation
    BY DEF CommentObservation, CommentInv, VersionsOK
<1>3. StoodAt(comment, clock)
    BY DEF StoodAt, CommentInv, VersionsOK
<1>4. WasRead(o)
    BY <1>3 DEF WasRead, CommentInv, VersionsOK
<1>5. o.phase = "called"
    OBVIOUS
<1> HIDE DEF o
<1> QED  BY <1>1, <1>2, <1>4, <1>5, CallKeepsInv

\* The insert: a row the table does not have.
LEMMA SignalKeepsInv ==
    ASSUME CommentInv, NEW k \in Callers, Inserts(k)
    PROVE  CommentInv'
<1> DEFINE g == Signal(call[k])
           o == [call[k] EXCEPT !.phase = "stored"]
<1>1. /\ call[k].phase = "absent" /\ signals' = Append(signals, g)
      /\ call' = [call EXCEPT ![k] = o] /\ UNCHANGED <<clock, comment, versions>>
      /\ \A i \in DOMAIN signals : signals[i] # g
    BY DEF Inserts, Insertable, IsStored
<1>2. call[k] \in CommentObservation /\ WasRead(call[k]) /\ HasSignal(call[k].text)
    BY <1>1 DEF CommentInv, CallsOK, NoCall
<1>3. g \in SignalRow /\ SignalOK(g)
    BY <1>2, SignalTells
<1>4. /\ o \in CommentObservation /\ o.phase = "stored" /\ o.text = call[k].text
      /\ o.updated = call[k].updated /\ o.retrieved = call[k].retrieved
    BY <1>2 DEF CommentObservation
<1>5. WasRead(o)
    BY <1>2, <1>4 DEF WasRead
<1> HIDE DEF o, g
<1>6. call'[k] = o /\ \A j \in Callers : j # k => call'[j] = call[j]
    BY <1>1 DEF CommentInv, CallsOK
<1>7. CallsOK'
    BY <1>1, <1>2, <1>4, <1>5, <1>6 DEF CommentInv, CallsOK, WasRead, StoodAt
<1>8. /\ signals' \in Seq(SignalRow) /\ Len(signals') = Len(signals) + 1
      /\ signals'[Len(signals) + 1] = g
      /\ \A i \in 1..Len(signals) : signals'[i] = signals[i]
      /\ DOMAIN signals = 1..Len(signals) /\ DOMAIN signals' = 1..Len(signals')
      /\ Len(signals) \in Nat
    BY <1>1, <1>3 DEF CommentInv, SignalsOK
<1>9. \A i \in DOMAIN signals' : i \in DOMAIN signals \/ i = Len(signals) + 1
    BY <1>8
<1>10. RowsAreUnique'
    BY <1>1, <1>8, <1>9 DEF CommentInv, SignalsOK, RowsAreUnique
<1>11. \A i \in DOMAIN signals' : SignalOK(signals'[i])
    BY <1>3, <1>8, <1>9 DEF CommentInv, SignalsOK
<1>12. SignalsOK'
    BY <1>1, <1>8, <1>10, <1>11 DEF SignalsOK, SignalOK, StoodAt, Tells
<1> QED  BY <1>1, <1>7, <1>12 DEF CommentInv, VersionsOK

\* An edit is later than every read so far, so the versions stood when they did.
LEMMA EditKeepsInv ==
    ASSUME CommentInv, EditComment
    PROVE  CommentInv'
<1>1. PICK c \in Texts :
         /\ comment.updated < clock /\ comment' = [text |-> c, updated |-> clock]
         /\ versions' = versions \cup {comment'} /\ UNCHANGED <<clock, call, signals>>
    BY DEF EditComment
<1>2. c \in Comment  BY CommentAssumption
<1>3. VersionsOK'
    BY <1>1, <1>2 DEF CommentInv, VersionsOK
<1>4. ASSUME NEW v \in versions, NEW t, t <= clock, StoodAt(v, t) PROVE StoodAt(v, t)'
    BY <1>1, <1>4 DEF StoodAt
<1>5. CallsOK'
  <2>1. ASSUME NEW o, WasRead(o) PROVE WasRead(o)'
      BY <1>1, <1>4, <2>1 DEF WasRead
  <2> QED  BY <1>1, <2>1 DEF CommentInv, CallsOK
<1>6. SignalsOK'
  <2>1. ASSUME NEW g, SignalOK(g) PROVE SignalOK(g)'
      BY <1>1, <1>4, <2>1 DEF SignalOK, Tells
  <2> QED  BY <1>1, <2>1 DEF CommentInv, SignalsOK, RowsAreUnique
<1> QED  BY <1>3, <1>5, <1>6 DEF CommentInv

LEMMA ClockKeepsInv ==
    ASSUME CommentInv, ClockTicks
    PROVE  CommentInv'
<1>1. clock' = clock + 1 /\ clock \in Nat /\ UNCHANGED <<comment, versions, call, signals>>
    BY DEF ClockTicks, CommentInv, VersionsOK
<1>2. VersionsOK'
    BY <1>1 DEF CommentInv, VersionsOK
<1>3. ASSUME NEW k \in Callers, call[k].phase # "idle" PROVE WasRead(call[k])'
  <2>1. WasRead(call[k]) /\ call[k] \in CommentObservation
      BY <1>3 DEF CommentInv, CallsOK, NoCall
  <2>2. call[k].retrieved \in Nat
      BY <2>1 DEF CommentObservation
  <2> QED  BY <1>1, <2>1, <2>2 DEF WasRead, StoodAt
<1>4. CallsOK'
    BY <1>1, <1>3 DEF CommentInv, CallsOK
<1>5. ASSUME NEW i \in DOMAIN signals PROVE SignalOK(signals[i])'
  <2>1. SignalOK(signals[i]) /\ signals[i].retrieved \in Nat
      BY SignalFields DEF CommentInv, SignalsOK
  <2> QED  BY <1>1, <2>1 DEF SignalOK, StoodAt, Tells
<1>6. SignalsOK'
    BY <1>1, <1>5 DEF CommentInv, SignalsOK, RowsAreUnique
<1> QED  BY <1>2, <1>4, <1>6 DEF CommentInv

LEMMA CommentStep == CommentInv /\ [CommentNext]_cvars => CommentInv'
<1> SUFFICES ASSUME CommentInv, [CommentNext]_cvars PROVE CommentInv'  OBVIOUS
<1>1. CASE EditComment  BY <1>1, EditKeepsInv
<1>2. CASE ClockTicks  BY <1>2, ClockKeepsInv
<1>3. ASSUME NEW k \in Callers, Retrieve(k) PROVE CommentInv'
    BY <1>3, RetrieveKeepsInv
<1>4. ASSUME NEW k \in Callers, ClassifiesNothing(k) \/ CallEnds(k) PROVE CommentInv'
    BY <1>4, EndKeepsInv DEF ClassifiesNothing, CallEnds
<1>5. ASSUME NEW k \in Callers, Inserts(k) PROVE CommentInv'
    BY <1>5, SignalKeepsInv
<1>6. ASSUME NEW k \in Callers, LooksUp(k) PROVE CommentInv'
  <2>1. call[k].phase # "idle" /\ HasSignal(call[k].text)
      BY <1>6 DEF LooksUp
  <2>2. Goes(k, "stored") \/ Goes(k, "absent")
      BY <1>6 DEF LooksUp
  <2> QED  BY <2>1, <2>2, PhaseKeepsInv
<1>7. ASSUME NEW k \in Callers, CallFails(k) \/ CallRepeats(k) PROVE CommentInv'
  <2>1. call[k].phase \in {"absent", "stored"} /\ Goes(k, "called")
      BY <1>7 DEF CallFails, CallRepeats
  <2>2. HasSignal(call[k].text)
      BY <2>1 DEF CommentInv, CallsOK
  <2> QED  BY <2>1, <2>2, PhaseKeepsInv
<1>8. CASE UNCHANGED cvars
    BY <1>8 DEF cvars, CommentInv, VersionsOK, CallsOK, WasRead, SignalsOK, SignalOK,
       RowsAreUnique, StoodAt, Tells
<1> QED  BY <1>1, <1>2, <1>3, <1>4, <1>5, <1>6, <1>7, <1>8 DEF CommentNext

\* Were the row read first of a later version than the other, the other would have been
\* read when its version no longer stood.
LEMMA CommentInvIsTrue == CommentInv => SignalsAreTrue
<1> SUFFICES ASSUME CommentInv PROVE SignalsAreTrue  OBVIOUS
<1>1. RowsTellTheirVersion
    BY DEF RowsTellTheirVersion, CommentInv, SignalsOK, SignalOK
<1>2. RowsFollowEdits
  <2> SUFFICES ASSUME NEW i \in DOMAIN signals, NEW j \in DOMAIN signals,
                      signals[i].retrieved < signals[j].retrieved,
                      ~(signals[i].updated <= signals[j].updated)
               PROVE  FALSE
      BY DEF RowsFollowEdits
  <2>1. /\ signals[i].updated \in Nat /\ signals[j].updated \in Nat
        /\ signals[i].retrieved \in Nat /\ signals[j].retrieved \in Nat
      BY SignalFields
  <2>2. PICK v \in versions : v.updated = signals[i].updated /\ StoodAt(v, signals[i].retrieved)
      BY DEF CommentInv, SignalsOK, SignalOK
  <2>3. PICK w \in versions : w.updated = signals[j].updated /\ StoodAt(w, signals[j].retrieved)
      BY DEF CommentInv, SignalsOK, SignalOK
  <2> QED  BY <2>1, <2>2, <2>3 DEF StoodAt
<1> QED  BY <1>1, <1>2 DEF SignalsAreTrue, CommentInv, SignalsOK

\* Whatever overlapping, failing, repeated and late calls of the tool store while people
\* edit the comment, every row tells what the comment said when it was read, the rows
\* follow the edits, and no observation is stored twice.
THEOREM SignalsAreAlwaysTrue == CommentSpec => []SignalsAreTrue
<1>1. CommentSpec => []CommentInv  BY CommentsStart, CommentStep, PTL DEF CommentSpec
<1> QED  BY <1>1, CommentInvIsTrue, PTL

----------------------------------------------------------------------------
(* The progress history.                                                    *)

\* The issue has been in this state; a snapshot shows it so.
WasIn(i, s) == \E n \in 1 .. Len(jira[i]) : jira[i][n] = s
IsShown(i, s) == \E shot \in snapshots : shot.issue = i /\ shot.state = s

SeenOK ==
    \A b \in Build : build[b].phase = "read" =>
        \A i \in Issue :
            /\ build[b].seen[i].at \in 1 .. Len(jira[i])
            /\ build[b].seen[i].state = jira[i][build[b].seen[i].at]

RowOK(i, row) == row # NoRow => WasIn(i, row.state) /\ IsShown(i, row.fingerprint)

CurrentOK == \A i \in Issue : RowOK(i, current[i])

\* A row is never deleted, so one that was read is still there.
LoadedOK ==
    \A b \in Build : build[b].phase = "read" =>
        \A i \in Issue : build[b].loaded[i] # NotLoaded =>
            /\ RowOK(i, build[b].loaded[i])
            /\ build[b].loaded[i] # NoRow => current[i] # NoRow

\* An event is of an issue and of one of its changes.
EventsOK == \A e \in history : e.issue \in Issue /\ e.at \in 1 .. Len(jira[e.issue])

ProgressInv ==
    /\ jira \in [Issue -> Seq(TaskState)] /\ \A i \in Issue : Len(jira[i]) >= 1
    /\ build = [b \in Build |-> build[b]]
    /\ SeenOK /\ CurrentOK /\ LoadedOK /\ EventsOK
    /\ HistoryExplainsChanges

LEMMA ProgressStarts == ProgressInit => ProgressInv
<1> SUFFICES ASSUME ProgressInit PROVE ProgressInv  OBVIOUS
<1>1. PICK s \in TaskState : jira = [i \in Issue |-> <<s>>]  BY DEF ProgressInit
<1>2. <<s>> \in Seq(TaskState) /\ Len(<<s>>) >= 1  OBVIOUS
<1>3. jira \in [Issue -> Seq(TaskState)] /\ \A i \in Issue : Len(jira[i]) >= 1
    <2> DEFINE first == <<s>>
    <2>1. first \in Seq(TaskState) /\ Len(first) >= 1  BY <1>2
    <2>2. jira = [i \in Issue |-> first]  BY <1>1
    <2> HIDE DEF first
    <2> QED  BY <2>1, <2>2
<1>4. build = [b \in Build |-> NoBuild]  BY DEF ProgressInit
<1>5. build = [b \in Build |-> build[b]] /\ \A b \in Build : build[b].phase = "idle"
    BY <1>4 DEF NoBuild
<1>6. \A i \in Issue : current[i] = NoRow  BY DEF ProgressInit
<1>7. snapshots = {} /\ history = {}  BY DEF ProgressInit
<1> QED
    BY <1>3, <1>5, <1>6, <1>7
    DEF ProgressInv, SeenOK, CurrentOK, LoadedOK, RowOK, HistoryExplainsChanges,
        ChangesHaveSnapshots, EventsAreDated, EventsOK

----------------------------------------------------------------------------

LEMMA BlockerChangesReadAField ==
    ASSUME NEW type \in {"blocker_added", "blocker_removed"}, NEW from, NEW to, NEW happened,
           NEW e \in Became(type, happened, from, to)
    PROVE  e.old = Field(from, e.type) /\ e.new = Field(to, e.type)
<1>1. e = [type |-> type, old |-> from.blockers, new |-> to.blockers, progress |-> FALSE]
    BY DEF Became
<1>2. e.type = type /\ e.old = from.blockers /\ e.new = to.blockers  BY <1>1
<1>3. Field(from, type) = from.blockers /\ Field(to, type) = to.blockers  BY DEF Field
<1> QED  BY <1>2, <1>3

LEMMA EventsReadFields ==
    ASSUME NEW from, NEW to, NEW e \in derive_progress_events(from, to)
    PROVE  e.old = Field(from, e.type) /\ e.new = Field(to, e.type)
<1>1. CASE e \in RemainingEvents(from.remaining, to.remaining)
    <2>1. \E p : e = [type |-> "remaining_estimate_changed", old |-> from.remaining,
                      new |-> to.remaining, progress |-> p]
        BY <1>1, Zenon DEF RemainingEvents, Changed
    <2>2. /\ e.type = "remaining_estimate_changed"
          /\ e.old = from.remaining /\ e.new = to.remaining
        BY <2>1
    <2> QED  BY <2>2 DEF Field
<1>2. CASE e \in SpentEvents(from.spent, to.spent)
    <2> DEFINE grown == to.spent # Unset /\ (from.spent = Unset \/ from.spent < to.spent)
               type == IF grown THEN "work_logged" ELSE "time_spent_corrected"
    <2>1. e \in Changed(type, from.spent, to.spent, grown)  BY <1>2 DEF SpentEvents
    <2>2. type \in {"work_logged", "time_spent_corrected"}  OBVIOUS
    <2> HIDE DEF type, grown
    <2>3. e = [type |-> type, old |-> from.spent, new |-> to.spent, progress |-> grown]
        BY <2>1, Zenon DEF Changed
    <2>4. e.type = type /\ e.old = from.spent /\ e.new = to.spent
        BY <2>3
    <2> QED  BY <2>2, <2>4 DEF Field
<1>3. CASE e \in Changed("status_changed", from.status, to.status, TRUE)
    <2>1. e.type = "status_changed" /\ e.old = from.status /\ e.new = to.status
        BY <1>3 DEF Changed
    <2> QED  BY <2>1 DEF Field
<1>4. CASE e \in Changed("other_changed", from.other, to.other, FALSE)
    <2>1. e.type = "other_changed" /\ e.old = from.other /\ e.new = to.other
        BY <1>4 DEF Changed
    <2> QED  BY <2>1 DEF Field
<1>5. CASE e \in BlockerEvents(from, to)
    BY <1>5, BlockerChangesReadAField DEF BlockerEvents
<1>6. CASE e \in CompletionEvents(from.status, to.status)
    <2>1. e.type = "task_completed" /\ e.old = from.status /\ e.new = to.status
        BY <1>6 DEF CompletionEvents, Changed
    <2> QED  BY <2>1 DEF Field
<1> QED  BY <1>1, <1>2, <1>3, <1>4, <1>5, <1>6 DEF derive_progress_events

----------------------------------------------------------------------------
\* What a step leaves true: states that were reached and shown stay so.

\* Facts about rows that only grow when Jira and the snapshots do.
Grows ==
    /\ \A i \in Issue : \A n \in 1 .. Len(jira[i]) :
          n \in 1 .. Len(jira'[i]) /\ jira'[i][n] = jira[i][n]
    /\ snapshots \subseteq snapshots'

LEMMA RowsStayOK ==
    ASSUME Grows, NEW i \in Issue, NEW row, RowOK(i, row)
    PROVE  RowOK(i, row)'
<1>1. \A s : WasIn(i, s) => WasIn(i, s)'  BY DEF Grows, WasIn
<1>2. \A s : IsShown(i, s) => IsShown(i, s)'  BY DEF Grows, IsShown
<1> QED  BY <1>1, <1>2 DEF RowOK, NoRow

\* An event that is dated, with the snapshot of what the task became.
Explained(e) ==
    /\ e.issue \in Issue /\ e.at \in 1 .. Len(jira[e.issue])
    /\ Field(jira[e.issue][e.at], e.type) = e.new
    /\ \E n \in 1 .. Len(jira[e.issue]) : Field(jira[e.issue][n], e.type) = e.old
    /\ \E s \in snapshots : s.issue = e.issue /\ Field(s.state, e.type) = e.new

LEMMA HistoryIsExplained == ProgressInv => \A e \in history : Explained(e)
BY DEF ProgressInv, HistoryExplainsChanges, ChangesHaveSnapshots, EventsAreDated, EventsOK,
   Explained

LEMMA EventsStayExplained ==
    ASSUME Grows, NEW e, Explained(e)
    PROVE  Explained(e)'
<1>1. /\ e.issue \in Issue /\ e.at \in 1 .. Len(jira'[e.issue])
      /\ jira'[e.issue][e.at] = jira[e.issue][e.at]
    BY DEF Grows, Explained
<1>2. Field(jira'[e.issue][e.at], e.type) = e.new  BY <1>1 DEF Explained
<1>3. \E n \in 1 .. Len(jira'[e.issue]) : Field(jira'[e.issue][n], e.type) = e.old
    <2>1. PICK n \in 1 .. Len(jira[e.issue]) : Field(jira[e.issue][n], e.type) = e.old
        BY DEF Explained
    <2>2. n \in 1 .. Len(jira'[e.issue]) /\ jira'[e.issue][n] = jira[e.issue][n]
        BY <2>1, <1>1 DEF Grows
    <2> QED  BY <2>1, <2>2
<1>4. \E s \in snapshots' : s.issue = e.issue /\ Field(s.state, e.type) = e.new
    BY DEF Grows, Explained
<1> QED  BY <1>1, <1>2, <1>3, <1>4 DEF Explained, Field

\* The three facts that make up HistoryExplainsChanges, put together again.
LEMMA ExplainedIsEnough ==
    ASSUME \A e \in history' : Explained(e)', CurrentOK'
    PROVE  EventsOK' /\ HistoryExplainsChanges'
<1>1. EventsOK'  BY DEF EventsOK, Explained
<1>2. EventsAreDated'  BY DEF EventsAreDated, Explained
<1>3. ChangesHaveSnapshots'
    BY DEF ChangesHaveSnapshots, Explained, CurrentOK, RowOK, IsShown
<1> QED  BY <1>1, <1>2, <1>3 DEF HistoryExplainsChanges

----------------------------------------------------------------------------

\* A step that leaves the tables alone, but for what Jira says.
LEMMA OneBuildMoves ==
    ASSUME ProgressInv, NEW b \in Build, NEW next,
           build' = [build EXCEPT ![b] = next],
           UNCHANGED <<jira, current, snapshots, history>>,
           next.phase = "read" =>
               \A i \in Issue : /\ next.seen[i].at \in 1 .. Len(jira[i])
                                /\ next.seen[i].state = jira[i][next.seen[i].at],
           next.phase = "read" =>
               \A i \in Issue : next.loaded[i] # NotLoaded =>
                   /\ RowOK(i, next.loaded[i])
                   /\ next.loaded[i] # NoRow => current[i] # NoRow
    PROVE  ProgressInv'
<1>1. \A c \in Build : build'[c] = IF c = b THEN next ELSE build[c]  BY DEF ProgressInv
<1>2. build' = [c \in Build |-> build'[c]]  BY DEF ProgressInv
<1>3. SeenOK'  BY <1>1 DEF ProgressInv, SeenOK
<1>4. \A i \in Issue : \A row : RowOK(i, row) => RowOK(i, row)'  BY DEF RowOK, WasIn, IsShown, NoRow
<1>5. LoadedOK'  BY <1>1, <1>4 DEF ProgressInv, LoadedOK, NoRow, NotLoaded
<1>6. CurrentOK'  BY <1>4 DEF ProgressInv, CurrentOK
<1>7. EventsOK' /\ HistoryExplainsChanges'
    BY DEF ProgressInv, EventsOK, HistoryExplainsChanges, ChangesHaveSnapshots, EventsAreDated,
       Field, NoRow
<1> QED  BY <1>2, <1>3, <1>5, <1>6, <1>7 DEF ProgressInv

LEMMA EditsKeepInv ==
    ASSUME ProgressInv, NEW i \in Issue, NEW s \in TaskState, SomeoneEdits(i, s)
    PROVE  ProgressInv'
<1>1. jira' = [jira EXCEPT ![i] = Append(@, s)]
      /\ UNCHANGED <<current, snapshots, history, build>>
    BY DEF SomeoneEdits
<1>2. jira \in [Issue -> Seq(TaskState)]  BY DEF ProgressInv
<1>3. \A j \in Issue :
        /\ jira'[j] \in Seq(TaskState) /\ Len(jira'[j]) >= Len(jira[j])
        /\ \A n \in 1 .. Len(jira[j]) : n \in 1 .. Len(jira'[j]) /\ jira'[j][n] = jira[j][n]
    <2> SUFFICES ASSUME NEW j \in Issue
                 PROVE /\ jira'[j] \in Seq(TaskState) /\ Len(jira'[j]) >= Len(jira[j])
                       /\ \A n \in 1 .. Len(jira[j]) :
                             n \in 1 .. Len(jira'[j]) /\ jira'[j][n] = jira[j][n]
        OBVIOUS
    <2>1. jira'[j] = jira[j] \/ jira'[j] = Append(jira[j], s)  BY <1>1, <1>2
    <2>2. jira[j] \in Seq(TaskState)  BY <1>2
    <2>3. CASE jira'[j] = jira[j]  BY <2>2, <2>3
    <2>4. CASE jira'[j] = Append(jira[j], s)
        <3> DEFINE was == jira[j]
        <3>1. was \in Seq(TaskState) /\ jira'[j] = Append(was, s)  BY <2>2, <2>4
        <3> HIDE DEF was
        <3>2. /\ jira'[j] \in Seq(TaskState) /\ Len(jira'[j]) >= Len(was)
              /\ \A n \in 1 .. Len(was) : n \in 1 .. Len(jira'[j]) /\ jira'[j][n] = was[n]
            BY <3>1
        <3> QED  BY <3>2 DEF was
    <2> QED  BY <2>1, <2>3, <2>4
<1>4. jira' \in [Issue -> Seq(TaskState)]  BY <1>1, <1>2, <1>3
<1>5. \A j \in Issue : Len(jira'[j]) >= 1
    <2> SUFFICES ASSUME NEW j \in Issue PROVE Len(jira'[j]) >= 1  OBVIOUS
    <2>1. Len(jira[j]) \in Nat /\ Len(jira'[j]) \in Nat  BY <1>2, <1>3
    <2> QED  BY <2>1, <1>3 DEF ProgressInv
<1>6. Grows  BY <1>1, <1>3 DEF Grows
<1>7. \A j \in Issue : \A row : RowOK(j, row) => RowOK(j, row)'  BY <1>6, RowsStayOK
<1>8. CurrentOK'  BY <1>1, <1>7 DEF ProgressInv, CurrentOK
<1>9. LoadedOK'  BY <1>1, <1>7 DEF ProgressInv, LoadedOK, NoRow, NotLoaded
<1>10. SeenOK'  BY <1>1, <1>3 DEF ProgressInv, SeenOK
<1>11. \A e \in history' : Explained(e)'
    BY <1>1, <1>6, HistoryIsExplained, EventsStayExplained
<1>12. EventsOK' /\ HistoryExplainsChanges'  BY <1>8, <1>11, ExplainedIsEnough
<1>13. build' = [c \in Build |-> build'[c]]  BY <1>1 DEF ProgressInv
<1> QED  BY <1>4, <1>5, <1>8, <1>9, <1>10, <1>12, <1>13 DEF ProgressInv

LEMMA WeekKeepsInv ==
    ASSUME ProgressInv, UNCHANGED <<jira, current, snapshots, history, build>>
    PROVE  ProgressInv'
BY DEF ProgressInv, SeenOK, CurrentOK, LoadedOK, EventsOK, HistoryExplainsChanges,
   ChangesHaveSnapshots, EventsAreDated, RowOK, WasIn, IsShown, Field, NoRow, NotLoaded

LEMMA ReadKeepsInv ==
    ASSUME ProgressInv, NEW b \in Build, ReadProject(b)
    PROVE  ProgressInv'
<1> DEFINE seen == [i \in Issue |-> [state |-> jira[i][Len(jira[i])], at |-> Len(jira[i])]]
           next == [phase |-> "read", week |-> week, newWeek |-> FALSE,
                    loaded |-> [i \in Issue |-> NotLoaded], seen |-> seen]
<1>1. build' = [build EXCEPT ![b] = next] /\ UNCHANGED <<jira, current, snapshots, history>>
    BY DEF ReadProject
<1>2. /\ next.phase = "read" /\ next.seen = seen
      /\ \A i \in Issue : next.loaded[i] = NotLoaded
    OBVIOUS
<1>3. \A i \in Issue : seen[i].at \in 1 .. Len(jira[i]) /\ seen[i].state = jira[i][seen[i].at]
    <2> SUFFICES ASSUME NEW i \in Issue
                 PROVE seen[i].at \in 1 .. Len(jira[i]) /\ seen[i].state = jira[i][seen[i].at]
        OBVIOUS
    <2>1. seen[i].at = Len(jira[i]) /\ seen[i].state = jira[i][Len(jira[i])]  OBVIOUS
    <2>2. Len(jira[i]) \in Nat /\ Len(jira[i]) >= 1  BY DEF ProgressInv
    <2> QED  BY <2>1, <2>2
<1> HIDE DEF next, seen
<1> QED  BY <1>1, <1>2, <1>3, OneBuildMoves

LEMMA LoadKeepsInv ==
    ASSUME ProgressInv, NEW b \in Build, NEW i \in Issue, LoadCurrent(b, i)
    PROVE  ProgressInv'
<1> DEFINE r == build[b]
           next == [phase |-> "read", week |-> r.week, seen |-> r.seen,
                    newWeek |-> r.newWeek \/ NeedsWeek(r.week),
                    loaded |-> [j \in Issue |-> IF j = i THEN current[i] ELSE r.loaded[j]]]
<1>1. build' = [build EXCEPT ![b] = next]  BY Zenon DEF LoadCurrent, ProgressInv
<1>2. r.phase = "read" /\ UNCHANGED <<jira, current, snapshots, history>>
    BY DEF LoadCurrent
<1>3. /\ next.phase = "read" /\ next.seen = r.seen
      /\ \A j \in Issue : next.loaded[j] = IF j = i THEN current[i] ELSE r.loaded[j]
    OBVIOUS
<1> HIDE DEF next
<1>4. \A j \in Issue : /\ next.seen[j].at \in 1 .. Len(jira[j])
                       /\ next.seen[j].state = jira[j][next.seen[j].at]
    BY <1>2, <1>3 DEF ProgressInv, SeenOK
<1>5. \A j \in Issue : next.loaded[j] # NotLoaded =>
          RowOK(j, next.loaded[j]) /\ (next.loaded[j] # NoRow => current[j] # NoRow)
    BY <1>2, <1>3 DEF ProgressInv, CurrentOK, LoadedOK
<1> QED  BY <1>1, <1>2, <1>3, <1>4, <1>5, OneBuildMoves

\* A build that fails or serves its page holds nothing any more.
LEMMA BuildEndsKeepsInv ==
    ASSUME ProgressInv, NEW b \in Build, RecordingFails(b) \/ ServeDashboard(b)
    PROVE  ProgressInv'
<1>1. PICK next \in {[phase |-> "degraded"], NoBuild} :
          build' = [build EXCEPT ![b] = next]
    BY DEF RecordingFails, ServeDashboard
<1>2. next.phase # "read"  BY DEF NoBuild
<1>3. UNCHANGED <<jira, current, snapshots, history>>  BY DEF RecordingFails, ServeDashboard
<1> QED  BY <1>1, <1>2, <1>3, OneBuildMoves

----------------------------------------------------------------------------
\* CommitRecording.

\* What a build that has loaded its rows knows of an issue.
LEMMA LoadedFacts ==
    ASSUME ProgressInv, NEW b \in Build, IsLoaded(b), NEW i \in Issue
    PROVE  /\ build[b].seen[i].at \in 1 .. Len(jira[i])
           /\ build[b].seen[i].state = jira[i][build[b].seen[i].at]
           /\ RowOK(i, build[b].loaded[i])
           /\ build[b].loaded[i] # NoRow => current[i] # NoRow
           /\ RowOK(i, current[i])
BY DEF IsLoaded, ProgressInv, SeenOK, LoadedOK, CurrentOK

\* The state that a build has seen is shown once it has recorded: by a snapshot of its
\* own, or by that of the row it read, which has the same fingerprint.
LEMMA SeenIsShown ==
    ASSUME ProgressInv, NEW b \in Build, CommitRecording(b), NEW i \in Issue
    PROVE  \E shot \in snapshots' : shot.issue = i /\ shot.state = build[b].seen[i].state
<1> DEFINE row == build[b].loaded[i]
           obs == build[b].seen[i]
<1>1. snapshots' = snapshots \cup SnapshotsOf(b)  BY DEF CommitRecording
<1>2. \E shot \in snapshots' : shot.issue = i /\ shot.state = obs.state
    <2>1. CASE NewSnapshot(row, obs, build[b].week)
        <3> DEFINE shot == [issue |-> i, week |-> build[b].week, state |-> obs.state]
        <3>1. shot \in SnapshotsOf(b)  BY <2>1 DEF SnapshotsOf
        <3>2. shot.issue = i /\ shot.state = obs.state  OBVIOUS
        <3> HIDE DEF shot
        <3> QED  BY <3>1, <3>2, <1>1
    <2>2. CASE ~NewSnapshot(row, obs, build[b].week)
        <3>1. row # NoRow /\ row.fingerprint = obs.state  BY <2>2 DEF NewSnapshot
        <3>2. IsShown(i, obs.state)
            BY <3>1, LoadedFacts DEF CommitRecording, RowOK
        <3> QED  BY <3>2, <1>1 DEF IsShown
    <2> QED  BY <2>1, <2>2
<1> QED  BY <1>2

LEMMA CommitGrows ==
    ASSUME ProgressInv, NEW b \in Build, CommitRecording(b)
    PROVE  Grows
<1>1. jira' = jira /\ snapshots \subseteq snapshots'  BY DEF CommitRecording
<1> QED  BY <1>1 DEF Grows

\* The row that a build leaves is OK, whichever of its columns are another's.
LEMMA RowAfterIsOK ==
    ASSUME ProgressInv, NEW b \in Build, CommitRecording(b), NEW i \in Issue
    PROVE  RowOK(i, current[i])' /\ current'[i] # NoRow
<1> DEFINE row == build[b].loaded[i]
           obs == build[b].seen[i]
<1>1. current'[i] = CurrentAfter(b, i) /\ jira' = jira  BY DEF CommitRecording
<1>2. IsLoaded(b)  BY DEF CommitRecording
<1>3. /\ obs.at \in 1 .. Len(jira[i]) /\ obs.state = jira[i][obs.at]
      /\ RowOK(i, row) /\ RowOK(i, current[i])
      /\ row # NoRow => current[i] # NoRow
    BY <1>2, LoadedFacts
<1>4. current'[i].state = obs.state
    BY <1>1 DEF CurrentAfter
<1>5. \/ current'[i].fingerprint = obs.state
      \/ row # NoRow /\ current'[i].fingerprint = current[i].fingerprint
    <2>1. CASE row = NoRow
        BY <2>1, <1>1 DEF CurrentAfter
    <2>2. CASE row # NoRow
        <3>1. current'[i].fingerprint
                  = Column(row.fingerprint, obs.state, current[i].fingerprint)
            BY <2>2, <1>1 DEF CurrentAfter
        <3> QED  BY <3>1, <2>2 DEF Column
    <2> QED  BY <2>1, <2>2
<1>6. current'[i] # NoRow
    <2>1. "week" \in DOMAIN CurrentAfter(b, i)  BY DEF CurrentAfter
    <2>2. "week" \notin DOMAIN NoRow  BY DEF NoRow
    <2> QED  BY <1>1, <2>1, <2>2
<1>7. Grows  BY CommitGrows
<1>8. \E shot \in snapshots' : shot.issue = i /\ shot.state = obs.state  BY SeenIsShown
<1>9. RowOK(i, current[i])'
    <2>1. WasIn(i, current[i].state)'  BY <1>1, <1>3, <1>4 DEF WasIn
    <2>2. IsShown(i, current[i].fingerprint)'
        <3>1. CASE current'[i].fingerprint = obs.state
            BY <3>1, <1>8 DEF IsShown
        <3>2. CASE row # NoRow /\ current'[i].fingerprint = current[i].fingerprint
            <4>1. IsShown(i, current[i].fingerprint)  BY <3>2, <1>3 DEF RowOK
            <4> QED  BY <4>1, <3>2, <1>7 DEF IsShown, Grows
        <3> QED  BY <1>5, <3>1, <3>2
    <2> QED  BY <2>1, <2>2 DEF RowOK
<1> QED  BY <1>6, <1>9

\* An event that a build records is explained by what it has seen and recorded.
LEMMA RecordedAreExplained ==
    ASSUME ProgressInv, NEW b \in Build, CommitRecording(b), NEW r \in RecordedEvents(b)
    PROVE  Explained(r)'
<1>1. PICK i \in Issue : \E x \in EventsOf(b, i) : r = EventRow(b, i, x)
    BY DEF RecordedEvents
<1>2. PICK e \in EventsOf(b, i) : r = EventRow(b, i, e)  BY <1>1
<1> DEFINE row == build[b].loaded[i]
           obs == build[b].seen[i]
<1>3. IsLoaded(b) /\ jira' = jira  BY DEF CommitRecording
<1>4. /\ obs.at \in 1 .. Len(jira[i]) /\ obs.state = jira[i][obs.at]
      /\ RowOK(i, row)
    BY <1>3, LoadedFacts
<1>5. row # NoRow /\ e \in derive_progress_events(row.state, obs.state)
    BY <1>2 DEF EventsOf
<1>6. e.old = Field(row.state, e.type) /\ e.new = Field(obs.state, e.type)
    BY <1>5, EventsReadFields
<1>7. r.issue = i /\ r.type = e.type /\ r.old = e.old /\ r.new = e.new /\ r.at = obs.at
    BY <1>2 DEF EventRow, OccurredAt
<1>8. PICK n \in 1 .. Len(jira[i]) : jira[i][n] = row.state
    BY <1>4, <1>5 DEF RowOK, WasIn
<1>9. \E shot \in snapshots' : shot.issue = i /\ shot.state = obs.state
    BY SeenIsShown
<1> HIDE DEF row, obs
<1>10. r.issue \in Issue /\ r.at \in 1 .. Len(jira'[r.issue])  BY <1>3, <1>4, <1>7
<1>11. Field(jira'[r.issue][r.at], r.type) = r.new  BY <1>3, <1>4, <1>6, <1>7
<1>12. Field(jira'[r.issue][n], r.type) = r.old  BY <1>3, <1>6, <1>7, <1>8
<1>13. \E shot \in snapshots' : shot.issue = r.issue /\ Field(shot.state, r.type) = r.new
    BY <1>6, <1>7, <1>9
<1> QED  BY <1>3, <1>7, <1>8, <1>10, <1>11, <1>12, <1>13 DEF Explained, Field

LEMMA CommitKeepsInv ==
    ASSUME ProgressInv, NEW b \in Build, CommitRecording(b)
    PROVE  ProgressInv'
<1>1. Grows  BY CommitGrows
<1>2. build' = [build EXCEPT ![b] = [phase |-> "recorded"]] /\ jira' = jira
    BY DEF CommitRecording
<1>3. build' = [c \in Build |-> build'[c]]  BY <1>2 DEF ProgressInv
<1>4. \A c \in Build : build'[c].phase = "read" => build'[c] = build[c]
    BY <1>2 DEF ProgressInv
<1>5. SeenOK'  BY <1>2, <1>4 DEF ProgressInv, SeenOK
<1>6. CurrentOK'  BY RowAfterIsOK DEF CurrentOK
<1>7. \A i \in Issue : current'[i] # NoRow  BY RowAfterIsOK
<1>8. \A i \in Issue : \A row : RowOK(i, row) => RowOK(i, row)'  BY <1>1, RowsStayOK
<1>9. LoadedOK'  BY <1>4, <1>7, <1>8 DEF ProgressInv, LoadedOK, NoRow, NotLoaded
<1>10. \A e \in history' : Explained(e)'
    <2> SUFFICES ASSUME NEW e \in history' PROVE Explained(e)'  OBVIOUS
    <2>1. e \in history \/ e \in RecordedEvents(b)  BY DEF CommitRecording
    <2>2. CASE e \in history  BY <2>2, <1>1, HistoryIsExplained, EventsStayExplained
    <2>3. CASE e \in RecordedEvents(b)  BY <2>3, RecordedAreExplained
    <2> QED  BY <2>1, <2>2, <2>3
<1>11. EventsOK' /\ HistoryExplainsChanges'  BY <1>6, <1>10, ExplainedIsEnough
<1> QED  BY <1>2, <1>3, <1>5, <1>6, <1>9, <1>11 DEF ProgressInv

LEMMA ProgressStep == ProgressInv /\ [ProgressNext]_rvars => ProgressInv'
<1> SUFFICES ASSUME ProgressInv, [ProgressNext]_rvars PROVE ProgressInv'  OBVIOUS
<1>1. ASSUME NEW i \in Issue, NEW s \in TaskState, SomeoneEdits(i, s) PROVE ProgressInv'
    BY <1>1, EditsKeepInv
<1>2. CASE WeekPasses  BY <1>2, WeekKeepsInv DEF WeekPasses
<1>3. ASSUME NEW b \in Build, ReadProject(b) PROVE ProgressInv'  BY <1>3, ReadKeepsInv
<1>4. ASSUME NEW b \in Build, NEW i \in Issue, LoadCurrent(b, i) PROVE ProgressInv'
    BY <1>4, LoadKeepsInv
<1>5. ASSUME NEW b \in Build, CommitRecording(b) PROVE ProgressInv'  BY <1>5, CommitKeepsInv
<1>6. ASSUME NEW b \in Build, RecordingFails(b) \/ ServeDashboard(b) PROVE ProgressInv'
    BY <1>6, BuildEndsKeepsInv
<1>7. CASE UNCHANGED rvars  BY <1>7, WeekKeepsInv DEF rvars
<1> QED  BY <1>1, <1>2, <1>3, <1>4, <1>5, <1>6, <1>7 DEF ProgressNext

\* Every recorded change is one the issue went through, dated by the update that brought
\* it, with a snapshot of the state it led to: for any builds that record over each other
\* in any order, with columns of the current row that come from several of them.
THEOREM HistoryAlwaysExplains == ProgressSpec => []HistoryExplainsChanges
<1>1. ProgressInv => HistoryExplainsChanges  BY DEF ProgressInv
<1>2. ProgressSpec => []ProgressInv  BY ProgressStarts, ProgressStep, PTL DEF ProgressSpec
<1> QED  BY <1>1, <1>2, PTL

----------------------------------------------------------------------------
(* Scoring: induction and sums.                                             *)

Smaller == OpToRel(<, Nat)

LEMMA SmallerIsWellFounded == IsWellFoundedOn(Smaller, Nat)
BY NatLessThanWellFounded, Zenon DEF Smaller

\* A set of numbers that is not empty has a least one.
LEMMA LeastElement ==
    ASSUME NEW T, T \subseteq Nat, T # {}
    PROVE  \E a \in T : \A b \in T : a <= b
<1>1. PICK a \in T : \A b \in T : ~ (<<b, a>> \in Smaller)  BY SmallerIsWellFounded, WFMin
<1>2. \A b \in T : b < a => <<b, a>> \in Smaller  BY DEF Smaller, OpToRel
<1>3. \A b \in T : a <= b
    <2> SUFFICES ASSUME NEW b \in T PROVE a <= b  OBVIOUS
    <2>1. ~ (b < a) /\ a \in Nat /\ b \in Nat  BY <1>1, <1>2
    <2> QED  BY <2>1
<1> QED  BY <1>3

\* Induction, for a set of numbers.
LEMMA Induction ==
    ASSUME NEW T, T \subseteq Nat, 0 \in T, \A n \in T : n + 1 \in T
    PROVE  \A n \in Nat : n \in T
<1> SUFFICES ASSUME Nat \ T # {} PROVE FALSE  OBVIOUS
<1>1. PICK a \in Nat \ T : \A b \in Nat \ T : a <= b  BY LeastElement
<1>2. a # 0 /\ a \in Nat  OBVIOUS
<1>3. a - 1 \in Nat /\ ~ (a <= a - 1) /\ (a - 1) + 1 = a  BY <1>2
<1>4. a - 1 \in T  BY <1>1, <1>3
<1> QED  BY <1>3, <1>4

\* The element that a sum takes first.
Pick(s) == CHOOSE x \in s : TRUE

\* Induction over the subsets of a finite set, in the order in which a sum takes them.
LEMMA SubsetInduction ==
    ASSUME NEW S, IsFiniteSet(S), NEW Q, {} \in Q,
           \A s \in SUBSET S : s # {} /\ s \ {Pick(s)} \in Q => s \in Q
    PROVE  \A s \in SUBSET S : s \in Q
<1> DEFINE T == {n \in Nat : \A s \in SUBSET S : Cardinality(s) = n => s \in Q}
<1>1. 0 \in T
    <2> SUFFICES ASSUME NEW s \in SUBSET S, Cardinality(s) = 0 PROVE s \in Q  OBVIOUS
    <2>1. IsFiniteSet(s)  BY FS_Subset
    <2>2. s = {}  BY <2>1, FS_EmptySet
    <2> QED  BY <2>2
<1>2. ASSUME NEW n \in T PROVE n + 1 \in T
    <2> SUFFICES ASSUME NEW s \in SUBSET S, Cardinality(s) = n + 1 PROVE s \in Q  OBVIOUS
    <2>1. IsFiniteSet(s) /\ n \in Nat  BY FS_Subset
    <2>2. s # {}
        <3> SUFFICES ASSUME s = {} PROVE FALSE  OBVIOUS
        <3>1. Cardinality(s) = 0  BY FS_EmptySet
        <3> QED  BY <3>1, <2>1
    <2>3. Pick(s) \in s  BY <2>2 DEF Pick
    <2> DEFINE x == Pick(s)
               rest == s \ {x}
    <2>4. x \in s  BY <2>3
    <2> HIDE DEF x
    <2>5. Cardinality(rest) = Cardinality(s) - 1  BY <2>1, <2>4, FS_RemoveElement
    <2>6. Cardinality(rest) = n  BY <2>1, <2>5
    <2>7. rest \in SUBSET S  OBVIOUS
    <2>8. rest \in Q
        <3> HIDE DEF rest
        <3> QED  BY <2>6, <2>7
    <2> QED  BY <2>2, <2>8 DEF x
<1>3. T \subseteq Nat  OBVIOUS
<1> HIDE DEF T
<1>4. \A n \in Nat : n \in T  BY <1>1, <1>2, <1>3, Induction
<1>5. ASSUME NEW s \in SUBSET S PROVE s \in Q
    <2>1. Cardinality(s) \in Nat  BY FS_Subset, FS_CardinalityType
    <2>2. Cardinality(s) \in T  BY <2>1, <1>4
    <2> QED  BY <2>2 DEF T
<1> QED  BY <1>5

----------------------------------------------------------------------------

\* g sums w over every subset of S.
Sums(w, S, g) ==
    g = [s \in SUBSET S |->
            IF s = {} THEN 0 ELSE w[CHOOSE x \in s : TRUE] + g[s \ {CHOOSE x \in s : TRUE}]]

PartialSum(w) == CHOOSE g : Sums(w, DOMAIN w, g)

LEMMA SumUnfolds ==
    ASSUME NEW w
    PROVE  SumFunction(w) = PartialSum(w)[DOMAIN w]
BY DEF SumFunction, SumFunctionOnSet, FoldFunctionOnSet, MapThenFoldSet, PartialSum, Sums

\* There is such a g, although its definition refers to itself: one that is right for
\* the subsets of at most n elements gives one for those of n + 1.
LEMMA SumsExist ==
    ASSUME NEW S, IsFiniteSet(S), NEW w
    PROVE  \E g : Sums(w, S, g)
<1> DEFINE Body(g, s) == IF s = {} THEN 0 ELSE w[Pick(s)] + g[s \ {Pick(s)}]
           Next(g) == [s \in SUBSET S |-> Body(g, s)]
           RightFor(n, g) == \A s \in SUBSET S : Cardinality(s) <= n => g[s] = Body(g, s)
           T == {n \in Nat : \E g : g = [s \in SUBSET S |-> g[s]] /\ RightFor(n, g)}
<1>0. \A s \in SUBSET S : IsFiniteSet(s) /\ Cardinality(s) \in Nat
    BY FS_Subset, FS_CardinalityType
<1>1. 0 \in T
    <2> DEFINE g == [s \in SUBSET S |-> 0]
    <2>1. RightFor(0, g)
        <3> SUFFICES ASSUME NEW s \in SUBSET S, Cardinality(s) <= 0 PROVE g[s] = Body(g, s)
            OBVIOUS
        <3>1. Cardinality(s) = 0  BY <1>0
        <3>2. s = {}  BY <1>0, <3>1, FS_EmptySet
        <3> QED  BY <3>2
    <2>2. g = [s \in SUBSET S |-> g[s]]  OBVIOUS
    <2> QED  BY <2>1, <2>2
<1>2. ASSUME NEW n \in T PROVE n + 1 \in T
    <2>1. PICK g : g = [s \in SUBSET S |-> g[s]] /\ RightFor(n, g)  OBVIOUS
    <2> DEFINE h == Next(g)
    <2>2. RightFor(n + 1, h)
        <3> SUFFICES ASSUME NEW s \in SUBSET S, Cardinality(s) <= n + 1
                     PROVE h[s] = Body(h, s)
            OBVIOUS
        <3>1. h[s] = Body(g, s)  OBVIOUS
        <3>2. CASE s = {}  BY <3>1, <3>2
        <3>3. CASE s # {}
            <4> DEFINE x == Pick(s)
                       rest == s \ {x}
            <4>1. x \in s  BY <3>3 DEF Pick
            <4>2. rest \in SUBSET S  OBVIOUS
            <4>3. Cardinality(rest) = Cardinality(s) - 1
                <5> HIDE DEF x
                <5> QED  BY <1>0, <4>1, FS_RemoveElement
            <4>4. Cardinality(rest) <= n
                <5>1. Cardinality(s) \in Nat /\ n \in Nat  BY <1>0
                <5> QED  BY <4>3, <5>1
            <4>5. g[rest] = Body(g, rest)
                <5> HIDE DEF rest, Body
                <5> QED  BY <2>1, <4>2, <4>4
            <4>6. h[rest] = Body(g, rest)
                <5> HIDE DEF rest, Body
                <5> QED  BY <4>2
            <4>7. Body(h, s) = w[x] + h[rest] /\ Body(g, s) = w[x] + g[rest]  BY <3>3
            <4> HIDE DEF rest, x, h, Body
            <4> QED  BY <3>1, <4>5, <4>6, <4>7
        <3> QED  BY <3>2, <3>3
    <2>3. h = [s \in SUBSET S |-> h[s]]
        <3> HIDE DEF Body
        <3> QED  OBVIOUS
    <2>4. n + 1 \in Nat  OBVIOUS
    <2> HIDE DEF h, RightFor
    <2> QED  BY <2>2, <2>3, <2>4
<1>3. T \subseteq Nat  OBVIOUS
<1>4. \A n \in Nat : n \in T
    <2> HIDE DEF T
    <2> QED  BY <1>1, <1>2, <1>3, Induction
<1>5. Cardinality(S) \in Nat  BY FS_CardinalityType
<1>6. PICK g : g = [s \in SUBSET S |-> g[s]] /\ RightFor(Cardinality(S), g)  BY <1>4, <1>5
<1>7. \A s \in SUBSET S : g[s] = Body(g, s)
    <2>1. \A s \in SUBSET S : Cardinality(s) <= Cardinality(S)  BY FS_Subset
    <2> HIDE DEF Body
    <2> QED  BY <1>6, <2>1
<1>8. g = Next(g)
    <2> HIDE DEF Body
    <2> QED  BY <1>6, <1>7
<1> QED  BY <1>8 DEF Sums, Pick

\* The partial sums, element by element.
LEMMA SumSteps ==
    ASSUME NEW w, IsFiniteSet(DOMAIN w)
    PROVE  /\ PartialSum(w)[{}] = 0
           /\ \A s \in SUBSET DOMAIN w : s # {} =>
                  /\ Pick(s) \in s
                  /\ PartialSum(w)[s] = w[Pick(s)] + PartialSum(w)[s \ {Pick(s)}]
<1> DEFINE g == PartialSum(w)
<1>1. \E h : Sums(w, DOMAIN w, h)  BY SumsExist
<1>2. Sums(w, DOMAIN w, g)  BY <1>1 DEF PartialSum
<1> HIDE DEF g
<1>3. g[{}] = 0  BY <1>2 DEF Sums
<1>4. \A s \in SUBSET DOMAIN w : s # {} =>
          Pick(s) \in s /\ g[s] = w[Pick(s)] + g[s \ {Pick(s)}]
    BY <1>2 DEF Sums, Pick
<1> QED  BY <1>3, <1>4 DEF g

LEMMA PartialSumIsInt ==
    ASSUME NEW S, IsFiniteSet(S), NEW w \in [S -> Int]
    PROVE  \A s \in SUBSET S : PartialSum(w)[s] \in Int
<1> DEFINE g == PartialSum(w)
           Q == {s \in SUBSET S : g[s] \in Int}
<1>1. DOMAIN w = S  OBVIOUS
<1>2. g[{}] = 0  BY <1>1, SumSteps
<1>3. \A s \in SUBSET S : s # {} =>
          Pick(s) \in s /\ g[s] = w[Pick(s)] + g[s \ {Pick(s)}]
    BY <1>1, SumSteps
<1> HIDE DEF g
<1>4. {} \in Q  BY <1>2
<1>5. ASSUME NEW s \in SUBSET S, s # {} /\ s \ {Pick(s)} \in Q PROVE s \in Q
    <2>1. w[Pick(s)] \in Int  BY <1>3, <1>5
    <2>2. g[s \ {Pick(s)}] \in Int  BY <1>5
    <2>3. g[s] = w[Pick(s)] + g[s \ {Pick(s)}]  BY <1>3, <1>5
    <2>4. g[s] \in Int
        <3> DEFINE p == w[Pick(s)]
                   q == g[s \ {Pick(s)}]
        <3>1. p \in Int /\ q \in Int /\ g[s] = p + q  BY <2>1, <2>2, <2>3
        <3> HIDE DEF p, q
        <3> QED  BY <3>1
    <2> QED  BY <2>4
<1> HIDE DEF Q
<1>6. \A s \in SUBSET S : s \in Q  BY <1>4, <1>5, SubsetInduction
<1> QED  BY <1>6 DEF Q, g

LEMMA SumIsInt ==
    ASSUME NEW S, IsFiniteSet(S), NEW w \in [S -> Int]
    PROVE  SumFunction(w) \in Int
<1>1. DOMAIN w = S /\ S \in SUBSET S  OBVIOUS
<1> QED  BY <1>1, SumUnfolds, PartialSumIsInt

\* g adds up w, element by element, over the subsets of S.
AddsUp(g, w, S) ==
    /\ g[{}] = 0
    /\ \A s \in SUBSET S : g[s] \in Int
    /\ \A s \in SUBSET S : s # {} => g[s] = w[Pick(s)] + g[s \ {Pick(s)}]
    /\ SumFunction(w) = g[S]

LEMMA PartialSumAddsUp ==
    ASSUME NEW S, IsFiniteSet(S), NEW w \in [S -> Int]
    PROVE  \E g : AddsUp(g, w, S)
<1>1. DOMAIN w = S  OBVIOUS
<1>2. PICK g : g = PartialSum(w)  OBVIOUS
<1>3. g[{}] = 0 /\ \A s \in SUBSET S : s # {} => g[s] = w[Pick(s)] + g[s \ {Pick(s)}]
    BY <1>1, <1>2, SumSteps
<1>4. \A s \in SUBSET S : g[s] \in Int  BY <1>2, PartialSumIsInt
<1>5. SumFunction(w) = g[S]  BY <1>1, <1>2, SumUnfolds
<1> QED  BY <1>3, <1>4, <1>5 DEF AddsUp

LEMMA AddsOne ==
    ASSUME NEW g, NEW w, NEW S, AddsUp(g, w, S), NEW s \in SUBSET S, s # {},
           NEW x, x = Pick(s), NEW rest, rest = s \ {x}
    PROVE  g[s] = w[x] + g[rest]
BY DEF AddsUp

\* What each term gains in points, it gains a thousand times in weight: so do the sums.
LEMMA SumsCompare ==
    ASSUME NEW S, IsFiniteSet(S),
           NEW a \in [S -> Int], NEW u \in [S -> Int],
           NEW c \in [S -> Int], NEW v \in [S -> Int],
           \A x \in S : a[x] + 1000 * u[x] <= c[x] + 1000 * v[x]
    PROVE  SumFunction(a) + 1000 * SumFunction(u) <= SumFunction(c) + 1000 * SumFunction(v)
<1>1. PICK ga : AddsUp(ga, a, S)  BY PartialSumAddsUp
<1>2. PICK gu : AddsUp(gu, u, S)  BY PartialSumAddsUp
<1>3. PICK gc : AddsUp(gc, c, S)  BY PartialSumAddsUp
<1>4. PICK gv : AddsUp(gv, v, S)  BY PartialSumAddsUp
<1> DEFINE Q == {s \in SUBSET S : ga[s] + 1000 * gu[s] <= gc[s] + 1000 * gv[s]}
<1>5. {} \in Q  BY <1>1, <1>2, <1>3, <1>4 DEF AddsUp
<1>6. ASSUME NEW s \in SUBSET S, s # {} /\ s \ {Pick(s)} \in Q PROVE s \in Q
    <2>1. s \in SUBSET S /\ s # {}  BY <1>6
    <2>2. PICK x : x = Pick(s)  BY Zenon
    <2> DEFINE rest == s \ {x}
    <2>3. rest = s \ {x}  OBVIOUS
    <2> HIDE DEF rest
    <2>4. x \in S /\ rest \in SUBSET S  BY <1>6, <2>2, <2>3 DEF Pick
    <2>5. ga[rest] + 1000 * gu[rest] <= gc[rest] + 1000 * gv[rest]  BY <1>6, <2>2, <2>3
    <2>6. /\ ga[s] = a[x] + ga[rest] /\ gu[s] = u[x] + gu[rest]
          /\ gc[s] = c[x] + gc[rest] /\ gv[s] = v[x] + gv[rest]
        <3>1. ga[s] = a[x] + ga[rest]  BY <1>1, <2>1, <2>2, <2>3, AddsOne
        <3>2. gu[s] = u[x] + gu[rest]  BY <1>2, <2>1, <2>2, <2>3, AddsOne
        <3>3. gc[s] = c[x] + gc[rest]  BY <1>3, <2>1, <2>2, <2>3, AddsOne
        <3>4. gv[s] = v[x] + gv[rest]  BY <1>4, <2>1, <2>2, <2>3, AddsOne
        <3> QED  BY <3>1, <3>2, <3>3, <3>4
    <2>7. a[x] \in Int /\ u[x] \in Int /\ c[x] \in Int /\ v[x] \in Int  BY <2>4
    <2>8. ga[rest] \in Int /\ gu[rest] \in Int /\ gc[rest] \in Int /\ gv[rest] \in Int
        BY <2>4, <1>1, <1>2, <1>3, <1>4 DEF AddsUp
    <2>9. a[x] + 1000 * u[x] <= c[x] + 1000 * v[x]  BY <2>4
    <2>10. ga[s] + 1000 * gu[s] <= gc[s] + 1000 * gv[s]  BY <2>5, <2>6, <2>7, <2>8, <2>9
    <2> QED  BY <2>10
<1> HIDE DEF Q
<1>7. \A s \in SUBSET S : s \in Q  BY <1>5, <1>6, SubsetInduction
<1>8. S \in Q  BY <1>7
<1> QED  BY <1>1, <1>2, <1>3, <1>4, <1>8 DEF Q, AddsUp

LEMMA SumIsMonotone ==
    ASSUME NEW S, IsFiniteSet(S), NEW a \in [S -> Int], NEW c \in [S -> Int],
           \A x \in S : a[x] <= c[x]
    PROVE  SumFunction(a) <= SumFunction(c)
<1>1. \A x \in S : a[x] \in Int /\ c[x] \in Int  OBVIOUS
<1>2. \A x \in S : a[x] + 1000 * a[x] <= c[x] + 1000 * c[x]  BY <1>1
<1>3. SumFunction(a) + 1000 * SumFunction(a) <= SumFunction(c) + 1000 * SumFunction(c)
    BY <1>2, SumsCompare
<1>4. SumFunction(a) \in Int /\ SumFunction(c) \in Int  BY SumIsInt
<1> QED  BY <1>3, <1>4

----------------------------------------------------------------------------
\* Scores.

LEMMA Quotient ==
    ASSUME NEW n \in Nat, NEW c \in Nat \ {0}
    PROVE  n \div c \in Nat /\ (n \div c) * c <= n /\ n < (n \div c) * c + c
OBVIOUS

LEMMA QuotientIsMonotone ==
    ASSUME NEW a \in Nat, NEW b \in Nat, NEW c \in Nat \ {0}, a <= b
    PROVE  a \div c <= b \div c
<1>1. PICK p \in Nat : p = a \div c  BY Quotient
<1>2. PICK q \in Nat : q = b \div c  BY Quotient
<1>3. p * c <= a /\ a < p * c + c /\ q * c <= b /\ b < q * c + c  BY <1>1, <1>2, Quotient
<1>4. p * c < q * c + c
    <2>1. p * c \in Nat /\ q * c \in Nat  OBVIOUS
    <2> QED  BY <1>3, <2>1
<1>5. ASSUME q < p PROVE FALSE
    <2>1. PICK d \in Nat : p = q + 1 + d  BY <1>5
    <2>2. p * c = q * c + c + d * c  BY <2>1
    <2>3. d * c \in Nat /\ q * c \in Nat /\ p * c \in Nat  OBVIOUS
    <2> QED  BY <2>2, <2>3, <1>4
<1> QED  BY <1>1, <1>2, <1>5

LEMMA ProductIsMonotone ==
    ASSUME NEW w \in Nat, NEW a \in Nat, NEW b \in Nat, a <= b
    PROVE  w * 1000 * a <= w * 1000 * b /\ w * 1000 * a \in Nat /\ w * 1000 * b \in Nat
<1>1. PICK d \in Nat : b = a + d  BY SMT
<1>2. PICK k \in Nat : k = w * 1000  OBVIOUS
<1>3. k * b = k * a + k * d  BY <1>1
<1>4. k * d \in Nat /\ k * a \in Nat  OBVIOUS
<1> QED  BY <1>2, <1>3, <1>4

LEMMA RoundingIsMonotone ==
    ASSUME NEW a \in Int, NEW b \in Int, a <= b
    PROVE  Rounded(a) \in Int /\ Rounded(b) \in Int /\ Rounded(a) <= Rounded(b)
BY DEF Rounded

\* Rounding adds at most one to a difference.
LEMMA RoundingIsClose ==
    ASSUME NEW a \in Int, NEW b \in Int
    PROVE  /\ b <= a + 10000 => Rounded(b) <= Rounded(a) + 11
           /\ b <= a + 25000 => Rounded(b) <= Rounded(a) + 26
           /\ b <= a + 40000 => Rounded(b) <= Rounded(a) + 41
<1>1. b <= a + 10000 => Rounded(b) <= Rounded(a) + 11  BY DEF Rounded
<1>2. b <= a + 25000 => Rounded(b) <= Rounded(a) + 26  BY DEF Rounded
<1>3. b <= a + 40000 => Rounded(b) <= Rounded(a) + 41  BY DEF Rounded
<1> QED  BY <1>1, <1>2, <1>3

RulesOf(r) ==
    /\ r.weights \in [Factors -> 1 .. 100] /\ r.caps \in [Factors -> Nat \ {0}]
    /\ r.protective \subseteq Factors /\ r.mandatory \subseteq Factors
    /\ SumFunction(r.weights) = 100

LEMMA RulesAreSound ==
    ASSUME NEW version \in DOMAIN Rules
    PROVE  RulesOf(Rules[version])
BY ScoringAssumption DEF RulesOf

\* The part of a factor's cap that counts, for its direction.
ShareOf(value, r, f) ==
    IF f \in r.protective THEN r.caps[f] - Capped(value, r.caps[f]) ELSE Capped(value, r.caps[f])

LEMMA SharesAreBounded ==
    ASSUME NEW r, RulesOf(r), NEW f \in Factors, NEW value \in Nat
    PROVE  ShareOf(value, r, f) \in Nat /\ ShareOf(value, r, f) <= r.caps[f]
<1>1. r.caps[f] \in Nat \ {0}  BY DEF RulesOf
<1> QED  BY <1>1 DEF ShareOf, Capped

\* Points lie between none and the whole weight.
LEMMA PointsAreBounded ==
    ASSUME NEW r, RulesOf(r), NEW f \in Factors, NEW vals, vals[f] \in Nat
    PROVE  Points(vals, r, f) \in Nat /\ Points(vals, r, f) <= 1000 * r.weights[f]
<1>1. PICK share : share = ShareOf(vals[f], r, f)  OBVIOUS
<1>2. PICK cap : cap = r.caps[f]  OBVIOUS
<1>3. PICK w : w = r.weights[f]  OBVIOUS
<1>4. share \in Nat /\ share <= cap  BY <1>1, <1>2, SharesAreBounded
<1>5. cap \in Nat \ {0} /\ w \in Nat  BY <1>2, <1>3 DEF RulesOf
<1>6. Points(vals, r, f) = (w * 1000 * share) \div cap
    BY <1>1, <1>2, <1>3 DEF Points, ShareOf
<1>7. w * 1000 * share <= w * 1000 * cap /\ w * 1000 * share \in Nat /\ w * 1000 * cap \in Nat
    BY <1>4, <1>5, ProductIsMonotone
<1>8. (w * 1000 * cap) \div cap = w * 1000
    <2>1. w * 1000 \in Nat  BY <1>5
    <2> QED  BY <1>5, <2>1
<1>9. (w * 1000 * share) \div cap <= (w * 1000 * cap) \div cap
    BY <1>5, <1>7, QuotientIsMonotone
<1>10. (w * 1000 * share) \div cap \in Nat  BY <1>5, <1>7, Quotient
<1> QED  BY <1>3, <1>5, <1>6, <1>8, <1>9, <1>10

\* A value that moves in the direction of the risk never takes points away.
LEMMA PointsAreMonotone ==
    ASSUME NEW r, RulesOf(r), NEW f \in Factors, NEW old, NEW new,
           old[f] \in Nat, new[f] \in Nat,
           IF f \in r.protective THEN new[f] <= old[f] ELSE old[f] <= new[f]
    PROVE  Points(old, r, f) <= Points(new, r, f)
<1>1. PICK a : a = ShareOf(old[f], r, f)  OBVIOUS
<1>2. PICK b : b = ShareOf(new[f], r, f)  OBVIOUS
<1>3. PICK cap : cap = r.caps[f]  OBVIOUS
<1>4. PICK w : w = r.weights[f]  OBVIOUS
<1>5. cap \in Nat \ {0} /\ w \in Nat  BY <1>3, <1>4 DEF RulesOf
<1>6. a \in Nat /\ b \in Nat  BY <1>1, <1>2, SharesAreBounded
<1>7. a <= b  BY <1>1, <1>2, <1>3, <1>5 DEF ShareOf, Capped
<1>8. w * 1000 * a <= w * 1000 * b /\ w * 1000 * a \in Nat /\ w * 1000 * b \in Nat
    BY <1>5, <1>6, <1>7, ProductIsMonotone
<1>9. (w * 1000 * a) \div cap <= (w * 1000 * b) \div cap  BY <1>5, <1>8, QuotientIsMonotone
<1>10. /\ Points(old, r, f) = (w * 1000 * a) \div cap
       /\ Points(new, r, f) = (w * 1000 * b) \div cap
    BY <1>1, <1>2, <1>3, <1>4 DEF Points, ShareOf
<1> QED  BY <1>9, <1>10

----------------------------------------------------------------------------

Situation == [Factors -> {NoValue} \cup Nat]

\* What counts of the weights and of the points, and the score before it is rounded.
WeightsOf(vals, r) == Counted(vals, r.weights)
PointsOf(vals, r) == Counted(vals, [f \in Factors |-> Points(vals, r, f)])
Raw(vals, r) == SumFunction(PointsOf(vals, r))

LEMMA CountedTerms ==
    ASSUME NEW r, RulesOf(r), NEW vals \in Situation
    PROVE  /\ WeightsOf(vals, r) \in [Factors -> Int]
           /\ PointsOf(vals, r) \in [Factors -> Int]
           /\ \A f \in Factors :
                 /\ vals[f] # NoValue =>
                        /\ vals[f] \in Nat
                        /\ WeightsOf(vals, r)[f] = r.weights[f]
                        /\ PointsOf(vals, r)[f] = Points(vals, r, f)
                 /\ vals[f] = NoValue =>
                        WeightsOf(vals, r)[f] = 0 /\ PointsOf(vals, r)[f] = 0
<1>1. \A f \in Factors : r.weights[f] \in Int  BY DEF RulesOf
<1>2. \A f \in Factors : vals[f] # NoValue => vals[f] \in Nat  BY DEF Situation
<1>3. \A f \in Factors : vals[f] # NoValue => Points(vals, r, f) \in Int
    BY <1>2, PointsAreBounded
<1>4. \A f \in Factors : f \in Usable(vals) <=> vals[f] # NoValue  BY DEF Usable
<1>5. \A f \in Factors :
          /\ vals[f] # NoValue => /\ WeightsOf(vals, r)[f] = r.weights[f]
                                 /\ PointsOf(vals, r)[f] = Points(vals, r, f)
          /\ vals[f] = NoValue => WeightsOf(vals, r)[f] = 0 /\ PointsOf(vals, r)[f] = 0
    BY <1>4 DEF WeightsOf, PointsOf, Counted
<1>6. WeightsOf(vals, r) \in [Factors -> Int]
    BY <1>1, <1>4 DEF WeightsOf, Counted
<1>7. PointsOf(vals, r) \in [Factors -> Int]
    BY <1>3, <1>4 DEF PointsOf, Counted
<1> QED  BY <1>2, <1>5, <1>6, <1>7

LEMMA SumsAreInts ==
    ASSUME NEW r, RulesOf(r), NEW vals \in Situation
    PROVE  Coverage(vals, r) \in Int /\ Raw(vals, r) \in Int /\ Rounded(Raw(vals, r)) \in Int
<1>1. IsFiniteSet(Factors)  BY ScoringAssumption
<1>2. WeightsOf(vals, r) \in [Factors -> Int] /\ PointsOf(vals, r) \in [Factors -> Int]
    BY CountedTerms
<1>3. SumFunction(WeightsOf(vals, r)) \in Int /\ Raw(vals, r) \in Int
    BY <1>1, <1>2, SumIsInt DEF Raw
<1>4. Rounded(Raw(vals, r)) \in Int  BY <1>3, RoundingIsMonotone
<1> QED  BY <1>3, <1>4 DEF Coverage, WeightsOf

\* A score that is there: its parts, and what had to hold.
LEMMA ScoreParts ==
    ASSUME NEW vals, NEW isFresh, NEW version
    PROVE  /\ Score(vals, isFresh, version) = Insufficient(version)
              \/ /\ isFresh /\ Rules[version].mandatory \subseteq Usable(vals)
                 /\ Confidence(Coverage(vals, Rules[version])) # "insufficient-data"
                 /\ Score(vals, isFresh, version) =
                      [score |-> Rounded(Raw(vals, Rules[version])),
                       confidence |-> Confidence(Coverage(vals, Rules[version])),
                       level |-> risk_level_for_score(Rounded(Raw(vals, Rules[version]))),
                       version |-> version]
           /\ isFresh /\ Rules[version].mandatory \subseteq Usable(vals)
              /\ Confidence(Coverage(vals, Rules[version])) # "insufficient-data" =>
                 Score(vals, isFresh, version).score = Rounded(Raw(vals, Rules[version]))
BY DEF Score, Raw, PointsOf

----------------------------------------------------------------------------

\* A result that was computed has a level that goes with its score.
ResultOK(res) ==
    \/ res.score = NoValue
    \/ /\ res.score \in Int /\ res.confidence \in {"high", "medium", "low"}
       /\ res.level = risk_level_for_score(res.score)

ScoringInv ==
    /\ values \in Situation /\ rules \in DOMAIN Rules
    /\ ResultOK(scoredNow) /\ ResultOK(scoredMoved)
    /\ SimulationsAreSound

LEMMA ScoresAreOK ==
    ASSUME NEW vals \in Situation, NEW isFresh, NEW version \in DOMAIN Rules
    PROVE  ResultOK(Score(vals, isFresh, version))
<1>1. RulesOf(Rules[version])  BY RulesAreSound
<1>2. PICK score : score = Rounded(Raw(vals, Rules[version]))  OBVIOUS
<1>3. PICK confidence : confidence = Confidence(Coverage(vals, Rules[version]))  OBVIOUS
<1>4. score \in Int  BY <1>1, <1>2, SumsAreInts
<1>5. confidence # "insufficient-data" => confidence \in {"high", "medium", "low"}
    BY <1>3 DEF Confidence
<1>6. CASE Score(vals, isFresh, version) = Insufficient(version)
    BY <1>6 DEF Insufficient, ResultOK
<1>7. CASE Score(vals, isFresh, version) # Insufficient(version)
    <2>1. /\ confidence # "insufficient-data"
          /\ Score(vals, isFresh, version) =
               [score |-> score, confidence |-> confidence,
                level |-> risk_level_for_score(score), version |-> version]
        BY <1>2, <1>3, <1>7, ScoreParts
    <2>2. PICK res : res = Score(vals, isFresh, version)  OBVIOUS
    <2>3. res.score = score /\ res.confidence = confidence /\ res.level = risk_level_for_score(score)
        BY <2>1, <2>2
    <2> QED  BY <1>4, <1>5, <2>1, <2>2, <2>3 DEF ResultOK
<1> QED  BY <1>6, <1>7

LEMMA ScoringStarts == ScoringInit => ScoringInv
<1> SUFFICES ASSUME ScoringInit PROVE ScoringInv  OBVIOUS
<1>1. values \in Situation  BY DEF ScoringInit, Situation
<1>2. ResultOK(NoResult)  BY DEF ResultOK, NoResult
<1> QED  BY <1>1, <1>2 DEF ScoringInit, ScoringInv, SimulationsAreSound

\* A tool that answers leaves a score, and the simulation has to be made again.
LEMMA ScoringToolsKeepInv ==
    ASSUME ScoringInv, NEW id, ScoreCurrent(id) \/ ScoreProposed(id)
    PROVE  ScoringInv'
<1>1. simulation' = <<>> /\ UNCHANGED <<values, rules>>  BY DEF ScoreCurrent, ScoreProposed
<1>2. ResultOK(Score(values, fresh, rules))  BY ScoresAreOK DEF ScoringInv
<1>3. /\ scoredNow' = scoredNow \/ scoredNow' = Score(values, fresh, rules)
      /\ scoredMoved' = scoredMoved \/ scoredMoved' = Score(values, fresh, rules)
    BY DEF ScoreCurrent, ScoreProposed, ScoreTool
<1>4. ResultOK(scoredNow') /\ ResultOK(scoredMoved')  BY <1>2, <1>3 DEF ScoringInv
<1> QED  BY <1>1, <1>4 DEF ScoringInv, SimulationsAreSound, ResultOK

\* A candidate's limit and the critical level are the same number.
LEMMA SimulateKeepsInv ==
    ASSUME ScoringInv, Simulate
    PROVE  ScoringInv'
<1>1. simulation' = <<scoredNow, scoredMoved>>
      /\ UNCHANGED <<values, rules, scoredNow, scoredMoved>>
    BY DEF Simulate
<1>2. simulation'[1] = scoredNow /\ simulation'[2] = scoredMoved  BY <1>1
<1>3. scoredNow.version = scoredMoved.version  BY DEF Simulate, same_scoring_rules
<1>4. /\ scoredMoved.score # NoValue
      /\ scoredMoved.confidence \in {"medium", "high"}
      /\ Rules[scoredMoved.version].overload => scoredMoved.score < 75
    BY DEF Simulate, EligibleResult
<1>5. scoredMoved.score \in Int /\ scoredMoved.level = risk_level_for_score(scoredMoved.score)
    BY <1>4 DEF ScoringInv, ResultOK
<1>6. Rules[scoredMoved.version].overload => scoredMoved.level # "critical"
    <2>1. ASSUME scoredMoved.score < 75 PROVE risk_level_for_score(scoredMoved.score) # "critical"
        BY <1>5, <2>1 DEF risk_level_for_score
    <2> QED  BY <1>4, <1>5, <2>1
<1>7. SimulationsAreSound'  BY <1>2, <1>3, <1>4, <1>6 DEF SimulationsAreSound
<1> QED  BY <1>1, <1>7 DEF ScoringInv, ResultOK

LEMMA SituationKeepsInv ==
    ASSUME ScoringInv, SituationChanges
    PROVE  ScoringInv'
<1>1. UNCHANGED <<rules, scoredNow, scoredMoved, simulation>>  BY DEF SituationChanges
<1>2. values' \in Situation
    <2>1. CASE values' = values  BY <2>1 DEF ScoringInv
    <2>2. CASE values' # values
        <3>1. PICK f \in Factors, v \in {NoValue} \cup 0 .. MaxValue :
                  values' = [values EXCEPT ![f] = v]
            BY <2>2 DEF SituationChanges
        <3>2. v \in {NoValue} \cup Nat  OBVIOUS
        <3> QED  BY <3>1, <3>2 DEF ScoringInv, Situation
    <2> QED  BY <2>1, <2>2
<1> QED  BY <1>1, <1>2 DEF ScoringInv, SimulationsAreSound, ResultOK

LEMMA ScoringStep == ScoringInv /\ [ScoringNext]_ovars => ScoringInv'
<1> SUFFICES ASSUME ScoringInv, [ScoringNext]_ovars PROVE ScoringInv'  OBVIOUS
<1>1. ASSUME NEW id \in CorrelationIds, ScoreCurrent(id) \/ ScoreProposed(id)
      PROVE ScoringInv'
    BY <1>1, ScoringToolsKeepInv
<1>2. ASSUME NEW id \in CorrelationIds, AnswerIsLost(id) PROVE ScoringInv'
    BY <1>2 DEF AnswerIsLost, ScoringInv, SimulationsAreSound, ResultOK
<1>3. CASE Simulate  BY <1>3, SimulateKeepsInv
<1>4. CASE SituationChanges  BY <1>4, SituationKeepsInv
<1>5. ASSUME NEW version \in DOMAIN Rules, ConfigurationChanges(version) PROVE ScoringInv'
    BY <1>5 DEF ConfigurationChanges, ScoringInv, SimulationsAreSound, ResultOK
<1>6. CASE UNCHANGED ovars
    BY <1>6 DEF ovars, ScoringInv, SimulationsAreSound, ResultOK
<1> QED  BY <1>1, <1>2, <1>3, <1>4, <1>5, <1>6 DEF ScoringNext

LEMMA ScoringAlways == ScoringSpec => []ScoringInv
BY ScoringStarts, ScoringStep, PTL DEF ScoringSpec

\* A simulation compares results of the same rules and never proposes an assignment that
\* makes the candidate critical, for every set of factors, weights, caps and values: 75,
\* the candidates' limit, is where the critical level starts.
THEOREM SimulationsAreAlwaysSound == ScoringSpec => []SimulationsAreSound
<1>1. ScoringInv => SimulationsAreSound  BY DEF ScoringInv
<1> QED  BY <1>1, ScoringAlways, PTL

----------------------------------------------------------------------------

\* What has a score: fresh and mandatory evidence, with enough of it.
LEMMA WhatHasAScore ==
    ASSUME rules \in DOMAIN Rules, HasScore
    PROVE  /\ fresh /\ Rules[rules].mandatory \subseteq Usable(values)
           /\ Confidence(Coverage(values, Rules[rules])) \in {"high", "medium", "low"}
           /\ Score(values, fresh, rules).score = Rounded(Raw(values, Rules[rules]))
           /\ Score(values, fresh, rules).confidence = Confidence(Coverage(values, Rules[rules]))
<1>1. PICK res : res = Score(values, fresh, rules)  OBVIOUS
<1>2. res.score # NoValue  BY <1>1 DEF HasScore
<1>3. res # Insufficient(rules)  BY <1>2 DEF Insufficient
<1>4. PICK score : score = Rounded(Raw(values, Rules[rules]))  OBVIOUS
<1>5. PICK confidence : confidence = Confidence(Coverage(values, Rules[rules]))  OBVIOUS
<1>6. /\ fresh /\ Rules[rules].mandatory \subseteq Usable(values)
      /\ confidence # "insufficient-data"
      /\ res = [score |-> score, confidence |-> confidence,
                level |-> risk_level_for_score(score), version |-> rules]
    BY <1>1, <1>3, <1>4, <1>5, ScoreParts
<1>7. res.score = score /\ res.confidence = confidence  BY <1>6
<1>8. confidence \in {"high", "medium", "low"}  BY <1>5, <1>6 DEF Confidence
<1> QED  BY <1>1, <1>4, <1>5, <1>6, <1>7, <1>8

\* With a value for every factor the coverage is the whole of the weights.
LEMMA WholeCoverage ==
    ASSUME NEW r, RulesOf(r), NEW whole \in [Factors -> Nat]
    PROVE  /\ whole \in Situation /\ Usable(whole) = Factors
           /\ Coverage(whole, r) = 100 /\ Confidence(Coverage(whole, r)) = "high"
<1>1. whole \in Situation  BY DEF Situation
<1>2. Usable(whole) = Factors  BY DEF Usable, NoValue
<1>3. Counted(whole, r.weights) = r.weights  BY <1>2 DEF Counted, RulesOf
<1>4. Coverage(whole, r) = 100  BY <1>3 DEF Coverage, RulesOf
<1> QED  BY <1>1, <1>2, <1>4 DEF Confidence

\* The evidence that is missing weighs what the coverage lacks.
LEMMA GapsWeighWhatIsMissing ==
    ASSUME NEW r, RulesOf(r), NEW vals \in Situation, NEW whole \in [Factors -> Nat],
           \A f \in Factors : vals[f] # NoValue => whole[f] = vals[f]
    PROVE  /\ Raw(vals, r) <= Raw(whole, r)
           /\ Raw(whole, r) <= Raw(vals, r) + 1000 * (100 - Coverage(vals, r))
<1> DEFINE a == PointsOf(whole, r)
           u == WeightsOf(vals, r)
           c == PointsOf(vals, r)
           v == WeightsOf(whole, r)
<1>1. whole \in Situation /\ Coverage(whole, r) = 100  BY WholeCoverage
<1>2. IsFiniteSet(Factors)  BY ScoringAssumption
<1>3. /\ a \in [Factors -> Int] /\ u \in [Factors -> Int]
      /\ c \in [Factors -> Int] /\ v \in [Factors -> Int]
    BY <1>1, CountedTerms
<1>4. ASSUME NEW f \in Factors
      PROVE c[f] <= a[f] /\ a[f] + 1000 * u[f] <= c[f] + 1000 * v[f]
    <2>1. whole[f] \in Nat /\ whole[f] # NoValue  BY DEF NoValue
    <2>2. a[f] = Points(whole, r, f) /\ v[f] = r.weights[f]  BY <1>1, <2>1, CountedTerms
    <2>3. a[f] \in Nat /\ a[f] <= 1000 * r.weights[f]  BY <2>1, <2>2, PointsAreBounded
    <2>4. r.weights[f] \in Nat  BY DEF RulesOf
    <2>5. CASE vals[f] = NoValue
        <3>1. u[f] = 0 /\ c[f] = 0  BY <2>5, CountedTerms
        <3> HIDE DEF a, u, c, v
        <3> QED  BY <2>2, <2>3, <2>4, <3>1
    <2>6. CASE vals[f] # NoValue
        <3>1. u[f] = r.weights[f] /\ c[f] = Points(vals, r, f)  BY <2>6, CountedTerms
        <3>2. Points(vals, r, f) = Points(whole, r, f)  BY <2>6 DEF Points
        <3> HIDE DEF a, u, c, v
        <3> QED  BY <2>2, <2>3, <2>4, <3>1, <3>2
    <2> QED  BY <2>5, <2>6
<1>5. Raw(whole, r) = SumFunction(a) /\ Raw(vals, r) = SumFunction(c)  BY DEF Raw
<1>6. Coverage(vals, r) = SumFunction(u) /\ Coverage(whole, r) = SumFunction(v)
    BY DEF Coverage, WeightsOf
<1> HIDE DEF a, u, c, v
<1>7. SumFunction(c) <= SumFunction(a)  BY <1>2, <1>3, <1>4, SumIsMonotone
<1>8. SumFunction(a) + 1000 * SumFunction(u) <= SumFunction(c) + 1000 * SumFunction(v)
    BY <1>2, <1>3, <1>4, SumsCompare
<1>9. SumFunction(a) \in Int /\ SumFunction(u) \in Int /\ SumFunction(c) \in Int
    BY <1>2, <1>3, SumIsInt
<1> QED  BY <1>1, <1>5, <1>6, <1>7, <1>8, <1>9

\* How much of the weights is missing, by the confidence.
LEMMA CoverageOfConfidence ==
    ASSUME NEW coverage \in Int
    PROVE  /\ Confidence(coverage) = "high" => coverage >= 90
           /\ Confidence(coverage) = "medium" => coverage >= 75
           /\ Confidence(coverage) = "low" => coverage >= 60
BY DEF Confidence

LEMMA InvGivesGaps == ScoringInv => GapsAreWithinConfidence
<1> SUFFICES ASSUME ScoringInv, HasScore PROVE GapsAreWithinConfidence
    BY DEF GapsAreWithinConfidence
<1>1. PICK r : r = Rules[rules]  OBVIOUS
<1>2. RulesOf(r) /\ values \in Situation /\ rules \in DOMAIN Rules
    BY <1>1, RulesAreSound DEF ScoringInv
<1>3. PICK result : result = Score(values, fresh, rules)  OBVIOUS
<1>4. /\ fresh /\ result.score = Rounded(Raw(values, r))
      /\ result.confidence = Confidence(Coverage(values, r))
      /\ result.confidence \in {"high", "medium", "low"}
    BY <1>1, <1>2, <1>3, WhatHasAScore
<1>5. ASSUME NEW v \in {0, MaxValue},
             NEW whole, whole = [f \in Factors |-> IF values[f] = NoValue THEN v ELSE values[f]]
      PROVE /\ result.score <= Score(whole, fresh, rules).score
            /\ result.confidence = "high" =>
                   Score(whole, fresh, rules).score <= result.score + 11
            /\ result.confidence = "medium" =>
                   Score(whole, fresh, rules).score <= result.score + 26
            /\ result.confidence = "low" =>
                   Score(whole, fresh, rules).score <= result.score + 41
    <2>1. v \in Nat  BY ScoringAssumption
    <2>2. whole \in [Factors -> Nat]  BY <1>2, <1>5, <2>1 DEF Situation
    <2>3. \A f \in Factors : values[f] # NoValue => whole[f] = values[f]  BY <1>5
    <2>4. Usable(whole) = Factors /\ Confidence(Coverage(whole, r)) = "high" /\ whole \in Situation
        BY <1>2, <2>2, WholeCoverage
    <2>5. PICK complete : complete = Score(whole, fresh, rules).score  OBVIOUS
    <2>6. complete = Rounded(Raw(whole, r))
        <3>1. r.mandatory \subseteq Usable(whole)  BY <1>2, <2>4 DEF RulesOf
        <3> QED  BY <1>1, <1>4, <2>4, <2>5, <3>1, ScoreParts
    <2>7. PICK coverage : coverage = Coverage(values, r)  OBVIOUS
    <2>8. PICK a : a = Raw(values, r)  OBVIOUS
    <2>9. PICK b : b = Raw(whole, r)  OBVIOUS
    <2>10. coverage \in Int /\ a \in Int /\ b \in Int
        BY <1>2, <2>4, <2>7, <2>8, <2>9, SumsAreInts
    <2>11. a <= b /\ b <= a + 1000 * (100 - coverage)
        BY <1>2, <2>2, <2>3, <2>7, <2>8, <2>9, GapsWeighWhatIsMissing
    <2>12. result.score = Rounded(a) /\ complete = Rounded(b)  BY <1>4, <2>6, <2>8, <2>9
    <2>13. Rounded(a) <= Rounded(b)  BY <2>10, <2>11, RoundingIsMonotone
    <2>14. result.confidence = Confidence(coverage)  BY <1>4, <2>7
    <2>15. /\ result.confidence = "high" => b <= a + 10000
           /\ result.confidence = "medium" => b <= a + 25000
           /\ result.confidence = "low" => b <= a + 40000
        BY <2>10, <2>11, <2>14, CoverageOfConfidence
    <2>16. /\ result.confidence = "high" => Rounded(b) <= Rounded(a) + 11
           /\ result.confidence = "medium" => Rounded(b) <= Rounded(a) + 26
           /\ result.confidence = "low" => Rounded(b) <= Rounded(a) + 41
        BY <2>10, <2>15, RoundingIsClose
    <2> QED  BY <2>5, <2>12, <2>13, <2>16
<1>6. CASE result.confidence = "high"
    BY <1>3, <1>5, <1>6 DEF GapsAreWithinConfidence
<1>7. CASE result.confidence = "medium"
    BY <1>3, <1>5, <1>7 DEF GapsAreWithinConfidence
<1>8. CASE result.confidence = "low"
    BY <1>3, <1>5, <1>8 DEF GapsAreWithinConfidence
<1> QED  BY <1>4, <1>6, <1>7, <1>8

\* What is missing could raise a score by no more than its confidence admits, and never
\* lower it, for every set of factors and every weights that add up to 100.
THEOREM GapsAreAlwaysWithinConfidence == ScoringSpec => []GapsAreWithinConfidence
BY InvGivesGaps, ScoringAlways, PTL

\* The same evidence, and no value that moved against the risk: the same coverage and
\* at least as many points.
LEMMA ScoresFollow ==
    ASSUME NEW r, RulesOf(r), NEW old \in Situation, NEW new \in Situation,
           Usable(new) = Usable(old),
           \A f \in Factors : IF f \in r.protective THEN new[f] <= old[f] ELSE new[f] >= old[f]
    PROVE  Coverage(new, r) = Coverage(old, r) /\ Rounded(Raw(old, r)) <= Rounded(Raw(new, r))
<1>1. Coverage(new, r) = Coverage(old, r)  BY DEF Coverage, Counted
<1>2. IsFiniteSet(Factors)  BY ScoringAssumption
<1>3. PICK a : a = PointsOf(old, r)  OBVIOUS
<1>4. PICK b : b = PointsOf(new, r)  OBVIOUS
<1>5. a \in [Factors -> Int] /\ b \in [Factors -> Int]  BY <1>3, <1>4, CountedTerms
<1>6. ASSUME NEW f \in Factors PROVE a[f] <= b[f]
    <2>1. old[f] = NoValue <=> new[f] = NoValue  BY DEF Usable
    <2>2. CASE old[f] = NoValue
        BY <1>3, <1>4, <2>1, <2>2, CountedTerms
    <2>3. CASE old[f] # NoValue
        <3>1. old[f] \in Nat /\ new[f] \in Nat  BY <2>1, <2>3 DEF Situation
        <3>2. a[f] = Points(old, r, f)  BY <1>3, <2>3, CountedTerms
        <3>3. b[f] = Points(new, r, f)  BY <1>4, <2>1, <2>3, CountedTerms
        <3>4. IF f \in r.protective THEN new[f] <= old[f] ELSE old[f] <= new[f]  BY <3>1
        <3>5. Points(old, r, f) <= Points(new, r, f)  BY <3>1, <3>4, PointsAreMonotone
        <3> QED  BY <3>2, <3>3, <3>5
    <2> QED  BY <2>2, <2>3
<1>7. SumFunction(a) <= SumFunction(b)  BY <1>2, <1>5, <1>6, SumIsMonotone
<1>8. SumFunction(a) \in Int /\ SumFunction(b) \in Int  BY <1>2, <1>5, SumIsInt
<1>9. Rounded(SumFunction(a)) <= Rounded(SumFunction(b))  BY <1>7, <1>8, RoundingIsMonotone
<1> QED  BY <1>1, <1>3, <1>4, <1>9 DEF Raw

LEMMA StepsFollow == ScoringInv /\ ScoringInv' => FollowsTheSituation
<1> SUFFICES ASSUME ScoringInv, ScoringInv', HasScore, rules' = rules, fresh' = fresh,
                    Usable(values') = Usable(values),
                    \A f \in Factors :
                        IF f \in Rules[rules].protective THEN values'[f] <= values[f]
                        ELSE values'[f] >= values[f]
             PROVE Score(values', fresh', rules').score >= Score(values, fresh, rules).score
    BY DEF FollowsTheSituation
<1>1. PICK r : r = Rules[rules]  OBVIOUS
<1>2. PICK new : new = values'  OBVIOUS
<1>3. RulesOf(r) /\ values \in Situation /\ new \in Situation /\ rules \in DOMAIN Rules
    BY <1>1, <1>2, RulesAreSound DEF ScoringInv
<1>4. /\ fresh /\ r.mandatory \subseteq Usable(values)
      /\ Confidence(Coverage(values, r)) # "insufficient-data"
      /\ Score(values, fresh, rules).score = Rounded(Raw(values, r))
    BY <1>1, <1>3, WhatHasAScore
<1>5. Coverage(new, r) = Coverage(values, r) /\ Rounded(Raw(values, r)) <= Rounded(Raw(new, r))
    BY <1>1, <1>2, <1>3, ScoresFollow
<1>6. Score(new, fresh, rules).score = Rounded(Raw(new, r))
    BY <1>1, <1>2, <1>4, <1>5, ScoreParts
<1>7. Rounded(Raw(values, r)) \in Int /\ Rounded(Raw(new, r)) \in Int  BY <1>3, SumsAreInts
<1> QED  BY <1>2, <1>4, <1>5, <1>6, <1>7

\* A situation that only gets worse never scores lower, for every set of factors: capping,
\* the direction of a factor, the division and the rounding all keep the order, and so
\* does the sum.
THEOREM ScoresAlwaysFollow == ScoringSpec => ScoreFollowsTheSituation
BY StepsFollow, ScoringAlways, PTL DEF ScoreFollowsTheSituation

=============================================================================
