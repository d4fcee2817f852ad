--------------------------- MODULE EvidenceStore ----------------------------
(***************************************************************************)
(* Evidence snapshots with their risk results and the history read from them: *)
(*   SnapshotRepository in packages/persistence/.../repositories.py,          *)
(*   DatabaseScanResultSink in services/agent-api/.../scans/pipeline.py,      *)
(*   historical_evidence.py, domain/workforce_risk/evidence.                  *)
(*                                                                         *)
(* Several writers observe one employee at different times and store late:   *)
(* a snapshot is looked up by its fingerprint and inserted in one            *)
(* transaction, and the unique fingerprint refuses a second insert.          *)
(***************************************************************************)
EXTENDS Naturals

CONSTANTS Writer,    \* overlapping scan runs and persist_evidence_snapshot calls
          Tasks,     \* what Jira says of the employee's work
          Load,      \* what the dossier adds
          MaxTime    \* bound: the clock

Material == [tasks : Tasks, load : Load]

VARIABLES truth,     \* truth[n]: the employee's material at time n
          now,
          snapshot,  \* the rows of EvidenceSnapshot
          results,   \* the rows of RiskResultRecord
          storing    \* storing[w]: what writer w has observed and found

evars == <<truth, now, snapshot, results, storing>>

NotStoring == [phase |-> "idle"]

EvidenceInit ==
    /\ truth \in [{1} -> Material]
    /\ now = 1
    /\ snapshot = {} /\ results = {}
    /\ storing = [w \in Writer |-> NotStoring]

----------------------------------------------------------------------------

\* canonical_material, or the score input with its dossier: everything but times.
Fingerprint(material) == material

Observe(w, kind) ==
    /\ storing[w] = NotStoring
    /\ storing' = [storing EXCEPT ![w] =
         [phase |-> "observed", kind |-> kind, material |-> truth[now], at |-> now]]
    /\ UNCHANGED <<truth, now, snapshot, results>>

Stored(material) == {s \in snapshot : s.fingerprint = Fingerprint(material)}

Lookup(w) ==
    LET s == storing[w] IN
    /\ s.phase = "observed"
    /\ storing' = [storing EXCEPT ![w].phase =
         IF Stored(s.material) = {} THEN "insert" ELSE "found"]
    /\ UNCHANGED <<truth, now, snapshot, results>>

ObservedAt_StoredAt(s) == now

ObservedAt(s) == s.at

Row(s) == [fingerprint |-> Fingerprint(s.material), material |-> s.material,
           observed |-> ObservedAt(s)]

\* A result is bound to its snapshot's row and says what was scored.
Result(s) == [snapshot |-> Fingerprint(s.material), scored |-> s.material, created |-> now]

Finish(w) == storing' = [storing EXCEPT ![w] = NotStoring]

InsertSnapshot(w) ==
    LET s == storing[w] IN
    /\ s.phase = "insert"
    /\ IF Stored(s.material) = {}
       THEN /\ snapshot' = snapshot \cup {Row(s)}
            /\ results' = results \cup {Result(s)}
       ELSE UNCHANGED <<snapshot, results>>  \* uq_evidence_snapshot_identity
    /\ Finish(w)
    /\ UNCHANGED <<truth, now>>

\* A scan adds its result to the snapshot it found; the tool only returns its id.
ReuseSnapshot(w) ==
    LET s == storing[w] IN
    /\ s.phase = "found"
    /\ results' = IF s.kind = "scan" THEN results \cup {Result(s)} ELSE results
    /\ Finish(w)
    /\ UNCHANGED <<truth, now, snapshot>>

\* DatabaseHistoricalEvidenceReader.get_at: of the snapshots with a result observed
\* by the cutoff, (one of) the last observed.
get_at(cutoff) ==
    LET rows == {s \in snapshot : s.observed <= cutoff
                                    /\ \E r \in results : r.snapshot = s.fingerprint}
    IN {s \in rows : \A t \in rows : t.observed <= s.observed}

TimePasses ==
    /\ now < MaxTime
    /\ now' = now + 1
    /\ \E m \in Material : truth' = [n \in 1..now' |-> IF n = now' THEN m ELSE truth[n]]
    /\ UNCHANGED <<snapshot, results, storing>>

EvidenceNext ==
    \/ \E w \in Writer :
          \/ \E kind \in {"scan", "tool"} : Observe(w, kind)
          \/ Lookup(w) \/ InsertSnapshot(w) \/ ReuseSnapshot(w)
    \/ TimePasses

EvidenceSpec == EvidenceInit /\ [][EvidenceNext]_evars

----------------------------------------------------------------------------
(* Properties.                                                              *)

\* However late a writer stores what it observed, and whoever stores the same
\* fingerprint first, a snapshot shows the employee as of its observation time, and
\* what history answers for a cutoff had been observed by then.
HistoryIsTrue ==
    /\ \A s \in snapshot : s.material = truth[s.observed]
    /\ \A c \in 1..now : \A s \in get_at(c) : s.observed <= c

\* A score is kept with the evidence it was computed from, although it is bound to
\* a snapshot another writer may have stored.
ResultsMatchSnapshot ==
    \A r \in results : \E s \in snapshot :
        s.fingerprint = r.snapshot /\ s.material = r.scored

\* What the repository keeps as evidence and get_at answers from is what was observed,
\* when it was, and what the score stored with it was computed from.
EvidenceIsFaithful == HistoryIsTrue /\ ResultsMatchSnapshot

=============================================================================
