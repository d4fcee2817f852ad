------------------------------- MODULE Alerts -------------------------------
(***************************************************************************)
(* Risk alerts, their recurrence and the notifications they request:        *)
(*   packages/persistence/.../alert_repository.py, outbox_repository.py     *)
(*   domain/workforce_risk/alerts/rules.py, state.py                        *)
(*   services/agent-api/.../routes/alerts.py, scans/pipeline.py (persist)   *)
(*                                                                         *)
(* A scan stores each employee's risk in one transaction under the alert's  *)
(* row lock.  A manager's PATCH reads the alert without a lock and updates  *)
(* it where the version is still the one of If-Match.                       *)
(***************************************************************************)
EXTENDS Naturals, Sequences

CONSTANTS Employee,
          Evidence,    \* what a scan may find: records of a level and a fingerprint
          Manager,     \* concurrent PATCH requests
          Cooldown,    \* ticks until an unchanged level may be emailed again
          MaxDay,      \* bound: scoring windows (days)
          MaxVersion   \* bound: the version an alert may reach by new evidence

LOW == "low"
MEDIUM == "medium"
HIGH == "high"
CRITICAL == "critical"

\* A result without a level (insufficient evidence).
NoLevel == "none"

ASSUME AlertsAssumption ==
    /\ \A ev \in Evidence :
          ev = [level |-> ev.level, fingerprint |-> ev.fingerprint]
          /\ ev.level \in {NoLevel, LOW, MEDIUM, HIGH, CRITICAL}
    /\ Cooldown \in Nat
    /\ MaxDay \in Nat \ {0}
    /\ MaxVersion \in Nat

Fingerprint == {ev.fingerprint : ev \in Evidence}

\* The risk type is always "overload", so alert_dedup_key tells employees and
\* days apart.
Alert == Employee \X (1..MaxDay)

VARIABLES alert,        \* alert[k]: the row of Alert
          since,        \* since[k]: ticks since last_notified_at, up to Cooldown;
                        \*   Cooldown too while it is null
          occurrences,  \* occurrences[k]: the rows of AlertOccurrence by number,
                        \*   each with the version it gave the alert (history)
          outbox,       \* outbox events risk_alert.notification_requested
          patching,     \* patching[m]: a PATCH /alerts/{id} request, or NoPatch
          latest,       \* history: the last result that called for alert k
          audited,      \* the last event alert.* that a PATCH appended to the audit chain
          today

rows == <<alert, since, occurrences, outbox, latest>>
avars == <<rows, audited, patching, today>>

Absent == "absent"
UNSEEN == "new"          \* AlertState.NEW (NEW is a word of TLA+)
ACKNOWLEDGED == "acknowledged"
INVESTIGATING == "investigating"
RESOLVED == "resolved"
DISMISSED == "dismissed"

AlertState == {UNSEEN, ACKNOWLEDGED, INVESTIGATING, RESOLVED, DISMISSED}

ALLOWED_TRANSITIONS ==
    [s \in AlertState |->
        CASE s = UNSEEN -> {ACKNOWLEDGED, INVESTIGATING, RESOLVED, DISMISSED}
          [] s = ACKNOWLEDGED -> {INVESTIGATING, RESOLVED, DISMISSED}
          [] s = INVESTIGATING -> {RESOLVED, DISMISSED}
          [] s \in {RESOLVED, DISMISSED} -> {UNSEEN}]

NoAlert == [state |-> Absent, severity |-> NoLevel, fingerprint |-> NoLevel, version |-> 0]
NoPatch == [at |-> "idle"]
NothingAudited == [version |-> 0]

AInit ==
    /\ alert = [k \in Alert |-> NoAlert]
    /\ since = [k \in Alert |-> Cooldown]
    /\ occurrences = [k \in Alert |-> <<>>]
    /\ outbox = {}
    /\ patching = [m \in Manager |-> NoPatch]
    /\ latest = [k \in Alert |-> [level |-> NoLevel, fingerprint |-> NoLevel]]
    /\ audited = NothingAudited
    /\ today = 1

Exists(k) == alert[k].state # Absent

----------------------------------------------------------------------------
(* rules.py                                                                  *)

create_inbox_alert(level) == level \in {MEDIUM, HIGH, CRITICAL}

send_email(level) == level \in {HIGH, CRITICAL}

Rank(level) == CASE level = NoLevel -> 0 [] level = LOW -> 1 [] level = MEDIUM -> 2
                 [] level = HIGH -> 3 [] level = CRITICAL -> 4

should_notify_CooldownOnly(previous, level, elapsed) ==
    send_email(level) /\ elapsed >= Cooldown

\* A first alert and an escalation are always emailed; anything else only after
\* the cooldown.  The scan never sets important_new_evidence.
should_notify(previous, level, elapsed) ==
    /\ send_email(level)
    /\ Rank(level) > Rank(previous) \/ elapsed >= Cooldown

----------------------------------------------------------------------------
(* AlertRepository, inside the transaction of DatabaseScanResultSink.persist *)

Active == {UNSEEN, ACKNOWLEDGED, INVESTIGATING}

Resolved_SameVersion(a) == [a EXCEPT !.state = RESOLVED]

Resolved(a) == [a EXCEPT !.state = RESOLVED, !.version = @ + 1]

\* A low result resolves the employee's alerts of every day.
resolve_active_risk(e) ==
    /\ alert' = [k \in Alert |-> IF k[1] = e /\ alert[k].state \in Active
                                 THEN Resolved(alert[k]) ELSE alert[k]]
    /\ UNCHANGED <<since, occurrences, outbox, latest>>

Unchanged_FingerprintOnly(a, ev) == a.fingerprint = ev.fingerprint

Unchanged(a, ev) == a.fingerprint = ev.fingerprint /\ a.severity = ev.level

Changed_SameVersion(a, ev) ==
    [a EXCEPT !.state = IF @ \in {RESOLVED, DISMISSED} THEN UNSEEN ELSE @,
              !.severity = ev.level, !.fingerprint = ev.fingerprint]

\* New evidence reopens an alert that was closed.
Changed(a, ev) ==
    [a EXCEPT !.state = IF @ \in {RESOLVED, DISMISSED} THEN UNSEEN ELSE @,
              !.severity = ev.level, !.fingerprint = ev.fingerprint,
              !.version = @ + 1]

Created(ev) == [state |-> UNSEEN, severity |-> ev.level, fingerprint |-> ev.fingerprint,
                version |-> 1]

\* OutboxRepository.append keeps the first event of a consumer_key.
AppendOutbox(k, row) ==
    outbox' = IF \E o \in outbox : o.alert = k /\ o.version = row.version THEN outbox
              ELSE outbox \cup {[alert |-> k, version |-> row.version,
                                 severity |-> row.severity]}

StoreOccurrence(k, row) ==
    /\ alert' = [alert EXCEPT ![k] = row]
    /\ occurrences' = [occurrences EXCEPT ![k] =
          Append(@, [severity |-> row.severity, fingerprint |-> row.fingerprint,
                     version |-> row.version])]
    /\ IF should_notify(alert[k].severity, row.severity, since[k])
       THEN AppendOutbox(k, row) /\ since' = [since EXCEPT ![k] = 0]
       ELSE UNCHANGED <<outbox, since>>

\* An unchanged result returns early, also when the alert has been closed.
record_risk(k, ev) ==
    /\ latest' = [latest EXCEPT ![k] = ev]
    /\ \/ ~Exists(k) /\ StoreOccurrence(k, Created(ev))
       \/ /\ Exists(k) /\ Unchanged(alert[k], ev)
          /\ UNCHANGED <<alert, since, occurrences, outbox>>
       \/ /\ Exists(k) /\ ~Unchanged(alert[k], ev)
          /\ alert[k].version < MaxVersion
          /\ StoreOccurrence(k, Changed(alert[k], ev))

\* persist, on the day of the evidence.
PersistResult(e, day, ev) ==
    \/ ev.level = NoLevel /\ UNCHANGED rows
    \/ ev.level = LOW /\ resolve_active_risk(e)
    \/ create_inbox_alert(ev.level) /\ record_risk(<<e, day>>, ev)

----------------------------------------------------------------------------
(* PATCH /alerts/{alert_id}, with the ETag of what the manager was shown.     *)

Targets == {ACKNOWLEDGED, RESOLVED, DISMISSED}

OpenPatch(m, k, target) ==
    /\ patching[m] = NoPatch
    /\ Exists(k)
    /\ patching' = [patching EXCEPT ![m] = [at |-> "load", alert |-> k, target |-> target,
                                            shown |-> alert[k], read |-> Absent]]
    /\ UNCHANGED <<rows, audited, today>>

\* session.get, the version check and validate_transition (a dismissal comes
\* with its reason).
LoadAlert(m) ==
    LET patch == patching[m]
        a == alert[patch.alert]
    IN  /\ patch.at = "load"
        /\ patching' = [patching EXCEPT ![m] =
              IF a.version = patch.shown.version
                 /\ patch.target \in ALLOWED_TRANSITIONS[a.state]
              THEN [patch EXCEPT !.at = "update", !.read = a.state] ELSE NoPatch]
        /\ UNCHANGED <<rows, audited, today>>

\* The audit event of a transition: from the state that was loaded, at the version
\* after the expected one.
Transition(patch) == [alert |-> patch.alert, prior |-> patch.read, new |-> patch.target,
                      version |-> patch.shown.version + 1]

\* UPDATE ... WHERE version = expected_version, and the audit event in the same
\* transaction.  No row means a conflict; an append that collides with another on the
\* chain rolls the update back.
UpdateAlert(m) ==
    LET patch == patching[m]
        k == patch.alert
    IN  /\ patch.at = "update"
        /\ \/ /\ alert[k].version = patch.shown.version
              /\ alert' = [alert EXCEPT ![k].state = patch.target, ![k].version = @ + 1]
              /\ audited' = Transition(patch)
           \/ UNCHANGED <<alert, audited>>
        /\ patching' = [patching EXCEPT ![m] = NoPatch]
        /\ UNCHANGED <<since, occurrences, outbox, latest, today>>

Patch(m) ==
    \/ \E k \in Alert, target \in Targets : OpenPatch(m, k, target)
    \/ LoadAlert(m)
    \/ UpdateAlert(m)

Tick ==
    /\ since' = [k \in Alert |-> IF since[k] < Cooldown THEN since[k] + 1 ELSE Cooldown]
    /\ today' \in {today, today + 1} \cap (1..MaxDay)
    /\ <<since, today>>' # <<since, today>>
    /\ UNCHANGED <<alert, occurrences, outbox, latest, audited, patching>>

ANext ==
    \/ \E e \in Employee, ev \in Evidence :
          PersistResult(e, today, ev) /\ UNCHANGED <<audited, patching, today>>
    \/ \E m \in Manager : Patch(m)
    \/ Tick

ASpec == AInit /\ [][ANext]_avars

----------------------------------------------------------------------------
(* Properties                                                               *)

Row == [state : AlertState, severity : {MEDIUM, HIGH, CRITICAL},
        fingerprint : Fingerprint, version : Nat \ {0}]
Occurrence == [severity : {MEDIUM, HIGH, CRITICAL}, fingerprint : Fingerprint,
               version : Nat \ {0}]

\* Every variable has the type of its column or request.
AlertsTypeOK ==
    /\ alert \in [Alert -> Row \cup {NoAlert}]
    /\ since \in [Alert -> 0..Cooldown]
    /\ occurrences \in [Alert -> Seq(Occurrence)]
    /\ outbox \subseteq [alert : Alert, version : Nat \ {0}, severity : {HIGH, CRITICAL}]
    /\ patching \in [Manager -> [at : {"load", "update"}, alert : Alert,
                                 target : Targets, shown : Row,
                                 read : AlertState \cup {Absent}] \cup {NoPatch}]
    /\ latest \in [Alert -> Evidence \cup {[level |-> NoLevel, fingerprint |-> NoLevel]}]
    /\ audited \in [alert : Alert, prior : AlertState, new : Targets,
                    version : Nat \ {0}] \cup {NothingAudited}
    /\ today \in 1..MaxDay

\* The ETag is sound: an alert that still has the version a manager was shown
\* is the alert the manager was shown, so what the manager changes is what the
\* manager saw, whatever scans ran in between.
ETagIdentifiesAlert ==
    \A m \in Manager :
        LET patch == patching[m]
        IN  patch # NoPatch /\ alert[patch.alert].version = patch.shown.version
              => alert[patch.alert] = patch.shown

\* Whoever moves an alert, a scan or a manager whose request overlaps it, moves
\* it along ALLOWED_TRANSITIONS; and what only a manager does is audited with the
\* state the alert moved from and the version it got, although that state was read
\* before the update.
TransitionsAreLegal ==
    [][\A k \in Alert :
          Exists(k) /\ alert'[k].state # alert[k].state =>
              /\ alert'[k].state \in ALLOWED_TRANSITIONS[alert[k].state]
              /\ alert'[k].state \in {ACKNOWLEDGED, DISMISSED} =>
                     audited' = [alert |-> k, prior |-> alert[k].state,
                                 new |-> alert'[k].state, version |-> alert'[k].version]]_avars

\* Recurrence is auditable: the alert shows the last result that called for it,
\* that result is its last occurrence, and an unchanged result leaves none.
RecurrenceIsRecorded ==
    \A k \in Alert :
        LET occ == occurrences[k]
            content(n) == [level |-> occ[n].severity, fingerprint |-> occ[n].fingerprint]
        IN  /\ Exists(k) = (occ # <<>>)
            /\ Exists(k) =>
                  /\ content(Len(occ)) = latest[k]
                  /\ alert[k].severity = latest[k].level
                  /\ alert[k].fingerprint = latest[k].fingerprint
            /\ \A n \in 2..Len(occ) : content(n) # content(n - 1)

\* A first high or critical result and every escalation to one has an outbox
\* event of its own, whatever the cooldown and the versions in between.
EscalationIsAnnounced ==
    \A k \in Alert : \A n \in 1..Len(occurrences[k]) :
        LET occ == occurrences[k]
        IN  /\ send_email(occ[n].severity)
            /\ n = 1 \/ Rank(occ[n].severity) > Rank(occ[n - 1].severity)
            => [alert |-> k, version |-> occ[n].version, severity |-> occ[n].severity]
                  \in outbox

=============================================================================
