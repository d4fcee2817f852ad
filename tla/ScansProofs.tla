------------------------------ MODULE ScansProofs ------------------------------
(***************************************************************************)
(* What holds of alerts, for any number of employees, days, results, managers   *)
(* and versions, and of the scan runs that raise them, for any number of        *)
(* requests, windows, employees and dying processes.                           *)
(***************************************************************************)
EXTENDS Scans, TLAPS

----------------------------------------------------------------------------
(* Alerts.                                                                   *)

\* A manager was shown a row the alert has had, and asks for a move from it.
PatchesAreOfRows ==
    \A m \in Manager :
        LET patch == patching[m]
        IN  patch # NoPatch =>
              /\ patch.shown.version <= alert[patch.alert].version
              /\ patch.at = "update" =>
                    /\ patch.read = patch.shown.state
                    /\ patch.target \in ALLOWED_TRANSITIONS[patch.shown.state]

\* An event is of a version its alert has reached.
EventsAreOfVersions ==
    \A o \in outbox : o.version <= alert[o.alert].version

\* The inductive invariant.
AlertsInv == /\ AlertsTypeOK /\ ETagIdentifiesAlert /\ PatchesAreOfRows
             /\ EventsAreOfVersions /\ RecurrenceIsRecorded /\ EscalationIsAnnounced

----------------------------------------------------------------------------

LEMMA Levels ==
    /\ NoLevel \notin {LOW, MEDIUM, HIGH, CRITICAL} /\ LOW \notin {MEDIUM, HIGH, CRITICAL}
    /\ \A l \in {MEDIUM, HIGH, CRITICAL} : Rank(l) \in Nat /\ Rank(l) > Rank(NoLevel)
    /\ Rank(NoLevel) = 0
BY DEF NoLevel, LOW, MEDIUM, HIGH, CRITICAL, Rank

LEMMA EvidenceTypes ==
    ASSUME NEW ev \in Evidence
    PROVE  /\ ev = [level |-> ev.level, fingerprint |-> ev.fingerprint]
           /\ ev.level \in {NoLevel, LOW, MEDIUM, HIGH, CRITICAL}
           /\ ev.fingerprint \in Fingerprint
BY AlertsAssumption DEF Fingerprint

LEMMA AbsentIsNoState == Absent \notin AlertState
BY DEF Absent, AlertState, UNSEEN, ACKNOWLEDGED, INVESTIGATING, RESOLVED, DISMISSED

LEMMA Rows ==
    ASSUME AlertsTypeOK, NEW k \in Alert
    PROVE  /\ Exists(k) => alert[k] \in Row
           /\ ~Exists(k) => alert[k] = NoAlert
           /\ alert[k].version \in Nat
BY AbsentIsNoState DEF AlertsTypeOK, Exists, Row, NoAlert

\* A row in another state and with the next version.
LEMMA RowMoved ==
    ASSUME NEW a \in Row, NEW s \in AlertState, NEW b,
           b = [a EXCEPT !.state = s, !.version = a.version + 1]
    PROVE  /\ b \in Row /\ b.state = s /\ b.version > a.version
           /\ b.severity = a.severity /\ b.fingerprint = a.fingerprint
<1>1. /\ a.version \in Nat \ {0} /\ a.severity \in {MEDIUM, HIGH, CRITICAL}
      /\ a.fingerprint \in Fingerprint
    BY DEF Row
<1>2. /\ b.state = s /\ b.version = a.version + 1
      /\ b.severity = a.severity /\ b.fingerprint = a.fingerprint
    BY DEF Row
<1>3. a.version + 1 \in Nat \ {0} /\ a.version + 1 > a.version
    BY <1>1
<1>4. b \in Row
    BY <1>1, <1>3 DEF Row
<1> QED BY <1>2, <1>3, <1>4

LEMMA Versions ==
    ASSUME AlertsTypeOK, AlertsTypeOK', NEW k \in Alert
    PROVE  alert[k].version \in Nat /\ alert'[k].version \in Nat
<1>1. alert[k] \in Row \cup {NoAlert} /\ alert'[k] \in Row \cup {NoAlert}
    BY DEF AlertsTypeOK
<1>2. \A row \in Row \cup {NoAlert} : row.version \in Nat
    BY DEF Row, NoAlert
<1> QED BY <1>1, <1>2

PatchRow == [at : {"load", "update"}, alert : Alert, target : Targets, shown : Row,
             read : AlertState \cup {Absent}]

LEMMA Patches ==
    ASSUME AlertsTypeOK, NEW m \in Manager, patching[m] # NoPatch
    PROVE  /\ patching[m].at \in {"load", "update"} /\ patching[m].alert \in Alert
           /\ patching[m].target \in Targets /\ patching[m].shown \in Row
           /\ patching[m] \in PatchRow
BY DEF AlertsTypeOK, PatchRow

LEMMA AInitInv == AInit => AlertsInv
<1> SUFFICES ASSUME AInit PROVE AlertsInv
    OBVIOUS
<1> USE AlertsAssumption
<1>1. AlertsTypeOK
    BY DEF AInit, AlertsTypeOK
<1>2. ETagIdentifiesAlert /\ PatchesAreOfRows /\ EventsAreOfVersions
    BY DEF AInit, ETagIdentifiesAlert, PatchesAreOfRows, EventsAreOfVersions
<1>3. RecurrenceIsRecorded
    BY DEF AInit, RecurrenceIsRecorded, Exists, NoAlert, Absent
<1>4. EscalationIsAnnounced
    BY DEF AInit, EscalationIsAnnounced
<1> QED BY <1>1, <1>2, <1>3, <1>4 DEF AlertsInv

----------------------------------------------------------------------------
(* Every writer of a row gives it a new version.                             *)

\* alert[k] stays or gets a newer version.
Moves(k) == \/ alert'[k] = alert[k]
            \/ alert'[k] \in Row /\ alert'[k].version > alert[k].version

\* Managers' requests stay right when rows only move.
LEMMA PatchesStay ==
    ASSUME AlertsInv, AlertsTypeOK', UNCHANGED patching,
           \A k \in Alert : Moves(k)
    PROVE  ETagIdentifiesAlert' /\ PatchesAreOfRows'
<1> USE DEF AlertsInv
<1> SUFFICES ASSUME NEW m \in Manager, patching[m] # NoPatch
             PROVE  LET patch == patching[m] IN
                    /\ alert'[patch.alert].version = patch.shown.version
                         => alert'[patch.alert] = patch.shown
                    /\ patch.shown.version <= alert'[patch.alert].version
                    /\ patch.at = "update" =>
                         /\ patch.read = patch.shown.state
                         /\ patch.target \in ALLOWED_TRANSITIONS[patch.shown.state]
    BY DEF ETagIdentifiesAlert, PatchesAreOfRows
<1> DEFINE k == patching[m].alert
           shown == patching[m].shown
<1>1. k \in Alert /\ shown \in Row
    BY Patches
<1>2. /\ alert[k].version = shown.version => alert[k] = shown
      /\ shown.version <= alert[k].version
      /\ patching[m].at = "update" =>
            /\ patching[m].read = shown.state
            /\ patching[m].target \in ALLOWED_TRANSITIONS[shown.state]
    BY DEF ETagIdentifiesAlert, PatchesAreOfRows
<1>3. shown.version \in Nat /\ alert[k].version \in Nat /\ alert'[k].version \in Nat
    BY <1>1, Versions DEF Row
<1>4. Moves(k)
    BY <1>1
<1> HIDE DEF k, shown
<1>5. /\ alert'[k].version = shown.version => alert'[k] = shown
      /\ shown.version <= alert'[k].version
    BY <1>2, <1>3, <1>4 DEF Moves
<1> QED BY <1>2, <1>5 DEF k, shown

LEMMA EventsStay ==
    ASSUME AlertsInv, AlertsTypeOK', UNCHANGED outbox,
           \A k \in Alert : Moves(k)
    PROVE  EventsAreOfVersions'
<1> SUFFICES ASSUME NEW o \in outbox PROVE o.version <= alert'[o.alert].version
    BY DEF EventsAreOfVersions
<1>1. o.alert \in Alert /\ o.version \in Nat
    BY DEF AlertsInv, AlertsTypeOK
<1>2. alert[o.alert].version \in Nat /\ alert'[o.alert].version \in Nat
    BY <1>1, Versions DEF AlertsInv
<1>3. o.version <= alert[o.alert].version /\ Moves(o.alert)
    BY <1>1 DEF AlertsInv, EventsAreOfVersions
<1> QED BY <1>1, <1>2, <1>3 DEF Moves

----------------------------------------------------------------------------
(* A low result and managers change states and versions only.                *)

\* What a step preserves that keeps what the rows show and the history.
LEMMA StateStep ==
    ASSUME AlertsInv, AlertsTypeOK', UNCHANGED <<occurrences, outbox, latest>>,
           \A k \in Alert : /\ Moves(k) /\ (Exists(k)' = Exists(k))
                            /\ alert'[k].severity = alert[k].severity
                            /\ alert'[k].fingerprint = alert[k].fingerprint
    PROVE  EventsAreOfVersions' /\ RecurrenceIsRecorded' /\ EscalationIsAnnounced'
<1>1. EventsAreOfVersions'
    BY EventsStay
<1>2. RecurrenceIsRecorded'
    BY DEF AlertsInv, RecurrenceIsRecorded
<1>3. EscalationIsAnnounced'
    BY DEF AlertsInv, EscalationIsAnnounced
<1> QED BY <1>1, <1>2, <1>3

LEMMA ResolvePreserves ==
    ASSUME AlertsInv, NEW e \in Employee, resolve_active_risk(e),
           UNCHANGED <<audited, patching, today>>
    PROVE  AlertsInv'
<1>1. \A k \in Alert :
         \/ alert'[k] = alert[k]
         \/ /\ alert[k] \in Row
            /\ alert'[k] = [alert[k] EXCEPT !.state = RESOLVED,
                                            !.version = alert[k].version + 1]
  <2> SUFFICES ASSUME NEW k \in Alert, alert[k].state \in Active PROVE alert[k] \in Row
      BY DEF resolve_active_risk, Resolved
  <2> QED BY Rows DEF AlertsInv, Active, Exists, Absent, UNSEEN, ACKNOWLEDGED, INVESTIGATING
<1>2. \A k \in Alert : alert'[k] = alert[k] \/ (alert'[k] \in Row /\ Moves(k))
  <2> SUFFICES ASSUME NEW k \in Alert, alert[k] \in Row,
                      alert'[k] = [alert[k] EXCEPT !.state = RESOLVED,
                                                   !.version = alert[k].version + 1]
               PROVE  alert'[k] \in Row /\ alert'[k].version > alert[k].version
      BY <1>1 DEF Moves
  <2>1. RESOLVED \in AlertState
      BY DEF AlertState
  <2> QED BY <2>1, RowMoved
<1>3. AlertsTypeOK'
  <2>1. alert' \in [Alert -> Row \cup {NoAlert}]
    <3>1. alert' = [k \in Alert |-> alert'[k]]
        BY DEF resolve_active_risk
    <3>2. \A k \in Alert : alert'[k] \in Row \cup {NoAlert}
        BY <1>2 DEF AlertsInv, AlertsTypeOK
    <3> QED BY <3>1, <3>2
  <2> QED BY <2>1 DEF resolve_active_risk, AlertsInv, AlertsTypeOK
<1>4. \A k \in Alert : /\ Moves(k) /\ (Exists(k)' = Exists(k))
                       /\ alert'[k].severity = alert[k].severity
                       /\ alert'[k].fingerprint = alert[k].fingerprint
  <2> TAKE k \in Alert
  <2>1. CASE alert'[k] = alert[k]
      BY <2>1 DEF Moves, Exists
  <2>2. CASE alert'[k] # alert[k]
    <3>1. /\ alert[k] \in Row /\ Moves(k)
          /\ alert'[k] = [alert[k] EXCEPT !.state = RESOLVED, !.version = alert[k].version + 1]
        BY <1>1, <1>2, <2>2
    <3>2. /\ alert'[k].severity = alert[k].severity /\ alert'[k].state = RESOLVED
          /\ alert'[k].fingerprint = alert[k].fingerprint
        BY <3>1 DEF Row
    <3>3. alert[k].state # Absent /\ RESOLVED # Absent
        BY <3>1, AbsentIsNoState DEF Row, AlertState
    <3> QED BY <3>1, <3>2, <3>3 DEF Exists
  <2> QED BY <2>1, <2>2
<1>5. UNCHANGED <<occurrences, outbox, latest>>
    BY DEF resolve_active_risk
<1> QED BY <1>3, <1>4, <1>5, PatchesStay, StateStep DEF AlertsInv

LEMMA PatchTypes ==
    ASSUME AlertsInv, NEW m \in Manager, Patch(m)
    PROVE  AlertsTypeOK'
<1>1. CASE LoadAlert(m) \/ UpdateAlert(m)
  <2>1. patching[m] # NoPatch
      BY <1>1 DEF LoadAlert, UpdateAlert, NoPatch
  <2>2. /\ patching[m].alert \in Alert /\ patching[m].target \in Targets
        /\ patching[m].shown \in Row /\ patching[m] \in PatchRow
      BY <2>1, Patches DEF AlertsInv
  <2> DEFINE k == patching[m].alert
  <2>3. patching' \in [Manager -> PatchRow \cup {NoPatch}]
    <3>1. patching \in [Manager -> PatchRow \cup {NoPatch}]
        BY DEF AlertsInv, AlertsTypeOK, PatchRow
    <3>2. CASE patching' = [patching EXCEPT ![m] = NoPatch]
        BY <3>1, <3>2
    <3>3. CASE patching' # [patching EXCEPT ![m] = NoPatch]
      <4> DEFINE loaded == [patching[m] EXCEPT !.at = "update", !.read = alert[k].state]
      <4>1. alert[k].state \in AlertState \cup {Absent}
          BY <2>2, Rows DEF AlertsInv, Row, NoAlert
      <4>2. loaded \in PatchRow
          BY <2>2, <4>1 DEF PatchRow
      <4>3. patching' = [patching EXCEPT ![m] = loaded]
          BY <1>1, <3>3 DEF LoadAlert, UpdateAlert
      <4> HIDE DEF loaded
      <4> QED BY <3>1, <4>2, <4>3
    <3> QED BY <3>2, <3>3
  <2>4. /\ alert' \in [Alert -> Row \cup {NoAlert}]
        /\ audited' = audited \/ audited' \in [alert : Alert, prior : AlertState,
                                               new : Targets, version : Nat \ {0}]
    <3>1. CASE UNCHANGED <<alert, audited>>
        BY <3>1 DEF AlertsInv, AlertsTypeOK
    <3>2. CASE ~UNCHANGED <<alert, audited>>
      <4>1. /\ patching[m].at = "update" /\ alert[k].version = patching[m].shown.version
            /\ alert' = [alert EXCEPT ![k].state = patching[m].target, ![k].version = @ + 1]
            /\ audited' = Transition(patching[m])
          BY <1>1, <3>2 DEF LoadAlert, UpdateAlert, rows
      <4>2. alert' = [alert EXCEPT ![k] = [alert[k] EXCEPT
                             !.state = patching[m].target, !.version = alert[k].version + 1]]
          BY <4>1, <2>2 DEF AlertsInv, AlertsTypeOK
      <4>3. alert[k] \in Row
          BY <2>1, <2>2, <4>1 DEF AlertsInv, ETagIdentifiesAlert
      <4>4. [alert[k] EXCEPT !.state = patching[m].target, !.version = alert[k].version + 1]
               \in Row
        <5>1. patching[m].target \in AlertState
            BY <2>2 DEF Targets, AlertState
        <5> QED BY <4>3, <5>1, RowMoved
      <4>5. patching[m].read \in AlertState /\ patching[m].shown.version \in Nat
        <5>1. patching[m].read = patching[m].shown.state
            BY <2>1, <4>1 DEF AlertsInv, PatchesAreOfRows
        <5> QED BY <5>1, <2>2 DEF Row
      <4>6. Transition(patching[m]) \in [alert : Alert, prior : AlertState,
                                         new : Targets, version : Nat \ {0}]
          BY <2>2, <4>5 DEF Transition
      <4> QED BY <2>2, <4>1, <4>2, <4>4, <4>6 DEF AlertsInv, AlertsTypeOK
    <3> QED BY <3>1, <3>2
  <2>5. UNCHANGED <<since, occurrences, outbox, latest, today>>
      BY <1>1 DEF LoadAlert, UpdateAlert, rows
  <2> QED BY <2>3, <2>4, <2>5 DEF AlertsInv, AlertsTypeOK, PatchRow
<1>2. ASSUME NEW k \in Alert, NEW target \in Targets, OpenPatch(m, k, target)
      PROVE  AlertsTypeOK'
  <2>1. alert[k] \in Row
      BY <1>2, Rows DEF OpenPatch, AlertsInv
  <2> QED BY <1>2, <2>1 DEF OpenPatch, rows, AlertsInv, AlertsTypeOK
<1> QED BY <1>1, <1>2 DEF Patch

\* A row that a manager's update changes is the row the manager was shown and the row
\* that was loaded for it, the move is one of ALLOWED_TRANSITIONS, and it is audited.
LEMMA UpdateMoves ==
    ASSUME AlertsInv, NEW m \in Manager, UpdateAlert(m), alert' # alert
    PROVE  \E k \in Alert :
              /\ alert[k] \in Row
              /\ patching[m].target \in ALLOWED_TRANSITIONS[alert[k].state] \cap AlertState
              /\ alert' = [alert EXCEPT ![k] = [alert[k] EXCEPT
                             !.state = patching[m].target, !.version = alert[k].version + 1]]
              /\ audited' = [alert |-> k, prior |-> alert[k].state,
                             new |-> patching[m].target, version |-> alert[k].version + 1]
<1>1. patching[m] # NoPatch /\ patching[m].at = "update"
    BY DEF UpdateAlert, NoPatch
<1>2. patching[m].alert \in Alert /\ patching[m].target \in Targets
    BY <1>1, Patches DEF AlertsInv
<1> DEFINE k == patching[m].alert
<1>3. /\ alert[k].version = patching[m].shown.version
      /\ alert' = [alert EXCEPT ![k].state = patching[m].target, ![k].version = @ + 1]
      /\ audited' = Transition(patching[m])
    BY DEF UpdateAlert
<1>4. alert[k] = patching[m].shown /\ alert[k] \in Row
    BY <1>1, <1>3, Patches DEF AlertsInv, ETagIdentifiesAlert
<1>5. /\ patching[m].target \in ALLOWED_TRANSITIONS[alert[k].state] \cap AlertState
      /\ patching[m].read = alert[k].state
    BY <1>1, <1>2, <1>4 DEF AlertsInv, PatchesAreOfRows, Targets, AlertState
<1>6. alert' = [alert EXCEPT ![k] = [alert[k] EXCEPT
                   !.state = patching[m].target, !.version = alert[k].version + 1]]
    BY <1>2, <1>3 DEF AlertsInv, AlertsTypeOK
<1>7. audited' = [alert |-> k, prior |-> alert[k].state, new |-> patching[m].target,
                  version |-> alert[k].version + 1]
    BY <1>3, <1>4, <1>5 DEF Transition
<1> QED BY <1>2, <1>4, <1>5, <1>6, <1>7

LEMMA UpdatePreserves ==
    ASSUME AlertsInv, NEW m \in Manager, UpdateAlert(m)
    PROVE  AlertsInv'
<1>1. AlertsTypeOK'
    BY PatchTypes DEF Patch
<1>2. \A k \in Alert : /\ Moves(k) /\ (Exists(k)' = Exists(k))
                       /\ alert'[k].severity = alert[k].severity
                       /\ alert'[k].fingerprint = alert[k].fingerprint
  <2>1. CASE alert' = alert
      BY <2>1 DEF Moves, Exists
  <2>2. CASE alert' # alert
    <3>1. PICK k \in Alert :
              /\ alert[k] \in Row
              /\ patching[m].target \in AlertState
              /\ alert' = [alert EXCEPT ![k] = [alert[k] EXCEPT
                             !.state = patching[m].target, !.version = alert[k].version + 1]]
        BY <2>2, UpdateMoves
    <3>2. alert'[k] = [alert[k] EXCEPT !.state = patching[m].target,
                                       !.version = alert[k].version + 1]
        BY <3>1 DEF AlertsInv, AlertsTypeOK
    <3>3. /\ alert'[k] \in Row /\ alert'[k].version > alert[k].version
          /\ alert'[k].severity = alert[k].severity
          /\ alert'[k].fingerprint = alert[k].fingerprint
      <4> DEFINE a == alert[k]
                 target == patching[m].target
                 b == alert'[k]
      <4>1. a \in Row /\ target \in AlertState
          BY <3>1
      <4>2. b = [a EXCEPT !.state = target, !.version = a.version + 1]
          BY <3>2
      <4> HIDE DEF a, b, target
      <4>3. b \in Row /\ b.version > a.version /\ b.severity = a.severity
            /\ b.fingerprint = a.fingerprint
          BY <4>1, <4>2, RowMoved
      <4> QED BY <4>3 DEF a, b
    <3>4. alert[k].state # Absent /\ alert'[k].state # Absent
        BY <3>1, <3>3, AbsentIsNoState DEF Row
    <3>5. \A j \in Alert : j # k => alert'[j] = alert[j]
        BY <3>1 DEF AlertsInv, AlertsTypeOK
    <3> QED BY <3>3, <3>4, <3>5 DEF Moves, Exists
  <2> QED BY <2>1, <2>2
<1>3. EventsAreOfVersions' /\ RecurrenceIsRecorded' /\ EscalationIsAnnounced'
    BY <1>1, <1>2, StateStep DEF UpdateAlert
<1>4. ETagIdentifiesAlert' /\ PatchesAreOfRows'
  <2> SUFFICES ASSUME NEW n \in Manager, patching'[n] # NoPatch
               PROVE  LET patch == patching[n] IN
                      /\ patching'[n] = patch
                      /\ alert'[patch.alert].version = patch.shown.version
                           => alert'[patch.alert] = patch.shown
                      /\ patch.shown.version <= alert'[patch.alert].version
                      /\ patch.at = "update" =>
                           /\ patch.read = patch.shown.state
                           /\ patch.target \in ALLOWED_TRANSITIONS[patch.shown.state]
      BY DEF ETagIdentifiesAlert, PatchesAreOfRows
  <2>1. patching'[n] = patching[n]
      BY DEF UpdateAlert, AlertsInv, AlertsTypeOK
  <2>2. patching[n].alert \in Alert /\ patching[n].shown \in Row
      BY <2>1, Patches DEF AlertsInv
  <2> DEFINE k == patching[n].alert
             shown == patching[n].shown
  <2>3. /\ alert[k].version = shown.version => alert[k] = shown
        /\ shown.version <= alert[k].version
        /\ patching[n].at = "update" =>
             /\ patching[n].read = shown.state
             /\ patching[n].target \in ALLOWED_TRANSITIONS[shown.state]
      BY <2>1 DEF AlertsInv, ETagIdentifiesAlert, PatchesAreOfRows
  <2>4. shown.version \in Nat /\ alert[k].version \in Nat /\ alert'[k].version \in Nat
      BY <1>1, <2>2, Versions DEF Row, AlertsInv
  <2>5. Moves(k)
      BY <1>2, <2>2
  <2> HIDE DEF k, shown
  <2>6. /\ alert'[k].version = shown.version => alert'[k] = shown
        /\ shown.version <= alert'[k].version
      BY <2>3, <2>4, <2>5 DEF Moves
  <2> QED BY <2>1, <2>3, <2>6 DEF k, shown
<1> QED BY <1>1, <1>3, <1>4 DEF AlertsInv

\* Opening a request and loading the alert for it change the request only.
LEMMA RequestPreserves ==
    ASSUME AlertsInv, NEW m \in Manager,
           LoadAlert(m) \/ \E k \in Alert, target \in Targets : OpenPatch(m, k, target)
    PROVE  AlertsInv'
<1>1. AlertsTypeOK'
    BY PatchTypes DEF Patch
<1>2. UNCHANGED rows
    BY DEF LoadAlert, OpenPatch
<1>3. EventsAreOfVersions' /\ RecurrenceIsRecorded' /\ EscalationIsAnnounced'
    BY <1>1, <1>2, StateStep DEF rows, Moves, Exists
<1>4. \A n \in Manager : n # m => patching'[n] = patching[n]
    BY DEF LoadAlert, OpenPatch, AlertsInv, AlertsTypeOK
<1>5. patching'[m] # NoPatch =>
        LET patch == patching'[m] IN
        /\ alert[patch.alert].version = patch.shown.version => alert[patch.alert] = patch.shown
        /\ patch.shown.version <= alert[patch.alert].version
        /\ patch.at = "update" =>
              /\ patch.read = patch.shown.state
              /\ patch.target \in ALLOWED_TRANSITIONS[patch.shown.state]
  <2>1. ASSUME NEW k \in Alert, NEW target \in Targets, OpenPatch(m, k, target)
        PROVE  /\ patching'[m].alert = k /\ patching'[m].shown = alert[k]
               /\ patching'[m].at = "load"
      BY <2>1 DEF OpenPatch, AlertsInv, AlertsTypeOK
  <2>2. \A k \in Alert : alert[k].version <= alert[k].version
      BY Rows DEF AlertsInv
  <2>3. CASE \E k \in Alert, target \in Targets : OpenPatch(m, k, target)
      BY <2>1, <2>2, <2>3
  <2>4. CASE LoadAlert(m) /\ patching'[m] # NoPatch
    <3>1. patching[m] # NoPatch
        BY <2>4 DEF LoadAlert, NoPatch
    <3>2. patching[m].alert \in Alert /\ patching[m] \in PatchRow
        BY <3>1, Patches DEF AlertsInv
    <3>3. /\ patching'[m] = [patching[m] EXCEPT !.at = "update",
                                               !.read = alert[patching[m].alert].state]
          /\ alert[patching[m].alert].version = patching[m].shown.version
          /\ patching[m].target \in ALLOWED_TRANSITIONS[alert[patching[m].alert].state]
        BY <2>4 DEF LoadAlert, AlertsInv, AlertsTypeOK
    <3>4. /\ patching'[m].alert = patching[m].alert /\ patching'[m].shown = patching[m].shown
          /\ patching'[m].target = patching[m].target
          /\ patching'[m].read = alert[patching[m].alert].state
        BY <3>2, <3>3 DEF PatchRow
    <3>5. alert[patching[m].alert] = patching[m].shown
        BY <3>1, <3>3 DEF AlertsInv, ETagIdentifiesAlert
    <3>6. patching[m].shown.version <= alert[patching[m].alert].version
        BY <3>1 DEF AlertsInv, PatchesAreOfRows
    <3> QED BY <3>3, <3>4, <3>5, <3>6
  <2> QED BY <2>3, <2>4
<1>6. ETagIdentifiesAlert' /\ PatchesAreOfRows'
    BY <1>2, <1>4, <1>5 DEF rows, AlertsInv, ETagIdentifiesAlert, PatchesAreOfRows
<1> QED BY <1>1, <1>3, <1>6 DEF AlertsInv

----------------------------------------------------------------------------
(* A result that calls for an alert.                                         *)

\* What record_risk stores for new evidence.
StoresNewRow(k, ev, row) ==
    /\ row \in Row /\ row.version > alert[k].version
    /\ row.severity = ev.level /\ row.fingerprint = ev.fingerprint
    /\ ~(Exists(k) /\ Unchanged(alert[k], ev))
    /\ StoreOccurrence(k, row)
    /\ latest' = [latest EXCEPT ![k] = ev]

\* A row that shows new evidence.
LEMMA RowChanged ==
    ASSUME NEW a \in Row, NEW ev \in Evidence, create_inbox_alert(ev.level), NEW b,
           b = Changed(a, ev)
    PROVE  /\ b \in Row /\ b.version > a.version
           /\ b.severity = ev.level /\ b.fingerprint = ev.fingerprint
<1>1. /\ b.version = a.version + 1 /\ b.severity = ev.level
      /\ b.fingerprint = ev.fingerprint
    BY DEF Row, Changed
<1>2. a.version + 1 \in Nat \ {0} /\ a.version + 1 > a.version
    BY DEF Row
<1>3. ev.level \in {MEDIUM, HIGH, CRITICAL} /\ ev.fingerprint \in Fingerprint
    BY EvidenceTypes DEF create_inbox_alert
<1>4. b.state \in AlertState
    BY DEF Row, Changed, AlertState
<1>5. b \in Row
    BY <1>1, <1>2, <1>3, <1>4 DEF Row, Changed
<1> QED BY <1>1, <1>2, <1>5

LEMMA ResultStoresRow ==
    ASSUME AlertsInv, NEW k \in Alert, NEW ev \in Evidence, create_inbox_alert(ev.level),
           record_risk(k, ev)
    PROVE  \/ \E row : StoresNewRow(k, ev, row)
           \/ /\ UNCHANGED <<alert, since, occurrences, outbox>>
              /\ Exists(k) /\ Unchanged(alert[k], ev)
              /\ latest' = [latest EXCEPT ![k] = ev]
<1>1. CASE ~Exists(k) /\ StoreOccurrence(k, Created(ev))
  <2>1. alert[k] = NoAlert
      BY <1>1, Rows DEF AlertsInv
  <2>2. Created(ev) \in Row
      BY EvidenceTypes DEF Created, Row, AlertState, create_inbox_alert
  <2>3. /\ Created(ev).version > alert[k].version
        /\ Created(ev).severity = ev.level /\ Created(ev).fingerprint = ev.fingerprint
      BY <2>1 DEF Created, NoAlert
  <2> QED BY <1>1, <2>2, <2>3 DEF StoresNewRow, record_risk
<1>2. CASE /\ Exists(k) /\ ~Unchanged(alert[k], ev)
           /\ StoreOccurrence(k, Changed(alert[k], ev))
  <2> DEFINE row == Changed(alert[k], ev)
  <2>1. alert[k] \in Row
      BY <1>2, Rows DEF AlertsInv
  <2>2. /\ row \in Row /\ row.version > alert[k].version
        /\ row.severity = ev.level /\ row.fingerprint = ev.fingerprint
    <3> HIDE DEF row
    <3> QED BY <2>1, RowChanged DEF row
  <2> HIDE DEF row
  <2> QED BY <1>2, <2>2 DEF StoresNewRow, record_risk, row
<1> QED BY <1>1, <1>2 DEF record_risk

\* The content of an alert's last occurrence is what the alert shows.
LEMMA LastOccurrence ==
    ASSUME AlertsInv, NEW k \in Alert
    PROVE  /\ occurrences[k] \in Seq(Occurrence) /\ Len(occurrences[k]) \in Nat
           /\ ~Exists(k) => Len(occurrences[k]) = 0 /\ alert[k].severity = NoLevel
           /\ Exists(k) => /\ Len(occurrences[k]) > 0
                           /\ occurrences[k][Len(occurrences[k])].severity = alert[k].severity
                           /\ occurrences[k][Len(occurrences[k])].fingerprint
                                = alert[k].fingerprint
<1>1. occurrences[k] \in Seq(Occurrence) /\ Len(occurrences[k]) \in Nat
    BY DEF AlertsInv, AlertsTypeOK
<1>2. ~Exists(k) => Len(occurrences[k]) = 0 /\ alert[k].severity = NoLevel
  <2>1. ~Exists(k) => occurrences[k] = <<>>
      BY DEF AlertsInv, RecurrenceIsRecorded, Exists
  <2>2. ~Exists(k) => alert[k].severity = NoLevel
      BY Rows DEF AlertsInv, NoAlert
  <2> QED BY <1>1, <2>1, <2>2
<1>3. Exists(k) => occurrences[k] # <<>>
    BY DEF AlertsInv, RecurrenceIsRecorded
<1>4. Exists(k) =>
        /\ [level |-> occurrences[k][Len(occurrences[k])].severity,
            fingerprint |-> occurrences[k][Len(occurrences[k])].fingerprint] = latest[k]
        /\ alert[k].severity = latest[k].level /\ alert[k].fingerprint = latest[k].fingerprint
    BY DEF AlertsInv, RecurrenceIsRecorded
<1> QED BY <1>1, <1>2, <1>3, <1>4

\* The occurrences and events after a row is stored.
LEMMA StoredRecords ==
    ASSUME AlertsInv, NEW k \in Alert, NEW ev \in Evidence, NEW row,
           StoresNewRow(k, ev, row), create_inbox_alert(ev.level)
    PROVE  LET occ == [severity |-> row.severity, fingerprint |-> row.fingerprint,
                       version |-> row.version]
               n == Len(occurrences[k])
           IN  /\ occ \in Occurrence
               /\ occurrences' = [occurrences EXCEPT ![k] = Append(occurrences[k], occ)]
               /\ Len(occurrences'[k]) = n + 1 /\ occurrences'[k][n + 1] = occ
               /\ \A i \in 1..n : occurrences'[k][i] = occurrences[k][i]
               /\ \A j \in Alert : j # k => occurrences'[j] = occurrences[j]
               /\ alert'[k] = row /\ \A j \in Alert : j # k => alert'[j] = alert[j]
               /\ latest'[k] = ev /\ \A j \in Alert : j # k => latest'[j] = latest[j]
<1> DEFINE occ == [severity |-> row.severity, fingerprint |-> row.fingerprint,
                   version |-> row.version]
<1>1. occ \in Occurrence
    BY DEF StoresNewRow, Row, Occurrence
<1>2. /\ occurrences' = [occurrences EXCEPT ![k] = Append(occurrences[k], occ)]
      /\ alert' = [alert EXCEPT ![k] = row]
      /\ latest' = [latest EXCEPT ![k] = ev]
    BY DEF StoresNewRow, StoreOccurrence
<1>3. occurrences[k] \in Seq(Occurrence)
    BY LastOccurrence
<1> HIDE DEF occ
<1>4. occurrences'[k] = Append(occurrences[k], occ)
    BY <1>2 DEF AlertsInv, AlertsTypeOK
<1>5. /\ Len(occurrences'[k]) = Len(occurrences[k]) + 1
      /\ occurrences'[k][Len(occurrences[k]) + 1] = occ
      /\ \A i \in 1..Len(occurrences[k]) : occurrences'[k][i] = occurrences[k][i]
    BY <1>1, <1>3, <1>4
<1>6. /\ \A j \in Alert : j # k => occurrences'[j] = occurrences[j]
      /\ alert'[k] = row /\ \A j \in Alert : j # k => alert'[j] = alert[j]
      /\ latest'[k] = ev /\ \A j \in Alert : j # k => latest'[j] = latest[j]
    BY <1>2 DEF AlertsInv, AlertsTypeOK
<1> QED BY <1>1, <1>2, <1>5, <1>6 DEF occ

\* The event of a stored row, when it is an escalation.
LEMMA StoredEvents ==
    ASSUME AlertsInv, NEW k \in Alert, NEW ev \in Evidence, NEW row,
           StoresNewRow(k, ev, row), create_inbox_alert(ev.level)
    PROVE  LET event == [alert |-> k, version |-> row.version, severity |-> row.severity]
           IN  /\ outbox' = outbox \/ (outbox' = outbox \cup {event} /\ send_email(row.severity))
               /\ send_email(row.severity) /\ Rank(row.severity) > Rank(alert[k].severity)
                    => event \in outbox'
               /\ since' \in [Alert -> 0..Cooldown]
<1> DEFINE event == [alert |-> k, version |-> row.version, severity |-> row.severity]
<1>1. ~\E o \in outbox : o.alert = k /\ o.version = row.version
  <2> SUFFICES ASSUME NEW o \in outbox, o.alert = k, o.version = row.version PROVE FALSE
      OBVIOUS
  <2>1. row.version <= alert[k].version
      BY DEF AlertsInv, EventsAreOfVersions
  <2>2. row.version \in Nat /\ alert[k].version \in Nat /\ row.version > alert[k].version
      BY Rows DEF StoresNewRow, Row, AlertsInv
  <2> QED BY <2>1, <2>2
<1>2. AppendOutbox(k, row) => outbox' = outbox \cup {event}
    BY <1>1 DEF AppendOutbox
<1>3. \/ UNCHANGED <<outbox, since>>
      \/ AppendOutbox(k, row) /\ send_email(row.severity) /\ since' = [since EXCEPT ![k] = 0]
    BY DEF StoresNewRow, StoreOccurrence, should_notify
<1>4. send_email(row.severity) /\ Rank(row.severity) > Rank(alert[k].severity)
        => AppendOutbox(k, row)
    BY DEF StoresNewRow, StoreOccurrence, should_notify
<1>5. since' \in [Alert -> 0..Cooldown]
  <2>1. 0 \in 0..Cooldown /\ since \in [Alert -> 0..Cooldown]
      BY AlertsAssumption DEF AlertsInv, AlertsTypeOK
  <2> QED BY <1>3, <2>1
<1> QED BY <1>2, <1>3, <1>4, <1>5

LEMMA StorePreserves ==
    ASSUME AlertsInv, NEW k \in Alert, NEW ev \in Evidence, NEW row,
           StoresNewRow(k, ev, row), create_inbox_alert(ev.level),
           UNCHANGED <<audited, patching, today>>
    PROVE  AlertsInv'
<1> DEFINE occ == [severity |-> row.severity, fingerprint |-> row.fingerprint,
                   version |-> row.version]
           event == [alert |-> k, version |-> row.version, severity |-> row.severity]
           n == Len(occurrences[k])
<1>1. /\ occ \in Occurrence
      /\ occurrences' = [occurrences EXCEPT ![k] = Append(occurrences[k], occ)]
      /\ Len(occurrences'[k]) = n + 1 /\ occurrences'[k][n + 1] = occ
      /\ \A i \in 1..n : occurrences'[k][i] = occurrences[k][i]
      /\ \A j \in Alert : j # k => occurrences'[j] = occurrences[j]
      /\ alert'[k] = row /\ \A j \in Alert : j # k => alert'[j] = alert[j]
      /\ latest'[k] = ev /\ \A j \in Alert : j # k => latest'[j] = latest[j]
    BY StoredRecords
<1>2. /\ outbox' = outbox \/ (outbox' = outbox \cup {event} /\ send_email(row.severity))
      /\ send_email(row.severity) /\ Rank(row.severity) > Rank(alert[k].severity)
           => event \in outbox'
      /\ since' \in [Alert -> 0..Cooldown]
    BY StoredEvents
<1>3. /\ row \in Row /\ row.version > alert[k].version
      /\ row.severity = ev.level /\ row.fingerprint = ev.fingerprint
      /\ ~(Exists(k) /\ Unchanged(alert[k], ev))
    BY DEF StoresNewRow
<1>4. /\ occurrences[k] \in Seq(Occurrence) /\ n \in Nat
      /\ ~Exists(k) => n = 0 /\ alert[k].severity = NoLevel
      /\ Exists(k) => /\ n > 0
                      /\ occurrences[k][n].severity = alert[k].severity
                      /\ occurrences[k][n].fingerprint = alert[k].fingerprint
    BY LastOccurrence
<1>5. AlertsTypeOK'
  <2>1. alert' \in [Alert -> Row \cup {NoAlert}]
      BY <1>3 DEF StoresNewRow, StoreOccurrence, AlertsInv, AlertsTypeOK
  <2>2. occurrences' \in [Alert -> Seq(Occurrence)]
    <3>1. Append(occurrences[k], occ) \in Seq(Occurrence)
        BY <1>1, <1>4
    <3> QED BY <1>1, <3>1 DEF AlertsInv, AlertsTypeOK
  <2>3. outbox' \subseteq [alert : Alert, version : Nat \ {0}, severity : {HIGH, CRITICAL}]
    <3>1. send_email(row.severity) =>
            event \in [alert : Alert, version : Nat \ {0}, severity : {HIGH, CRITICAL}]
        BY <1>3 DEF Row, send_email
    <3> QED BY <1>2, <3>1 DEF AlertsInv, AlertsTypeOK
  <2>4. latest' \in [Alert -> Evidence \cup {[level |-> NoLevel, fingerprint |-> NoLevel]}]
      BY DEF StoresNewRow, AlertsInv, AlertsTypeOK
  <2> QED BY <1>2, <2>1, <2>2, <2>3, <2>4 DEF AlertsInv, AlertsTypeOK
<1>6. \A j \in Alert : Moves(j)
    BY <1>1, <1>3 DEF Moves
<1>7. ETagIdentifiesAlert' /\ PatchesAreOfRows'
    BY <1>5, <1>6, PatchesStay
<1>8. EventsAreOfVersions'
  <2> SUFFICES ASSUME NEW o \in outbox' PROVE o.version <= alert'[o.alert].version
      BY DEF EventsAreOfVersions
  <2>1. CASE o \in outbox
    <3>1. o.alert \in Alert /\ o.version \in Nat
        BY <2>1 DEF AlertsInv, AlertsTypeOK
    <3>2. alert[o.alert].version \in Nat /\ alert'[o.alert].version \in Nat
        BY <1>5, <3>1, Versions DEF AlertsInv
    <3>3. o.version <= alert[o.alert].version /\ Moves(o.alert)
        BY <1>6, <2>1, <3>1 DEF AlertsInv, EventsAreOfVersions
    <3> QED BY <3>1, <3>2, <3>3 DEF Moves
  <2>2. CASE o = event
      BY <1>1, <1>3, <2>2 DEF Row
  <2> QED BY <1>2, <2>1, <2>2
<1>9. RecurrenceIsRecorded'
  <2> DEFINE content(o) == [level |-> o.severity, fingerprint |-> o.fingerprint]
  <2>1. ASSUME NEW j \in Alert, j # k
        PROVE  /\ Exists(j)' = Exists(j) /\ occurrences'[j] = occurrences[j]
               /\ latest'[j] = latest[j] /\ alert'[j] = alert[j]
      BY <1>1, <2>1 DEF Exists
  <2>2. /\ Exists(k)' /\ occurrences'[k] # <<>>
        /\ alert'[k].severity = ev.level /\ alert'[k].fingerprint = ev.fingerprint
        /\ content(occurrences'[k][n + 1]) = ev
    <3>1. row.state # Absent
        BY <1>3, AbsentIsNoState DEF Row
    <3>2. occurrences'[k] # <<>>
        BY <1>1, <1>4
    <3>3. content(occ) = ev
        BY <1>3, EvidenceTypes
    <3> QED BY <1>1, <1>3, <3>1, <3>2, <3>3 DEF Exists
  <2>3. \A i \in 2..(n + 1) : content(occurrences'[k][i]) # content(occurrences'[k][i - 1])
    <3> TAKE i \in 2..(n + 1)
    <3>1. CASE i = n + 1
      <4>1. Exists(k) /\ ~Unchanged(alert[k], ev) /\ occurrences'[k][i - 1] = occurrences[k][n]
          BY <1>1, <1>3, <1>4, <3>1
      <4>2. /\ occurrences'[k][i].severity = ev.level
            /\ occurrences'[k][i].fingerprint = ev.fingerprint
          BY <1>1, <1>3, <3>1
      <4> QED BY <1>4, <4>1, <4>2 DEF Unchanged
    <3>2. CASE i # n + 1
      <4>1. i \in 2..n /\ i - 1 \in 1..n /\ i \in 1..n
          BY <1>4, <3>2
      <4>2. content(occurrences[k][i]) # content(occurrences[k][i - 1])
          BY <4>1 DEF AlertsInv, RecurrenceIsRecorded
      <4> QED BY <1>1, <4>1, <4>2
    <3> QED BY <3>1, <3>2
  <2>4. ASSUME NEW j \in Alert
        PROVE  /\ Exists(j)' = (occurrences'[j] # <<>>)
               /\ Exists(j)' => /\ content(occurrences'[j][Len(occurrences'[j])]) = latest'[j]
                                /\ alert'[j].severity = latest'[j].level
                                /\ alert'[j].fingerprint = latest'[j].fingerprint
               /\ \A i \in 2..Len(occurrences'[j]) :
                     content(occurrences'[j][i]) # content(occurrences'[j][i - 1])
    <3>1. CASE j = k
      <4>1. Exists(j)' /\ occurrences'[j] # <<>> /\ latest'[j] = ev
          BY <1>1, <2>2, <3>1
      <4>2. content(occurrences'[j][Len(occurrences'[j])]) = ev
          BY <1>1, <2>2, <3>1
      <4>3. \A i \in 2..Len(occurrences'[j]) :
               content(occurrences'[j][i]) # content(occurrences'[j][i - 1])
          BY <1>1, <2>3, <3>1
      <4> HIDE DEF content
      <4> QED BY <2>2, <3>1, <4>1, <4>2, <4>3
    <3>2. CASE j # k
      <4>1. /\ Exists(j) = (occurrences[j] # <<>>)
            /\ Exists(j) => /\ content(occurrences[j][Len(occurrences[j])]) = latest[j]
                            /\ alert[j].severity = latest[j].level
                            /\ alert[j].fingerprint = latest[j].fingerprint
            /\ \A i \in 2..Len(occurrences[j]) :
                  content(occurrences[j][i]) # content(occurrences[j][i - 1])
          BY DEF AlertsInv, RecurrenceIsRecorded
      <4> HIDE DEF content
      <4> QED BY <2>1, <3>2, <4>1
    <3> QED BY <3>1, <3>2
  <2> QED BY <2>4 DEF RecurrenceIsRecorded
<1>10. EscalationIsAnnounced'
  <2> SUFFICES ASSUME NEW j \in Alert, NEW i \in 1..Len(occurrences'[j]),
                      send_email(occurrences'[j][i].severity),
                      i = 1 \/ Rank(occurrences'[j][i].severity)
                                 > Rank(occurrences'[j][i - 1].severity)
               PROVE  [alert |-> j, version |-> occurrences'[j][i].version,
                       severity |-> occurrences'[j][i].severity] \in outbox'
      BY DEF EscalationIsAnnounced
  <2>1. CASE j # k \/ i # n + 1
    <3>1. /\ i \in 1..Len(occurrences[j]) /\ occurrences'[j][i] = occurrences[j][i]
          /\ i # 1 => occurrences'[j][i - 1] = occurrences[j][i - 1]
      <4>1. CASE j # k
          BY <1>1, <4>1
      <4>2. CASE j = k
        <5>1. i \in 1..n /\ (i # 1 => i - 1 \in 1..n)
            BY <1>1, <1>4, <2>1, <4>2
        <5> QED BY <1>1, <4>2, <5>1
      <4> QED BY <4>1, <4>2
    <3>2. [alert |-> j, version |-> occurrences[j][i].version,
           severity |-> occurrences[j][i].severity] \in outbox
        BY <3>1 DEF AlertsInv, EscalationIsAnnounced
    <3> QED BY <1>2, <3>1, <3>2
  <2>2. CASE j = k /\ i = n + 1
    <3>1. occurrences'[j][i] = occ /\ send_email(row.severity)
        BY <1>1, <2>2
    <3>2. Rank(row.severity) > Rank(alert[k].severity)
      <4>1. CASE ~Exists(k)
          BY <1>3, <1>4, <4>1, Levels DEF Row
      <4>2. CASE Exists(k)
        <5>1. i # 1 /\ occurrences'[j][i - 1] = occurrences[k][n]
            BY <1>1, <1>4, <2>2, <4>2
        <5> QED BY <1>4, <3>1, <4>2, <5>1
      <4> QED BY <4>1, <4>2
    <3> QED BY <1>2, <2>2, <3>1, <3>2
  <2> QED BY <2>1, <2>2
<1> QED BY <1>5, <1>7, <1>8, <1>9, <1>10 DEF AlertsInv

\* A result that repeats what the alert shows.
LEMMA RepeatPreserves ==
    ASSUME AlertsInv, NEW k \in Alert, NEW ev \in Evidence,
           UNCHANGED <<alert, since, occurrences, outbox, audited, patching, today>>,
           Exists(k), Unchanged(alert[k], ev), latest' = [latest EXCEPT ![k] = ev]
    PROVE  AlertsInv'
<1>1. AlertsTypeOK'
    BY DEF AlertsInv, AlertsTypeOK
<1>2. latest' = latest
  <2>1. latest[k] = ev
    <3>1. /\ alert[k].severity = latest[k].level
          /\ alert[k].fingerprint = latest[k].fingerprint
        BY DEF AlertsInv, RecurrenceIsRecorded
    <3>2. latest[k] = [level |-> latest[k].level, fingerprint |-> latest[k].fingerprint]
        BY EvidenceTypes DEF AlertsInv, AlertsTypeOK
    <3> QED BY <3>1, <3>2, EvidenceTypes DEF Unchanged
  <2> QED BY <2>1 DEF AlertsInv, AlertsTypeOK
<1> QED BY <1>1, <1>2 DEF AlertsInv, ETagIdentifiesAlert, PatchesAreOfRows,
       EventsAreOfVersions, RecurrenceIsRecorded, EscalationIsAnnounced, Exists

LEMMA ResultPreserves ==
    ASSUME AlertsInv, NEW e \in Employee, NEW ev \in Evidence,
           PersistResult(e, today, ev), UNCHANGED <<audited, patching, today>>
    PROVE  AlertsInv'
<1>1. CASE UNCHANGED rows
    BY <1>1 DEF rows, AlertsInv, AlertsTypeOK, ETagIdentifiesAlert, PatchesAreOfRows,
       EventsAreOfVersions, RecurrenceIsRecorded, EscalationIsAnnounced, Exists
<1>2. CASE resolve_active_risk(e)
    BY <1>2, ResolvePreserves
<1>3. CASE create_inbox_alert(ev.level) /\ record_risk(<<e, today>>, ev)
  <2> DEFINE k == <<e, today>>
  <2>1. k \in Alert
      BY DEF Alert, AlertsInv, AlertsTypeOK
  <2> HIDE DEF k
  <2>2. create_inbox_alert(ev.level) /\ record_risk(k, ev)
      BY <1>3 DEF k
  <2> QED BY <2>1, <2>2, ResultStoresRow, StorePreserves, RepeatPreserves
<1> QED BY <1>1, <1>2, <1>3 DEF PersistResult

LEMMA TickPreserves ==
    ASSUME AlertsInv, Tick
    PROVE  AlertsInv'
<1>1. AlertsTypeOK'
  <2>1. since' \in [Alert -> 0..Cooldown]
      BY AlertsAssumption DEF Tick, AlertsInv, AlertsTypeOK
  <2> QED BY <2>1 DEF Tick, AlertsInv, AlertsTypeOK
<1> QED BY <1>1 DEF Tick, AlertsInv, ETagIdentifiesAlert, PatchesAreOfRows,
       EventsAreOfVersions, RecurrenceIsRecorded, EscalationIsAnnounced, Exists

----------------------------------------------------------------------------

LEMMA AlertsStep == AlertsInv /\ [ANext]_avars => AlertsInv'
<1> SUFFICES ASSUME AlertsInv, [ANext]_avars PROVE AlertsInv'
    OBVIOUS
<1>1. ASSUME NEW e \in Employee, NEW ev \in Evidence,
             PersistResult(e, today, ev), UNCHANGED <<audited, patching, today>>
      PROVE  AlertsInv'
    BY <1>1, ResultPreserves
<1>2. ASSUME NEW m \in Manager, Patch(m) PROVE AlertsInv'
    BY <1>2, UpdatePreserves, RequestPreserves DEF Patch
<1>3. CASE Tick
    BY <1>3, TickPreserves
<1>4. CASE UNCHANGED avars
    BY <1>4 DEF avars, rows, AlertsInv, AlertsTypeOK, ETagIdentifiesAlert, PatchesAreOfRows,
       EventsAreOfVersions, RecurrenceIsRecorded, EscalationIsAnnounced, Exists
<1> QED BY <1>1, <1>2, <1>3, <1>4 DEF ANext

\* Scans and managers that overlap keep the invariant.
THEOREM AlertsInvariant == ASpec => []AlertsInv
BY AInitInv, AlertsStep, PTL DEF ASpec

\* Every variable keeps its type.
THEOREM AlertsTypeCorrect == ASpec => []AlertsTypeOK
<1>1. AlertsInv => AlertsTypeOK
    BY DEF AlertsInv
<1> QED BY <1>1, AlertsInvariant, PTL

\* An alert that has the version a manager was shown is the one the manager was shown.
THEOREM ETagsIdentifyAlerts == ASpec => []ETagIdentifiesAlert
<1>1. AlertsInv => ETagIdentifiesAlert
    BY DEF AlertsInv
<1> QED BY <1>1, AlertsInvariant, PTL

\* An alert shows its last occurrence, which is the last result that called for it.
THEOREM RecurrencesAreRecorded == ASpec => []RecurrenceIsRecorded
<1>1. AlertsInv => RecurrenceIsRecorded
    BY DEF AlertsInv
<1> QED BY <1>1, AlertsInvariant, PTL

\* Every escalation to high or critical has an outbox event of its own.
THEOREM EscalationsAreAnnounced == ASpec => []EscalationIsAnnounced
<1>1. AlertsInv => EscalationIsAnnounced
    BY DEF AlertsInv
<1> QED BY <1>1, AlertsInvariant, PTL

\* Whoever moves an alert moves it along ALLOWED_TRANSITIONS: what a manager's update
\* writes was allowed for the row the manager was shown, which is the row it changes; and
\* the audit event of the transaction tells that row's state and the version it got.
THEOREM TransitionsAreAlwaysLegal == ASpec => TransitionsAreLegal
<1> DEFINE Audited(k) == alert'[k].state \in {ACKNOWLEDGED, DISMISSED} =>
                 audited' = [alert |-> k, prior |-> alert[k].state,
                             new |-> alert'[k].state, version |-> alert'[k].version]
           MoveOK(k) == /\ alert'[k].state \in ALLOWED_TRANSITIONS[alert[k].state]
                        /\ Audited(k)
           Legal == \A k \in Alert :
              Exists(k) /\ alert'[k].state # alert[k].state => MoveOK(k)
<1>1. AlertsInv /\ [ANext]_avars => [Legal]_avars
  <2> SUFFICES ASSUME AlertsInv, ANext, NEW k \in Alert,
                      Exists(k), alert'[k].state # alert[k].state
               PROVE  MoveOK(k)
      OBVIOUS
  <2>1. alert[k] \in Row
      BY Rows DEF AlertsInv
  <2>2. ASSUME NEW e \in Employee, NEW ev \in Evidence, PersistResult(e, today, ev)
        PROVE  MoveOK(k)
    <3>1. CASE resolve_active_risk(e)
      <4>1. alert[k].state \in Active /\ alert'[k] = [alert[k] EXCEPT !.state = RESOLVED,
                                                    !.version = alert[k].version + 1]
          BY <3>1 DEF resolve_active_risk, Resolved
      <4>2. alert'[k].state = RESOLVED
          BY <2>1, <4>1 DEF Row
      <4> QED BY <4>1, <4>2 DEF ALLOWED_TRANSITIONS, Active, AlertState, UNSEEN, ACKNOWLEDGED,
                 INVESTIGATING, RESOLVED, DISMISSED
    <3>2. CASE \E j \in Alert : record_risk(j, ev)
      <4>1. PICK j \in Alert : record_risk(j, ev)
          BY <3>2
      <4>2. Exists(j) => alert' = alert \/ alert' = [alert EXCEPT ![j] = Changed(alert[j], ev)]
          BY <4>1 DEF record_risk, StoreOccurrence
      <4>3. ~Exists(j) => j # k /\ alert'[k] = alert[k]
          BY <4>1 DEF record_risk, StoreOccurrence, AlertsInv, AlertsTypeOK
      <4>4. j = k /\ alert'[k] = Changed(alert[k], ev)
          BY <4>2, <4>3 DEF AlertsInv, AlertsTypeOK
      <4>5. alert[k].state \in {RESOLVED, DISMISSED} /\ alert'[k].state = UNSEEN
          BY <2>1, <4>4 DEF Changed, Row
      <4> QED BY <4>5 DEF ALLOWED_TRANSITIONS, AlertState, UNSEEN, ACKNOWLEDGED,
                 INVESTIGATING, RESOLVED, DISMISSED
    <3>3. today \in 1..MaxDay
        BY DEF AlertsInv, AlertsTypeOK
    <3> QED BY <2>2, <3>1, <3>2, <3>3 DEF PersistResult, rows, Alert
  <2>3. ASSUME NEW m \in Manager, UpdateAlert(m)
        PROVE  MoveOK(k)
    <3>1. PICK j \in Alert :
             /\ alert[j] \in Row
             /\ patching[m].target \in ALLOWED_TRANSITIONS[alert[j].state] \cap AlertState
             /\ alert' = [alert EXCEPT ![j] = [alert[j] EXCEPT
                            !.state = patching[m].target, !.version = alert[j].version + 1]]
             /\ audited' = [alert |-> j, prior |-> alert[j].state,
                            new |-> patching[m].target, version |-> alert[j].version + 1]
        BY <2>3, UpdateMoves
    <3>2. j = k
        BY <3>1 DEF AlertsInv, AlertsTypeOK
    <3>3. alert'[k] = [alert[k] EXCEPT !.state = patching[m].target,
                                       !.version = alert[k].version + 1]
        BY <3>1, <3>2 DEF AlertsInv, AlertsTypeOK
    <3>4. alert'[k].state = patching[m].target /\ alert'[k].version = alert[k].version + 1
        BY <2>1, <3>3 DEF Row
    <3> QED BY <3>1, <3>2, <3>4
  <2>4. ASSUME NEW m \in Manager, Patch(m)
        PROVE  MoveOK(k)
      BY <2>3, <2>4 DEF Patch, OpenPatch, LoadAlert, rows
  <2> QED BY <2>2, <2>4 DEF ANext, Tick
<1> QED BY <1>1, AlertsInvariant, PTL DEF ASpec, TransitionsAreLegal

----------------------------------------------------------------------------
(* Scan runs.                                                                *)

Places == {"insert", "start", "read", "persist", "complete", "fail"}

\* A request's process, while the run is its own.
Working(r) == scanning[r].at \in {"read", "persist", "complete", "fail"}

Scanning == [at : Places, window : Window, next : Nat, degraded : BOOLEAN,
             held : {<<>>} \cup ((1..MaxDay) \X Evidence)]

\* Every variable of a run has the type of its column, counter or process.
ScansTypeOK ==
    /\ run \in [Window -> {Absent, QUEUED, RUNNING} \cup Finished]
    /\ scanning \in [Request -> Scanning \cup {NoScan}]
    /\ passes \in [Window -> Nat]
    /\ covered \in [Window -> SUBSET Employee]
    /\ today \in 1..MaxDay

\* A request that works has a running run, and no other has it.
RunsAreHeld ==
    \A r \in Request : Working(r) =>
        /\ run[scanning[r].window] = RUNNING
        /\ \A q \in Request : Working(q) /\ scanning[q].window = scanning[r].window => q = r

\* Before its run is running a window has not been scanned.
QueuedIsUntouched ==
    \A w \in Window : run[w] \in {Absent, QUEUED} => passes[w] = 0 /\ w \notin partial

\* A run begins with the first employee.
StartsAreFresh ==
    \A r \in Request :
        scanning[r].at = "start" => scanning[r].next = 1 /\ ~scanning[r].degraded

\* What a request that works has done.
Done(r) ==
    LET scan == scanning[r]
    IN  /\ scan.next \in 1..(Len(employee_ids) + 1)
        /\ scan.at \in {"read", "persist"} => scan.next <= Len(employee_ids)
        /\ scan.at = "complete" => scan.next = Len(employee_ids) + 1
        /\ scan.degraded <=> scan.window \in partial
        /\ \A n \in 1..(scan.next - 1) : employee_ids[n] \in covered[scan.window]

ProgressIsCovered ==
    \A r \in Request : scanning[r].at \in {"read", "persist", "complete"} => Done(r)

\* The inductive invariant.
ScansInv == /\ ScansTypeOK /\ RunsAreHeld /\ QueuedIsUntouched
            /\ StartsAreFresh /\ ProgressIsCovered
            /\ WindowScannedOnce /\ CompletedIsCovered

----------------------------------------------------------------------------

LEMMA EmployeeIds ==
    /\ Len(employee_ids) \in Nat /\ Len(employee_ids) > 0
    /\ \A n \in 1..Len(employee_ids) : employee_ids[n] \in Employee
BY ScansAssumption

LEMMA States ==
    /\ Absent # QUEUED /\ Absent # RUNNING /\ QUEUED # RUNNING
    /\ {Absent, QUEUED, RUNNING} \cap Finished = {}
    /\ COMPLETED # COMPLETED_DEGRADED /\ COMPLETED # FAILED /\ COMPLETED_DEGRADED # FAILED
BY DEF Absent, QUEUED, RUNNING, Finished, COMPLETED, COMPLETED_DEGRADED, FAILED

\* A request that is somewhere scans a window.
LEMMA Scanner ==
    ASSUME ScansTypeOK, NEW r \in Request, scanning[r].at \in Places
    PROVE  scanning[r] \in Scanning
<1>1. scanning[r] # NoScan
    BY DEF NoScan, Places
<1> QED BY <1>1 DEF ScansTypeOK

LEMMA SInitInv == SInit => ScansInv
<1> SUFFICES ASSUME SInit PROVE ScansInv
    OBVIOUS
<1>1. \A r \in Request :
         ~Working(r) /\ scanning[r].at \notin {"start", "read", "persist", "complete"}
    BY DEF SInit, Working, NoScan
<1>2. ScansTypeOK
    BY AlertsAssumption DEF SInit, AInit, ScansTypeOK
<1>3. WindowScannedOnce /\ CompletedIsCovered /\ QueuedIsUntouched
  <2>1. \A w \in Window : run[w] = Absent /\ passes[w] = 0 /\ w \notin partial
      BY DEF SInit
  <2>2. Absent \notin {COMPLETED, COMPLETED_DEGRADED}
      BY DEF Absent, COMPLETED, COMPLETED_DEGRADED
  <2> QED BY <2>1, <2>2 DEF WindowScannedOnce, CompletedIsCovered, QueuedIsUntouched
<1> QED BY <1>1, <1>2, <1>3 DEF ScansInv, RunsAreHeld, ProgressIsCovered, StartsAreFresh

----------------------------------------------------------------------------
(* Steps that leave the runs alone.                                          *)

\* One request moves to a place where it does not work, or dies; nothing else changes.
LEMMA LeavePreserves ==
    ASSUME ScansInv, NEW r \in Request, NEW s \in Scanning \cup {NoScan},
           scanning' = [scanning EXCEPT ![r] = s],
           s.at \in {"idle", "insert"} \/ (s.at = "fail" /\ Working(r)
                                                     /\ s.window = scanning[r].window),
           today' \in 1..MaxDay, UNCHANGED <<run, passes, covered, partial>>
    PROVE  ScansInv'
<1> USE DEF ScansInv
<1>1. /\ scanning'[r] = s
      /\ \A q \in Request : q # r => scanning'[q] = scanning[q]
    BY DEF ScansTypeOK
<1>2. ScansTypeOK'
    BY DEF ScansTypeOK
<1>3. RunsAreHeld'
    BY <1>1 DEF RunsAreHeld, Working
<1>4. ProgressIsCovered' /\ StartsAreFresh'
    BY <1>1 DEF ProgressIsCovered, Done, StartsAreFresh
<1>5. QueuedIsUntouched' /\ WindowScannedOnce' /\ CompletedIsCovered'
    BY DEF QueuedIsUntouched, WindowScannedOnce, CompletedIsCovered
<1> QED BY <1>2, <1>3, <1>4, <1>5

LEMMA EnqueueLookupPreserves ==
    ASSUME ScansInv, NEW r \in Request, NEW w \in Window, EnqueueLookup(r, w)
    PROVE  ScansInv'
<1>1. Scan(w, "insert") \in Scanning /\ Scan(w, "insert").at = "insert"
    BY DEF Scan, Scanning, Places
<1>2. /\ scanning' = [scanning EXCEPT ![r] = Scan(w, "insert")]
      /\ today' \in 1..MaxDay /\ UNCHANGED <<run, passes, covered, partial>>
    BY DEF EnqueueLookup, avars, ScansInv, ScansTypeOK
<1> QED BY <1>1, <1>2, LeavePreserves

LEMMA RequestDiesPreserves ==
    ASSUME ScansInv, NEW r \in Request, RequestDies(r)
    PROVE  ScansInv'
<1>1. NoScan.at = "idle"
    BY DEF NoScan
<1>2. /\ scanning' = [scanning EXCEPT ![r] = NoScan]
      /\ today' \in 1..MaxDay /\ UNCHANGED <<run, passes, covered, partial>>
    BY DEF RequestDies, avars, ScansInv, ScansTypeOK
<1> QED BY <1>1, <1>2, LeavePreserves

LEMMA PipelineRaisesPreserves ==
    ASSUME ScansInv, NEW r \in Request, PipelineRaises(r)
    PROVE  ScansInv'
<1> DEFINE s == [scanning[r] EXCEPT !.at = "fail", !.held = <<>>]
<1>1. scanning[r] \in Scanning /\ Working(r)
    BY Scanner DEF PipelineRaises, Working, Places, ScansInv
<1>2. s \in Scanning /\ s.at = "fail" /\ s.window = scanning[r].window
    BY <1>1 DEF Scanning, Places
<1>3. /\ scanning' = [scanning EXCEPT ![r] = s]
      /\ today' \in 1..MaxDay /\ UNCHANGED <<run, passes, covered, partial>>
    BY DEF PipelineRaises, avars, ScansInv, ScansTypeOK
<1> HIDE DEF s
<1> QED BY <1>1, <1>2, <1>3, LeavePreserves

----------------------------------------------------------------------------
(* Steps that move a run.                                                    *)

LEMMA EnqueueInsertPreserves ==
    ASSUME ScansInv, NEW r \in Request, EnqueueInsert(r)
    PROVE  ScansInv'
<1> USE DEF ScansInv
<1> DEFINE w == scanning[r].window
<1>1. scanning[r] \in Scanning /\ w \in Window
    BY Scanner DEF EnqueueInsert, Places, Scanning
<1>2. Scan(w, "start") \in Scanning /\ Scan(w, "start").at = "start"
    BY <1>1 DEF Scan, Scanning, Places
<1>3. NoScan.at = "idle"
    BY DEF NoScan
<1>4. today' \in 1..MaxDay /\ UNCHANGED <<passes, covered, partial>>
    BY DEF EnqueueInsert, avars, ScansTypeOK
<1>5. CASE UNCHANGED run /\ scanning' = [scanning EXCEPT ![r] = NoScan]
    BY <1>3, <1>4, <1>5, LeavePreserves
<1>6. CASE /\ run[w] = Absent /\ run' = [run EXCEPT ![w] = QUEUED]
           /\ scanning' = [scanning EXCEPT ![r] = Scan(w, "start")]
  <2>1. run'[w] = QUEUED /\ \A v \in Window : v # w => run'[v] = run[v]
      BY <1>1, <1>6 DEF ScansTypeOK
  <2>2. /\ scanning'[r].at = "start"
        /\ \A q \in Request : q # r => scanning'[q] = scanning[q]
      BY <1>2, <1>6 DEF ScansTypeOK
  <2>3. ScansTypeOK'
      BY <1>1, <1>2, <1>4, <1>6 DEF ScansTypeOK
  <2>4. RunsAreHeld'
    <3>1. \A q \in Request : Working(q)' => q # r /\ Working(q) /\ scanning[q].window # w
        BY <1>6, <2>2, States DEF RunsAreHeld, Working
    <3>2. \A q \in Request : Working(q) => scanning[q].window \in Window
        BY Scanner DEF Working, Places, Scanning
    <3> QED BY <2>1, <2>2, <3>1, <3>2 DEF RunsAreHeld, Working
  <2>5. QueuedIsUntouched'
      BY <1>4, <1>6, <2>1 DEF QueuedIsUntouched
  <2>6. ProgressIsCovered' /\ StartsAreFresh'
    <3>1. Scan(w, "start").next = 1 /\ ~Scan(w, "start").degraded
        BY DEF Scan
    <3>2. scanning'[r] = Scan(w, "start")
        BY <1>2, <1>6 DEF ScansTypeOK
    <3> QED BY <1>4, <2>2, <3>1, <3>2 DEF ProgressIsCovered, Done, StartsAreFresh
  <2>7. WindowScannedOnce'
      BY <1>4 DEF WindowScannedOnce
  <2>8. CompletedIsCovered'
    <3>1. QUEUED \notin {COMPLETED, COMPLETED_DEGRADED}
        BY States DEF Finished
    <3> QED BY <1>4, <2>1, <3>1 DEF CompletedIsCovered
  <2> QED BY <2>3, <2>4, <2>5, <2>6, <2>7, <2>8
<1> QED BY <1>5, <1>6 DEF EnqueueInsert, InsertAdmissible

LEMMA StartPreserves ==
    ASSUME ScansInv, NEW r \in Request, Start(r)
    PROVE  ScansInv'
<1> USE DEF ScansInv
<1> DEFINE w == scanning[r].window
<1>1. scanning[r] \in Scanning /\ w \in Window
    BY Scanner DEF Start, Places, Scanning
<1>2. today' \in 1..MaxDay /\ UNCHANGED <<covered, partial>>
    BY DEF Start, avars, ScansTypeOK
<1>3. CASE run[w] # QUEUED
  <2>1. UNCHANGED <<run, passes>> /\ scanning' = [scanning EXCEPT ![r] = NoScan]
      BY <1>3 DEF Start, transition
  <2>2. NoScan.at = "idle"
      BY DEF NoScan
  <2> QED BY <1>2, <2>1, <2>2, LeavePreserves
<1>4. CASE run[w] = QUEUED
  <2> DEFINE s == [scanning[r] EXCEPT !.at = "read"]
  <2>1. /\ run' = [run EXCEPT ![w] = RUNNING]
        /\ scanning' = [scanning EXCEPT ![r] = s]
        /\ passes' = [passes EXCEPT ![w] = passes[w] + 1]
      BY <1>4 DEF Start, transition
  <2>2. /\ s \in Scanning /\ s.at = "read" /\ s.window = w
        /\ s.next = scanning[r].next /\ s.degraded = scanning[r].degraded
      BY <1>1 DEF Scanning, Places
  <2> HIDE DEF s
  <2>3. /\ run'[w] = RUNNING /\ \A v \in Window : v # w => run'[v] = run[v]
        /\ passes'[w] = passes[w] + 1 /\ \A v \in Window : v # w => passes'[v] = passes[v]
        /\ scanning'[r] = s /\ \A q \in Request : q # r => scanning'[q] = scanning[q]
      BY <1>1, <2>1 DEF ScansTypeOK
  <2>4. ScansTypeOK'
      BY <1>1, <1>2, <2>1, <2>2 DEF ScansTypeOK
  <2>5. \A q \in Request : Working(q) => scanning[q].window \in Window /\ scanning[q].window # w
    <3>1. \A q \in Request : Working(q) => scanning[q].window \in Window
        BY Scanner DEF Working, Places, Scanning
    <3> QED BY <1>4, <3>1, States DEF RunsAreHeld
  <2>6. RunsAreHeld'
    <3>1. \A q \in Request : Working(q)' => (q = r \/ Working(q))
        BY <2>3 DEF Working
    <3> QED BY <2>2, <2>3, <2>5, <3>1 DEF RunsAreHeld, Working
  <2>7. QueuedIsUntouched'
      BY <1>2, <2>3, States DEF QueuedIsUntouched
  <2>8. ProgressIsCovered'
    <3>1. Done(r)'
      <4>1. s.next = 1 /\ ~s.degraded /\ w \notin partial
        <5>1. scanning[r].at = "start"
            BY DEF Start
        <5>2. scanning[r].next = 1 /\ ~scanning[r].degraded
            BY <5>1 DEF StartsAreFresh
        <5>3. w \notin partial
            BY <1>1, <1>4 DEF QueuedIsUntouched
        <5> QED BY <2>2, <5>2, <5>3
      <4> QED BY <1>2, <2>2, <2>3, <4>1, EmployeeIds DEF Done
    <3>2. ASSUME NEW q \in Request, q # r,
                 scanning'[q].at \in {"read", "persist", "complete"}
          PROVE  Done(q)'
        BY <1>2, <2>3, <3>2 DEF ProgressIsCovered, Done
    <3> QED BY <3>1, <3>2 DEF ProgressIsCovered
  <2>9. StartsAreFresh'
      BY <2>2, <2>3 DEF StartsAreFresh
  <2>10. WindowScannedOnce'
      BY <1>4, <2>3 DEF QueuedIsUntouched, WindowScannedOnce
  <2>11. CompletedIsCovered'
    <3>1. RUNNING \notin {COMPLETED, COMPLETED_DEGRADED}
        BY States DEF Finished
    <3> QED BY <1>2, <2>3, <3>1 DEF CompletedIsCovered
  <2> QED BY <2>4, <2>6, <2>7, <2>8, <2>9, <2>10, <2>11
<1> QED BY <1>3, <1>4

----------------------------------------------------------------------------
(* The pipeline.                                                             *)

\* What a step of a request that works, and goes on to work, preserves: no run moves and
\* its window alone changes.
LEMMA WorkPreserves ==
    ASSUME ScansInv, NEW r \in Request, NEW s \in Scanning, Working(r),
           s.at \in {"read", "persist", "complete"}, s.window = scanning[r].window,
           scanning' = [scanning EXCEPT ![r] = s],
           ScansTypeOK', UNCHANGED <<run, passes>>,
           \A v \in Window : v # s.window =>
               covered'[v] = covered[v] /\ (v \in partial' <=> v \in partial),
           Done(r)'
    PROVE  ScansInv'
<1> USE DEF ScansInv
<1>1. scanning'[r] = s /\ \A q \in Request : q # r => scanning'[q] = scanning[q]
    BY DEF ScansTypeOK
<1>2. \A q \in Request : Working(q) => scanning[q].window \in Window
    BY Scanner DEF Working, Places, Scanning
<1>3. run[s.window] = RUNNING /\ s.window \in Window
    BY <1>2 DEF RunsAreHeld
<1>4. RunsAreHeld'
    BY <1>1 DEF RunsAreHeld, Working
<1>5. ProgressIsCovered'
  <2> SUFFICES ASSUME NEW q \in Request, q # r,
                      scanning[q].at \in {"read", "persist", "complete"}
               PROVE  Done(q)'
      BY <1>1 DEF ProgressIsCovered
  <2>1. scanning[q].window # s.window /\ scanning[q].window \in Window
      BY <1>2 DEF RunsAreHeld, Working
  <2>2. Done(q)
      BY DEF ProgressIsCovered
  <2> QED BY <1>1, <2>1, <2>2 DEF Done
<1>6. StartsAreFresh'
    BY <1>1 DEF StartsAreFresh
<1>7. QueuedIsUntouched'
    BY <1>3, States DEF QueuedIsUntouched
<1>8. CompletedIsCovered'
  <2>1. RUNNING \notin {COMPLETED, COMPLETED_DEGRADED}
      BY States DEF Finished
  <2> QED BY <1>3, <2>1 DEF CompletedIsCovered
<1>9. WindowScannedOnce'
    BY DEF WindowScannedOnce
<1> QED BY <1>4, <1>5, <1>6, <1>7, <1>8, <1>9

LEMMA ReadEvidencePreserves ==
    ASSUME ScansInv, NEW r \in Request, ReadEvidence(r)
    PROVE  ScansInv'
<1> DEFINE scan == scanning[r]
<1>1. PICK ev \in Evidence, degraded \in BOOLEAN :
         /\ scan.at = "read"
         /\ scanning' = [scanning EXCEPT ![r].at = "persist", ![r].held = <<today, ev>>,
                                         ![r].degraded = Degraded(@, degraded)]
         /\ partial' = IF degraded THEN partial \cup {scan.window} ELSE partial
         /\ UNCHANGED <<avars, run, passes, covered, orphaned, deaths>>
    BY DEF ReadEvidence
<1>2. scan \in Scanning /\ Working(r) /\ Done(r)
    BY <1>1, Scanner DEF Working, Places, ScansInv, ProgressIsCovered
<1> DEFINE s == [scan EXCEPT !.at = "persist", !.held = <<today, ev>>,
                             !.degraded = Degraded(scan.degraded, degraded)]
<1>3. /\ s \in Scanning /\ s.at = "persist" /\ s.window = scan.window /\ s.next = scan.next
      /\ s.degraded <=> scan.degraded \/ degraded
    BY <1>2 DEF Scanning, Places, Degraded, ScansInv, ScansTypeOK
<1>4. scanning' = [scanning EXCEPT ![r] = s]
    BY <1>1 DEF ScansInv, ScansTypeOK
<1> HIDE DEF s
<1>5. ScansTypeOK'
    BY <1>1, <1>3, <1>4 DEF ScansInv, ScansTypeOK, avars
<1>6. /\ UNCHANGED <<run, passes, covered>>
      /\ \A v \in Window : v # s.window => (v \in partial' <=> v \in partial)
      /\ s.window \in partial' <=> s.window \in partial \/ degraded
    BY <1>1, <1>3
<1>7. Done(r)'
  <2>1. scanning'[r] = s
      BY <1>4 DEF ScansInv, ScansTypeOK
  <2> QED BY <1>1, <1>2, <1>3, <1>6, <2>1 DEF Done
<1> QED BY <1>2, <1>3, <1>4, <1>5, <1>6, <1>7, WorkPreserves

LEMMA PersistPreserves ==
    ASSUME ScansInv, NEW r \in Request, Persist(r)
    PROVE  ScansInv'
<1> DEFINE scan == scanning[r]
           n == scan.next
           e == employee_ids[n]
           s == [scan EXCEPT !.at = After(n), !.next = n + 1, !.held = <<>>]
<1>1. /\ scan.at = "persist"
      /\ covered' = [covered EXCEPT ![scan.window] = covered[scan.window] \cup {e}]
      /\ UNCHANGED <<today, run, passes, partial>>
    BY DEF Persist
<1>2. scan \in Scanning /\ Working(r) /\ Done(r)
    BY <1>1, Scanner DEF Working, Places, ScansInv, ProgressIsCovered
<1>3. n \in 1..Len(employee_ids) /\ e \in Employee /\ Len(employee_ids) \in Nat
    BY <1>1, <1>2, EmployeeIds DEF Done
<1>4. /\ s \in Scanning /\ s.at \in {"read", "complete"} /\ s.window = scan.window
      /\ s.next = n + 1 /\ s.degraded = scan.degraded /\ s.at = After(n)
  <2>1. After(n) \in {"read", "complete"} /\ n + 1 \in Nat
      BY <1>3 DEF After
  <2> DEFINE a == After(n)
             next == n + 1
  <2>2. a \in Places /\ a \in {"read", "complete"} /\ next \in Nat
      BY <2>1 DEF Places
  <2> HIDE DEF a, next
  <2>3. /\ [scan EXCEPT !.at = a, !.next = next, !.held = <<>>] \in Scanning
        /\ [scan EXCEPT !.at = a, !.next = next, !.held = <<>>].at = a
        /\ [scan EXCEPT !.at = a, !.next = next, !.held = <<>>].next = next
        /\ [scan EXCEPT !.at = a, !.next = next, !.held = <<>>].window = scan.window
        /\ [scan EXCEPT !.at = a, !.next = next, !.held = <<>>].degraded = scan.degraded
      BY <1>2, <2>2 DEF Scanning
  <2> QED BY <2>2, <2>3 DEF a, next
<1>5. scanning' = [scanning EXCEPT ![r] = s]
    BY DEF Persist, ScansInv, ScansTypeOK
<1> HIDE DEF s
<1>6. covered' \in [Window -> SUBSET Employee] /\ scan.window \in Window
    BY <1>1, <1>2, <1>3 DEF ScansInv, ScansTypeOK, Scanning
<1>7. ScansTypeOK'
    BY <1>1, <1>4, <1>5, <1>6 DEF ScansInv, ScansTypeOK
<1>8. /\ covered'[scan.window] = covered[scan.window] \cup {e}
      /\ \A v \in Window : v # scan.window => covered'[v] = covered[v]
    BY <1>1, <1>6 DEF ScansInv, ScansTypeOK
<1>9. Done(r)'
  <2>1. scanning'[r] = s
      BY <1>5 DEF ScansInv, ScansTypeOK
  <2>2. \A i \in 1..n : employee_ids[i] \in covered'[scan.window]
      BY <1>2, <1>3, <1>8 DEF Done
  <2>3. /\ s.next \in 1..(Len(employee_ids) + 1)
        /\ s.at = "read" => s.next <= Len(employee_ids)
        /\ s.at = "complete" => s.next = Len(employee_ids) + 1
      BY <1>3, <1>4 DEF After
  <2>4. s.degraded <=> s.window \in partial'
      BY <1>1, <1>2, <1>4 DEF Done
  <2>5. s.next - 1 = n
      BY <1>3, <1>4
  <2> QED BY <1>4, <2>1, <2>2, <2>3, <2>4, <2>5 DEF Done
<1> QED BY <1>1, <1>2, <1>4, <1>5, <1>7, <1>8, <1>9, WorkPreserves

----------------------------------------------------------------------------
(* The end of a run.                                                         *)

\* The request that works gives its run a final state, and a completed one only when
\* every employee is done.
LEMMA FinishPreserves ==
    ASSUME ScansInv, NEW r \in Request, NEW state \in Finished, Working(r),
           run' = [run EXCEPT ![scanning[r].window] = state],
           scanning' = [scanning EXCEPT ![r] = NoScan],
           today' \in 1..MaxDay, UNCHANGED <<passes, covered, partial>>,
           state \in {COMPLETED, COMPLETED_DEGRADED} =>
               /\ scanning[r].at = "complete"
               /\ state = COMPLETED_DEGRADED <=> scanning[r].degraded
    PROVE  ScansInv'
<1> USE DEF ScansInv
<1> DEFINE w == scanning[r].window
<1>1. w \in Window
    BY Scanner DEF Working, Places, Scanning
<1>2. /\ run'[w] = state /\ \A v \in Window : v # w => run'[v] = run[v]
      /\ scanning'[r] = NoScan /\ \A q \in Request : q # r => scanning'[q] = scanning[q]
    BY <1>1 DEF ScansTypeOK
<1>3. NoScan.at = "idle"
    BY DEF NoScan
<1>4. ScansTypeOK'
    BY <1>1 DEF ScansTypeOK
<1>5. RunsAreHeld'
  <2>1. \A q \in Request : Working(q)' => q # r /\ Working(q) /\ scanning[q].window # w
      BY <1>2, <1>3 DEF RunsAreHeld, Working
  <2>2. \A q \in Request : Working(q) => scanning[q].window \in Window
      BY Scanner DEF Working, Places, Scanning
  <2> QED BY <1>2, <2>1, <2>2 DEF RunsAreHeld, Working
<1>6. QueuedIsUntouched'
    BY <1>2, States DEF QueuedIsUntouched
<1>7. ProgressIsCovered' /\ StartsAreFresh'
    BY <1>2, <1>3 DEF ProgressIsCovered, Done, StartsAreFresh
<1>8. WindowScannedOnce'
    BY DEF WindowScannedOnce
<1>9. CompletedIsCovered'
  <2>1. ASSUME state \in {COMPLETED, COMPLETED_DEGRADED}
        PROVE  /\ \A n \in 1..Len(employee_ids) : employee_ids[n] \in covered[w]
               /\ (state = COMPLETED_DEGRADED) <=> w \in partial
    <3>1. Done(r)
        BY <2>1 DEF ProgressIsCovered
    <3>2. scanning[r].next - 1 = Len(employee_ids)
        BY <2>1, <3>1, EmployeeIds DEF Done
    <3> QED BY <2>1, <3>1, <3>2 DEF Done
  <2> QED BY <1>2, <2>1 DEF CompletedIsCovered
<1> QED BY <1>4, <1>5, <1>6, <1>7, <1>8, <1>9

LEMMA CompletePreserves ==
    ASSUME ScansInv, NEW r \in Request, Complete(r)
    PROVE  ScansInv'
<1> DEFINE state == IF scanning[r].degraded THEN COMPLETED_DEGRADED ELSE COMPLETED
<1>1. scanning[r].at = "complete" /\ Working(r)
    BY DEF Complete, Working
<1>2. run[scanning[r].window] = RUNNING
    BY <1>1 DEF ScansInv, RunsAreHeld
<1>3. run' = [run EXCEPT ![scanning[r].window] = state]
    BY <1>2 DEF Complete, transition
<1>4. state \in Finished /\ (state = COMPLETED_DEGRADED <=> scanning[r].degraded)
    BY States DEF Finished
<1>5. /\ scanning' = [scanning EXCEPT ![r] = NoScan]
      /\ today' \in 1..MaxDay /\ UNCHANGED <<passes, covered, partial>>
    BY DEF Complete, avars, ScansInv, ScansTypeOK
<1> HIDE DEF state
<1> QED BY <1>1, <1>3, <1>4, <1>5, FinishPreserves

LEMMA FailPreserves ==
    ASSUME ScansInv, NEW r \in Request, Fail(r)
    PROVE  ScansInv'
<1>1. Working(r)
    BY DEF Fail, Working
<1>2. run[scanning[r].window] = RUNNING
    BY <1>1 DEF ScansInv, RunsAreHeld
<1>3. run' = [run EXCEPT ![scanning[r].window] = FAILED]
    BY <1>2 DEF Fail, transition
<1>4. FAILED \in Finished /\ FAILED \notin {COMPLETED, COMPLETED_DEGRADED}
    BY States DEF Finished
<1>5. /\ scanning' = [scanning EXCEPT ![r] = NoScan]
      /\ today' \in 1..MaxDay /\ UNCHANGED <<passes, covered, partial>>
    BY DEF Fail, avars, ScansInv, ScansTypeOK
<1> QED BY <1>1, <1>3, <1>4, <1>5, FinishPreserves

----------------------------------------------------------------------------

\* The runs of the same window never overlap, whatever its requests do.
LEMMA SNextInv == ScansInv /\ [SNext]_svars => ScansInv'
<1> SUFFICES ASSUME ScansInv, [SNext]_svars PROVE ScansInv'
    OBVIOUS
<1>1. ASSUME NEW r \in Request, NEW w \in Window, EnqueueLookup(r, w) PROVE ScansInv'
    BY <1>1, EnqueueLookupPreserves
<1>2. ASSUME NEW r \in Request, EnqueueInsert(r) PROVE ScansInv'
    BY <1>2, EnqueueInsertPreserves
<1>3. ASSUME NEW r \in Request, Execute(r) PROVE ScansInv'
    BY <1>3, StartPreserves, ReadEvidencePreserves, PersistPreserves,
       PipelineRaisesPreserves, CompletePreserves, FailPreserves DEF Execute
<1>4. ASSUME NEW r \in Request, RequestDies(r) PROVE ScansInv'
    BY <1>4, RequestDiesPreserves
<1>5. ASSUME today' \in 1..MaxDay, UNCHANGED scans PROVE ScansInv'
    BY <1>5 DEF scans, ScansInv, ScansTypeOK, RunsAreHeld, Working, QueuedIsUntouched,
       StartsAreFresh, ProgressIsCovered, Done, WindowScannedOnce, CompletedIsCovered
<1>6. CASE Tick /\ UNCHANGED scans
  <2>1. today' \in 1..MaxDay
      BY <1>6, AlertsAssumption DEF Tick, ScansInv, ScansTypeOK
  <2> QED BY <1>5, <1>6, <2>1
<1>7. CASE UNCHANGED svars
  <2>1. today' \in 1..MaxDay /\ UNCHANGED scans
      BY <1>7 DEF svars, avars, ScansInv, ScansTypeOK
  <2> QED BY <1>5, <2>1
<1> QED BY <1>1, <1>2, <1>3, <1>4, <1>6, <1>7 DEF SNext

\* Every reachable state satisfies the inductive invariant: enqueue, transition and the
\* loop of the pipeline, for any number of overlapping requests.
THEOREM ScansInvariant == SSpec => []ScansInv
<1>1. SInit => ScansInv
    BY SInitInv
<1>2. ScansInv /\ [SNext]_svars => ScansInv'
    BY SNextInv
<1> QED BY <1>1, <1>2, PTL DEF SSpec

\* The pipeline is started at most once for a window, however its requests overlap, fail
\* and die: the unique key and the conditional update suffice.
THEOREM WindowsAreScannedOnce == SSpec => []WindowScannedOnce
<1>1. ScansInv => WindowScannedOnce
    BY DEF ScansInv
<1> QED BY <1>1, ScansInvariant, PTL

\* A run that says completed stored a result for every configured employee, and tells
\* degraded evidence from whole.
THEOREM CompletedRunsAreCovered == SSpec => []CompletedIsCovered
<1>1. ScansInv => CompletedIsCovered
    BY DEF ScansInv
<1> QED BY <1>1, ScansInvariant, PTL

=============================================================================
