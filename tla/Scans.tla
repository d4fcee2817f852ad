------------------------------- MODULE Scans --------------------------------
(***************************************************************************)
(* Scan runs and the pipeline that writes alerts:                          *)
(*   packages/persistence/.../scan_repository.py                            *)
(*   domain/workforce_risk/scans/service.py                                 *)
(*   services/agent-api/.../scans/pipeline.py, routes/scans.py,             *)
(*   scheduled_scan.py                                                      *)
(*                                                                         *)
(* The scheduled job and every POST /scans are requests that may overlap.   *)
(* Each employee's result is a transaction of its own (PersistResult of     *)
(* Alerts), so a run that fails half way leaves what it has stored.         *)
(* Managers touch nothing a scan run reads; Alerts has them.                *)
(***************************************************************************)
EXTENDS Alerts, FiniteSets

CONSTANTS Request,       \* concurrent scan requests
          Window,        \* windows of the scanned scope (one idempotency key each)
          employee_ids,  \* the configured employees, in order
          MaxDeaths     \* bound: processes that die in a behaviour

ASSUME ScansAssumption ==
    /\ employee_ids \in Seq(Employee) /\ employee_ids # <<>>
    /\ MaxDeaths \in Nat

QUEUED == "queued"
RUNNING == "running"
COMPLETED == "completed"
COMPLETED_DEGRADED == "completed_degraded"
FAILED == "failed"

Finished == {COMPLETED, COMPLETED_DEGRADED, FAILED}

VARIABLES run,       \* run[w]: ScanRun.state, Absent without a row
          scanning,  \* scanning[r]: where request r is
          passes,    \* history: how often the pipeline was started for w
          covered,   \* history: employees whose result a run of w stored
          partial,   \* history: windows for which some evidence was degraded
          orphaned,  \* history: windows whose process died
          deaths

scans == <<run, scanning, passes, covered, partial, orphaned, deaths>>
svars == <<avars, scans>>

NoScan == [at |-> "idle"]

\* held is the evidence read for the next employee, with its day.
Scan(w, at) == [at |-> at, window |-> w, next |-> 1, degraded |-> FALSE,
                held |-> <<>>]

SInit ==
    /\ AInit
    /\ run = [w \in Window |-> Absent]
    /\ scanning = [r \in Request |-> NoScan]
    /\ passes = [w \in Window |-> 0]
    /\ covered = [w \in Window |-> {}]
    /\ partial = {} /\ orphaned = {}
    /\ deaths = 0

----------------------------------------------------------------------------
(* ScanService.request: DatabaseScanStore.enqueue                            *)

\* The lookup.  A request that finds a run returns it as a duplicate.
EnqueueLookup(r, w) ==
    /\ scanning[r] = NoScan
    /\ run[w] = Absent
    /\ scanning' = [scanning EXCEPT ![r] = Scan(w, "insert")]
    /\ UNCHANGED <<avars, run, passes, covered, partial, orphaned, deaths>>

InsertAdmissible_NotUnique(w) == TRUE

\* uq_scan_runs_environment_idempotency
InsertAdmissible(w) == run[w] = Absent

EnqueueInsert(r) ==
    LET w == scanning[r].window
    IN  /\ scanning[r].at = "insert"
        /\ IF InsertAdmissible(w)
           THEN /\ run' = [run EXCEPT ![w] = QUEUED]
                /\ scanning' = [scanning EXCEPT ![r] = Scan(w, "start")]
           ELSE /\ scanning' = [scanning EXCEPT ![r] = NoScan]
                /\ UNCHANGED run
        /\ UNCHANGED <<avars, passes, covered, partial, orphaned, deaths>>

----------------------------------------------------------------------------
(* ScanService.execute, as a background task or in the job itself            *)

\* DatabaseScanStore.transition: UPDATE ... WHERE state = expected.
transition(w, expected, target) ==
    run' = IF run[w] = expected THEN [run EXCEPT ![w] = target] ELSE run

Start(r) ==
    LET w == scanning[r].window
    IN  /\ scanning[r].at = "start"
        /\ transition(w, QUEUED, RUNNING)
        /\ IF run[w] = QUEUED
           THEN /\ scanning' = [scanning EXCEPT ![r].at = "read"]
                /\ passes' = [passes EXCEPT ![w] = @ + 1]
           ELSE /\ scanning' = [scanning EXCEPT ![r] = NoScan]
                /\ UNCHANGED passes
        /\ UNCHANGED <<avars, covered, partial, orphaned, deaths>>

Degraded_LastOnly(before, bundle) == bundle

Degraded(before, bundle) == before \/ bundle

\* get_employee_overload and the score of what it returns.
ReadEvidence(r) ==
    \E ev \in Evidence, degraded \in BOOLEAN :
        /\ scanning[r].at = "read"
        /\ scanning' = [scanning EXCEPT ![r].at = "persist",
                                        ![r].held = <<today, ev>>,
                                        ![r].degraded = Degraded(@, degraded)]
        /\ partial' = IF degraded THEN partial \cup {scanning[r].window} ELSE partial
        /\ UNCHANGED <<avars, run, passes, covered, orphaned, deaths>>

\* The loop goes on to the next employee, or the run is complete.
After(n) == IF n < Len(employee_ids) THEN "read" ELSE "complete"

Persist(r) ==
    LET scan == scanning[r]
        e == employee_ids[scan.next]
    IN  /\ scan.at = "persist"
        /\ PersistResult(e, scan.held[1], scan.held[2])
        /\ covered' = [covered EXCEPT ![scan.window] = @ \cup {e}]
        /\ scanning' = [scanning EXCEPT ![r].at = After(scan.next),
                                        ![r].next = @ + 1, ![r].held = <<>>]
        /\ UNCHANGED <<audited, patching, today, run, passes, partial, orphaned, deaths>>

\* Reading, scoring or storing raises.
PipelineRaises(r) ==
    /\ scanning[r].at \in {"read", "persist"}
    /\ scanning' = [scanning EXCEPT ![r].at = "fail", ![r].held = <<>>]
    /\ UNCHANGED <<avars, run, passes, covered, partial, orphaned, deaths>>

Complete(r) ==
    LET scan == scanning[r]
    IN  /\ scan.at = "complete"
        /\ transition(scan.window, RUNNING,
                      IF scan.degraded THEN COMPLETED_DEGRADED ELSE COMPLETED)
        /\ scanning' = [scanning EXCEPT ![r] = NoScan]
        /\ UNCHANGED <<avars, passes, covered, partial, orphaned, deaths>>

Fail_Unrecorded(r) ==
    /\ scanning[r].at = "fail"
    /\ scanning' = [scanning EXCEPT ![r] = NoScan]
    /\ UNCHANGED <<avars, run, passes, covered, partial, orphaned, deaths>>

Fail(r) ==
    /\ scanning[r].at = "fail"
    /\ transition(scanning[r].window, RUNNING, FAILED)
    /\ scanning' = [scanning EXCEPT ![r] = NoScan]
    /\ UNCHANGED <<avars, passes, covered, partial, orphaned, deaths>>

\* The process that runs the request dies, or cannot reach the database.
RequestDies(r) ==
    /\ scanning[r] # NoScan
    /\ deaths < MaxDeaths
    /\ deaths' = deaths + 1
    /\ orphaned' = orphaned \cup {scanning[r].window}
    /\ scanning' = [scanning EXCEPT ![r] = NoScan]
    /\ UNCHANGED <<avars, run, passes, covered, partial>>

Execute(r) == Start(r) \/ ReadEvidence(r) \/ Persist(r) \/ PipelineRaises(r)
                \/ Complete(r) \/ Fail(r)

SNext ==
    \/ \E r \in Request : \/ \E w \in Window : EnqueueLookup(r, w)
                          \/ EnqueueInsert(r) \/ Execute(r) \/ RequestDies(r)
    \/ Tick /\ UNCHANGED scans

SSpec == SInit /\ [][SNext]_svars

\* A process that does not die goes on.
SFairness == \A r \in Request : WF_svars(EnqueueInsert(r)) /\ WF_svars(Execute(r))

SFairSpec == SSpec /\ SFairness

----------------------------------------------------------------------------
(* Properties                                                               *)

\* However requests for one window overlap and fail, the pipeline is started
\* at most once for it ("duplicate scan windows do not repeat processing").
WindowScannedOnce == \A w \in Window : passes[w] <= 1

\* A run that says completed has stored a result for every employee, and says
\* degraded when any of the evidence was.
CompletedIsCovered ==
    \A w \in Window :
        run[w] \in {COMPLETED, COMPLETED_DEGRADED} =>
            /\ \A n \in 1..Len(employee_ids) : employee_ids[n] \in covered[w]
            /\ (run[w] = COMPLETED_DEGRADED) = (w \in partial)

\* A run that was queued is finished, one way or another, unless its process
\* dies: nothing takes over the run of a dead process.
ScanFinishes ==
    \A w \in Window :
        run[w] = QUEUED ~> run[w] \in Finished \/ w \in orphaned

=============================================================================
