------------------------------ MODULE Progress ------------------------------
(***************************************************************************)
(* The progress history of a project's tasks: TaskProgressRepository in     *)
(* packages/persistence/.../progress_repository.py, its recorder and reader *)
(* in services/agent-api/.../progress_history.py, and the dashboard build    *)
(* that records what it has read of Jira and carries on when it cannot.      *)
(*                                                                         *)
(* A build searches Jira, then records its observations in one transaction   *)
(* that reads the current rows without a lock; builds of several requests    *)
(* overlap, so an observation can be recorded over a newer one.              *)
(***************************************************************************)
EXTENDS Naturals, FiniteSets, Sequences

CONSTANTS Issue,      \* the issues of the project
          Build,      \* concurrent dashboard builds
          TaskState,  \* records: status, remaining, spent, blocked, blockers, other
          Done,       \* the statuses that mean completed
          Unset,      \* the value of a field Jira leaves empty
          MaxChanges, \* bound: changes made in Jira
          MaxWeek     \* bound: the last work week

VARIABLES jira,       \* jira[i]: every state of the issue so far, by update time
          week,       \* the week of the clock
          weeks,      \* the rows of WorkWeek
          current,    \* current[i]: the row of TaskCurrentState, or NoRow
          snapshots,  \* the rows of TaskProgressSnapshot
          history,    \* the rows of TaskProgressEvent
          build       \* build[b]: what a dashboard build has read

rvars == <<jira, week, weeks, current, snapshots, history, build>>

NoRow == [state |-> Unset]
NotLoaded == [loaded |-> FALSE]
NoBuild == [phase |-> "idle"]

ProgressInit ==
    /\ \E s \in TaskState : jira = [i \in Issue |-> <<s>>]
    /\ week = 1
    /\ weeks = {}
    /\ current = [i \in Issue |-> NoRow]
    /\ snapshots = {}
    /\ history = {}
    /\ build = [b \in Build |-> NoBuild]

----------------------------------------------------------------------------
(* derive_progress_events.                                                  *)

Changed(type, old, new, progress) ==
    IF old = new THEN {}
    ELSE {[type |-> type, old |-> old, new |-> new, progress |-> progress]}

RemainingEvents(old, new) ==
    Changed("remaining_estimate_changed", old, new,
            old # Unset /\ new # Unset /\ new < old)

\* Logged work is time spent for the first time or more of it.
SpentEvents(old, new) ==
    LET increased == new # Unset /\ (old = Unset \/ old < new) IN
    Changed(IF increased THEN "work_logged" ELSE "time_spent_corrected", old, new, increased)

Became(type, happened, old, new) ==
    IF happened THEN {[type |-> type, old |-> old.blockers, new |-> new.blockers,
                       progress |-> FALSE]}
    ELSE {}

\* Blocked also covers a blocker category set on the issue itself.
BlockerEvents(old, new) ==
    Became("blocker_added", (new.blocked /\ ~old.blocked) \/ new.blockers \ old.blockers # {},
           old, new)
    \cup
    Became("blocker_removed", (old.blocked /\ ~new.blocked) \/ old.blockers \ new.blockers # {},
           old, new)

CompletionEvents(old, new) ==
    IF old \notin Done /\ new \in Done
    THEN Changed("task_completed", old, new, TRUE) ELSE {}

\* Original estimate, due date, priority and assignee stand in "other".
derive_progress_events(old, new) ==
    RemainingEvents(old.remaining, new.remaining)
    \cup SpentEvents(old.spent, new.spent)
    \cup Changed("status_changed", old.status, new.status, TRUE)
    \cup Changed("other_changed", old.other, new.other, FALSE)
    \cup BlockerEvents(old, new)
    \cup CompletionEvents(old.status, new.status)

----------------------------------------------------------------------------

SomeoneEdits(i, s) ==
    /\ Len(jira[i]) <= MaxChanges
    /\ s # jira[i][Len(jira[i])]
    /\ jira' = [jira EXCEPT ![i] = Append(@, s)]
    /\ UNCHANGED <<week, weeks, current, snapshots, history, build>>

WeekPasses ==
    /\ week < MaxWeek
    /\ week' = week + 1
    /\ UNCHANGED <<jira, weeks, current, snapshots, history, build>>

\* DashboardService.build: search_issues, and the observations made of its rows;
\* their capture time decides the week.
ReadProject(b) ==
    /\ build[b] = NoBuild
    /\ build' = [build EXCEPT ![b] =
         [phase |-> "read", week |-> week, newWeek |-> FALSE,
          loaded |-> [i \in Issue |-> NotLoaded],
          seen |-> [i \in Issue |-> [state |-> jira[i][Len(jira[i])], at |-> Len(jira[i])]]]]
    /\ UNCHANGED <<jira, week, weeks, current, snapshots, history>>

\* _work_week: the row found, or one to be inserted.
NeedsWeek(w) == w \notin weeks

\* The selects of record_observations for one issue after another: of the week, which
\* the first of them may insert, and of the issue's row.
LoadCurrent(b, i) ==
    /\ build[b].phase = "read"
    /\ build[b].loaded[i] = NotLoaded
    /\ build' = [build EXCEPT ![b] =
         [phase |-> "read", week |-> @.week, seen |-> @.seen,
          newWeek |-> @.newWeek \/ NeedsWeek(@.week),
          loaded |-> [j \in Issue |-> IF j = i THEN current[i] ELSE @.loaded[j]]]]
    /\ UNCHANGED <<jira, week, weeks, current, snapshots, history>>

EventsOf(b, i) ==
    LET row == build[b].loaded[i]
        obs == build[b].seen[i]
    IN IF row = NoRow THEN {} ELSE derive_progress_events(row.state, obs.state)

NewSnapshot_WeekOnly(row, obs, w) == row = NoRow \/ row.week # w

\* state_changed or week_changed: the stored fingerprint is compared, not the state.
NewSnapshot(row, obs, w) ==
    row = NoRow \/ row.fingerprint # obs.state \/ row.week # w

SnapshotsOf(b) ==
    {[issue |-> i, week |-> build[b].week, state |-> build[b].seen[i].state] :
        i \in {j \in Issue :
                 NewSnapshot(build[b].loaded[j], build[b].seen[j], build[b].week)}}

OccurredAt(row, obs) == obs.at

EventRow(b, i, e) ==
    [issue |-> i, type |-> e.type, old |-> e.old, new |-> e.new,
     at |-> OccurredAt(build[b].loaded[i], build[b].seen[i])]

RecordedEvents(b) == UNION {{EventRow(b, i, e) : e \in EventsOf(b, i)} : i \in Issue}

\* uq_work_week_env_project_start, uq_task_current_env_project_issue,
\* uq_task_snapshot_env_issue_week_fingerprint and
\* uq_task_progress_event_env_fingerprint.
RowsAdmissible(b) ==
    /\ build[b].newWeek => build[b].week \notin weeks
    /\ \A i \in Issue : build[b].loaded[i] = NoRow => current[i] = NoRow
    /\ SnapshotsOf(b) \cap snapshots = {}
    /\ RecordedEvents(b) \cap history = {}

LastProgress(b, i) ==
    LET row == build[b].loaded[i] IN
    IF row = NoRow \/ \E e \in EventsOf(b, i) : e.progress
    THEN build[b].seen[i].at ELSE row.progress

\* The UPDATE sets the columns that differ from the row as it was read, so what
\* another build has committed since stands in the others.
Column(read, new, stored) == IF new = read THEN stored ELSE new

CurrentAfter(b, i) ==
    LET row == build[b].loaded[i]
        obs == build[b].seen[i]
        now == current[i]
        new == [state |-> obs.state, fingerprint |-> obs.state, week |-> build[b].week,
                at |-> obs.at, progress |-> LastProgress(b, i)]
    IN IF row = NoRow THEN new
       ELSE [state |-> obs.state,  \* holds the capture time: it always differs
             fingerprint |-> Column(row.fingerprint, new.fingerprint, now.fingerprint),
             week |-> Column(row.week, new.week, now.week),
             at |-> Column(row.at, new.at, now.at),
             progress |-> Column(row.progress, new.progress, now.progress)]

IsLoaded(b) ==
    build[b].phase = "read" /\ \A i \in Issue : build[b].loaded[i] # NotLoaded

CommitRecording(b) ==
    /\ IsLoaded(b)
    /\ RowsAdmissible(b)
    /\ weeks' = weeks \cup {build[b].week}
    /\ snapshots' = snapshots \cup SnapshotsOf(b)
    /\ history' = history \cup RecordedEvents(b)
    /\ current' = [i \in Issue |-> CurrentAfter(b, i)]
    /\ build' = [build EXCEPT ![b] = [phase |-> "recorded"]]
    /\ UNCHANGED <<jira, week>>

\* Any exception rolls the whole project's recording back; the dashboard is served
\* with progress_history among its missing sources.
RecordingFails(b) ==
    /\ build[b].phase = "read"
    /\ build' = [build EXCEPT ![b] = [phase |-> "degraded"]]
    /\ UNCHANGED <<jira, week, weeks, current, snapshots, history>>

ServeDashboard(b) ==
    /\ build[b].phase \in {"recorded", "degraded"}
    /\ build' = [build EXCEPT ![b] = NoBuild]
    /\ UNCHANGED <<jira, week, weeks, current, snapshots, history>>

ProgressNext ==
    \/ \E i \in Issue, s \in TaskState : SomeoneEdits(i, s)
    \/ WeekPasses
    \/ \E b \in Build :
          \/ ReadProject(b) \/ (\E i \in Issue : LoadCurrent(b, i)) \/ CommitRecording(b)
          \/ RecordingFails(b) \/ ServeDashboard(b)

ProgressSpec == ProgressInit /\ [][ProgressNext]_rvars

----------------------------------------------------------------------------
(* Properties.                                                              *)

Field(s, type) ==
    CASE type = "remaining_estimate_changed" -> s.remaining
      [] type \in {"work_logged", "time_spent_corrected"} -> s.spent
      [] type \in {"status_changed", "task_completed"} -> s.status
      [] type \in {"blocker_added", "blocker_removed"} -> s.blockers
      [] OTHER -> s.other

\* What an event says a task has become, some snapshot of the task shows too, and
\* so does the current row's fingerprint: whatever recordings overlap and however
\* their columns mix, a change is never recorded without the state it led to.
ChangesHaveSnapshots ==
    /\ \A e \in history : \E s \in snapshots :
          s.issue = e.issue /\ Field(s.state, e.type) = e.new
    /\ \A i \in Issue : current[i] # NoRow =>
          \E s \in snapshots : s.issue = i /\ s.state = current[i].fingerprint

\* An event is dated by the update of the issue that brought its new value, even
\* when it is recorded late or over a newer observation, and its old value is one
\* the issue has had.
EventsAreDated ==
    \A e \in history :
        /\ Field(jira[e.issue][e.at], e.type) = e.new
        /\ \E n \in 1..Len(jira[e.issue]) : Field(jira[e.issue][n], e.type) = e.old

\* The history that record_observations keeps explains what it kept: every event
\* is a change that the issue went through and has the snapshot it led to.
HistoryExplainsChanges == ChangesHaveSnapshots /\ EventsAreDated

=============================================================================
