----------------------------- MODULE JiraReads ------------------------------
(***************************************************************************)
(* Reading Jira: jira_mcp_client/client.py, transport.py and normalize.py, and  *)
(* what the three readers make of the same issues: the dashboard                *)
(* (dashboard/service.py), the evidence dossier of an employee                  *)
(* (risk_evidence.py) and the task queries (task_queries.py).                   *)
(*                                                                         *)
(* A client reads one thing at a time and is made anew for each request or scan. *)
(* Days are counted from some day; the dossier dates by UTC and the dashboard by  *)
(* the local date, which is the same day or the next.                           *)
(***************************************************************************)
EXTENDS Ages

CONSTANTS Issues,
          Contents,         \* the contents each issue may have
          MaxResults,       \* maxResults
          MaxReadAttempts,  \* max_attempts
          CircuitThreshold, \* circuit_failure_threshold
          ResetTicks,       \* circuit_reset_seconds, in ticks of the clock
          MaxDay,           \* bound: days
          SoonDays          \* the days "due soon" looks ahead

\* An issue is [status, due, estimate, blocker, link, mine]: link, the relationship of its
\* link as Jira's administrators named it; mine, whether it carries the label of the
\* employee the dossier is about.
ASSUME JiraReadsAssumption ==
    /\ MaxReadAttempts \in Nat \ {0} /\ CircuitThreshold \in Nat \ {0}
    /\ ResetTicks \in Nat \ {0} /\ MaxResults \in Nat /\ SoonDays \in Nat
    /\ \A i \in Issues : Contents[i] # {} /\ \A issue \in Contents[i] : issue.due \in Int

VARIABLES jira,     \* the issues of the project that exist, and their contents
          up,       \* how calls end: Jira "answers", answers with "errors", or "hangs"
          utc, local, \* the date in UTC and on the machine
          reading,  \* the read in progress, or how the last one ended
          streak,   \* _consecutive_failures
          circuit,  \* _circuit_opened_at: ticks since then, or Closed
          timeouts  \* history: ticks since each timed out read after the last good one

jvars == <<jira, up, utc, local, reading, streak, circuit, timeouts>>

Closed == -1

NoDue == -1

NoRead == [kind |-> "none", outcome |-> "none", attempt |-> 0]

JiraReadsInit ==
    /\ jira \in [{} -> {}] \cup {[i \in Issues |-> CHOOSE c \in Contents[i] : TRUE]}
    /\ up = "answers"
    /\ utc = 0 /\ local = 0
    /\ reading = NoRead
    /\ streak = 0 /\ circuit = Closed /\ timeouts = <<>>

----------------------------------------------------------------------------
(* normalize.py and the JQL of the readers.                                    *)

\* A status is its name and the category Jira files it under.
NamedDone(issue) == issue.status.name \in {"Done", "Closed", "Resolved"}

CategoryDone(issue) == issue.status.category = "Done"

\* remaining_estimate_seconds: Jira's own estimate or else the label's.
Remaining(issue) == issue.estimate # "none"

\* The issues each reader gets from Jira.
Matches(kind, issue) ==
    CASE kind = "dashboard" -> TRUE
      [] kind = "dossier" -> issue.mine /\ ~CategoryDone(issue)
      [] kind = "query" -> ~CategoryDone(issue)

Found(kind) == {i \in DOMAIN jira : Matches(kind, jira[i])}

\* normalize_issue_search: a page that is not the whole result is refused.
Truncated(kind) == Cardinality(Found(kind)) > MaxResults

----------------------------------------------------------------------------
(* The readers.                                                              *)

OverdueOn(day, issue) == issue.due # NoDue /\ issue.due < day

SoonOn(day, issue) == issue.due # NoDue /\ day <= issue.due /\ issue.due <= day + SoonDays

DashboardTasks == {i \in Found("dashboard") : ~NamedDone(jira[i])}

\* The dashboard strips the name of the relationship.
DashboardBlocked(issue) ==
    issue.blocker # "" \/ issue.link \in {"is blocked by", "is blocked by "}

Dashboard ==
    LET having(P(_)) == {i \in DashboardTasks : P(jira[i])}
    IN [overdue |-> having(LAMBDA x : OverdueOn(local, x)),
        soon |-> having(LAMBDA x : SoonOn(local, x)),
        blocked |-> having(DashboardBlocked),
        missing |-> having(LAMBDA x : ~Remaining(x))]

DossierTasks == {i \in Found("dossier") : ~NamedDone(jira[i])}

DossierBlocked_CategoryOnly(issue) == issue.blocker \notin {"", "None"}

DossierBlocked(issue) ==
    issue.blocker \notin {"", "None"}
        \/ issue.link \in {"is blocked by", "is blocked by ", "blocks"}

Dossier ==
    LET having(P(_)) == {i \in DossierTasks : P(jira[i])}
    IN [overdue |-> having(LAMBDA x : OverdueOn(utc, x)),
        soon |-> having(LAMBDA x : SoonOn(utc, x)),
        blocked |-> having(DossierBlocked),
        missing |-> having(LAMBDA x : ~Remaining(x))]

\* duedate < startOfDay(), and duedate >= startOfDay() AND duedate <= 7d: a date that is
\* not set matches neither.
QueryOverdue(startOfDay, issue) == issue.due # NoDue /\ issue.due < startOfDay

QuerySoon(startOfDay, issue) ==
    issue.due # NoDue /\ issue.due - startOfDay \in 0 .. SoonDays

\* What the code makes of the active tasks it gets; the name is compared as it is.
QueryBlocked(issue) == issue.blocker # "" \/ issue.link = "is blocked by"

\* The tasks listed for each kind of question, when Jira's own time zone has this day;
\* remainingEstimate is Jira's own field.
TaskQuery(startOfDay) ==
    LET having(P(_)) == {i \in Found("query") : P(jira[i])}
    IN [overdue |-> having(LAMBDA x : QueryOverdue(startOfDay, x)),
        soon |-> having(LAMBDA x : QuerySoon(startOfDay, x)),
        blocked |-> having(QueryBlocked),
        missing |-> having(LAMBDA x : x.estimate # "native")]

----------------------------------------------------------------------------
(* client.py.                                                                *)

Reading == reading.kind # "none" /\ reading.outcome = "none"

CircuitBlocks_Forever == circuit # Closed

CircuitBlocks == circuit # Closed /\ circuit < ResetTicks

\* get_issue ("issue") and search_issues up to their first call of Jira.
StartRead(kind) ==
    /\ ~Reading
    /\ IF CircuitBlocks
       THEN /\ reading' = [kind |-> kind, outcome |-> "refused", attempt |-> 0]
            /\ UNCHANGED <<streak, circuit>>
       ELSE /\ reading' = [kind |-> kind, outcome |-> "none", attempt |-> 0]
            /\ circuit' = Closed
            /\ streak' = IF circuit = Closed THEN streak ELSE 0
    /\ UNCHANGED <<jira, up, utc, local, timeouts>>

\* The answer, as Jira is now.  An error of the normalization leaves the counter.
CallReplies ==
    /\ Reading /\ up = "answers"
    /\ IF reading.kind # "issue" /\ Truncated(reading.kind)
       THEN /\ reading' = [reading EXCEPT !.outcome = "error"]
            /\ UNCHANGED <<streak, timeouts>>
       ELSE /\ reading' = [reading EXCEPT !.outcome = "ok"]
            /\ streak' = 0 /\ timeouts' = <<>>
    /\ UNCHANGED <<jira, up, utc, local, circuit>>

\* The tool, the label or a field is not what it should be.
CallFails ==
    /\ Reading /\ up = "errors"
    /\ reading' = [reading EXCEPT !.outcome = "error"]
    /\ UNCHANGED <<jira, up, utc, local, streak, circuit, timeouts>>

TripsCircuit_AfterThreshold(n) == n > CircuitThreshold

TripsCircuit(n) == n >= CircuitThreshold

CallTimesOut ==
    /\ Reading /\ up = "hangs"
    /\ IF reading.attempt + 1 < MaxReadAttempts
       THEN /\ reading' = [reading EXCEPT !.attempt = @ + 1]
            /\ UNCHANGED <<streak, circuit, timeouts>>
       ELSE /\ reading' = [reading EXCEPT !.outcome = "timeout"]
            /\ streak' = streak + 1
            /\ circuit' = IF TripsCircuit(streak + 1) THEN 0 ELSE circuit
            /\ timeouts' = Append(timeouts, 0)
    /\ UNCHANGED <<jira, up, utc, local>>

\* A request or a scan begins.
NewClient ==
    /\ ~Reading
    /\ reading' = NoRead /\ streak' = 0 /\ circuit' = Closed /\ timeouts' = <<>>
    /\ UNCHANGED <<jira, up, utc, local>>

\* Time passes; what is older than the reset time no longer counts.
Tick ==
    /\ circuit # Closed \/ timeouts # <<>>
    /\ circuit' = IF circuit \in {Closed, ResetTicks} THEN circuit ELSE circuit + 1
    /\ timeouts' = Aged(timeouts, ResetTicks)
    /\ UNCHANGED <<jira, up, utc, local, reading, streak>>

JiraGoesUpOrDown ==
    /\ up' \in {"answers", "errors", "hangs"} \ {up}
    /\ UNCHANGED <<jira, utc, local, reading, streak, circuit, timeouts>>

EditIssue(i) ==
    /\ \E c \in Contents[i] : jira' = [j \in DOMAIN jira \cup {i} |-> IF j = i THEN c ELSE jira[j]]
    /\ jira' # jira
    /\ UNCHANGED <<up, utc, local, reading, streak, circuit, timeouts>>

Midnight ==
    /\ \/ local = utc /\ utc < MaxDay /\ local' = local + 1 /\ utc' = utc
       \/ utc < local /\ utc' = local /\ local' = local
    /\ UNCHANGED <<jira, up, reading, streak, circuit, timeouts>>

ReadKinds == {"issue", "dashboard", "dossier", "query"}

Read == \E kind \in ReadKinds : StartRead(kind)

JiraReadsNext ==
    \/ Read
    \/ CallReplies \/ CallFails \/ CallTimesOut \/ NewClient \/ Tick
    \/ JiraGoesUpOrDown \/ Midnight
    \/ \E i \in Issues : EditIssue(i)

\* wait_for bounds each call, and time passes.
CallFairness ==
    WF_jvars(CallReplies \/ CallFails \/ CallTimesOut) /\ WF_jvars(Tick)

JiraReadsSpec == JiraReadsInit /\ [][JiraReadsNext]_jvars /\ CallFairness /\ WF_jvars(Read)

----------------------------------------------------------------------------
(* Properties.                                                              *)

\* However failures, errors and successes mix, no client waits for more than
\* CircuitThreshold timed out reads without a good one within the reset time.
TimeoutsAreContained == Len(timeouts) <= CircuitThreshold

\* The readers agree on one state of Jira, though each has its own query, its own rules
\* and its own day.  What the dossier shows is active for the other two; what is overdue
\* by the earlier of two days is overdue by the later, and on the same day the same tasks
\* are overdue and due soon; a task the dashboard shows blocked is blocked in the dossier,
\* unless its category is "None", and in the task query, unless it is so by a link whose
\* name has blanks around it; the dashboard and the dossier miss the same estimates, and
\* the task query those at least.
ReadersAgree ==
    LET both == DashboardTasks \cap Found("query") IN
    /\ DossierTasks \subseteq both
    /\ Dossier.overdue \subseteq Dashboard.overdue
    /\ local = utc => /\ Dossier.overdue = Dashboard.overdue \cap DossierTasks
                      /\ Dossier.soon = Dashboard.soon \cap DossierTasks
    /\ \A i \in Dashboard.blocked \cap DossierTasks :
          i \in Dossier.blocked \/ jira[i].blocker = "None"
    /\ Dossier.missing = Dashboard.missing \cap DossierTasks
    /\ \A day \in {utc, local} :
          LET query == TaskQuery(day) IN
          /\ Dossier.overdue \subseteq query.overdue
          /\ query.overdue \cap both \subseteq Dashboard.overdue
          /\ day = utc => Dossier.soon = query.soon \cap DossierTasks
          /\ day = local => Dashboard.soon \cap both = query.soon \cap both
          /\ query.blocked \cap both \subseteq Dashboard.blocked
          /\ \A i \in Dashboard.blocked \cap both :
                i \in query.blocked \/ jira[i].link = "is blocked by "
          /\ Dashboard.missing \cap both \subseteq query.missing

\* While somebody reads and Jira answers again, reads succeed again: the circuit does
\* not stay open.  (A project that has outgrown one page is never read.)
ReadsRecover ==
    []<>(reading.kind # "none") /\ <>[](up = "answers" /\ ~Truncated("dashboard"))
        => []<>(reading.outcome = "ok")
=============================================================================
