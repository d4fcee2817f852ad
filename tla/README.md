# Verification of the Workforce Risk Agent

TLA+ specifications of the core of this repository, TLC configurations that
check them on small instances, and theorems about them that TLAPS checks for
every value of the constants. Paths below are relative to the repository; `P/`
stands for `packages/persistence/src/workforce_persistence/`, `D/` for
`domain/workforce_risk/`, `A/` for `services/agent-api/src/agent_api/`, `W/`
for `services/workforce-risk-mcp/src/workforce_risk_mcp/`, `N/` for
`services/notification-worker/src/notification_worker/` and `J/` for
`packages/jira-mcp-client/src/jira_mcp_client/`.

    tlc -workers 2 -config reassignment.cfg MCReassignment
    tlapm ReassignmentProofs.tla

`PROJECT.json` lists every run with its module, configuration and properties,
the source lines each definition stands for, the hazards and the theorems.

## The system

The agent API answers managers, runs scans, builds the dashboard and proxies
decisions to the Workforce Risk MCP server, which owns the transactional state
in PostgreSQL. A scan scores employees from Jira evidence and records alerts; a
manager asks questions in the browser's chat, simulates a reassignment, turns it
into a proposal, approves it, and asks for its execution, which changes one
assignee in Jira through an MCP client. Changes of proposals, executions and
profiles append to a hash-chained audit table; notifications leave through a
transactional outbox, an SQS queue and a worker that calls SES.

| Component | State | Operations | Hard behaviour | Correct when |
|---|---|---|---|---|
| Proposals (`P/proposal_repository.py`, `D/proposals/`, `W/tools/proposals.py`) | proposal, simulation and decision rows, version | create, approve, reject, expire, go stale | concurrent decisions, retried keys, evidence that changes, expiry | decided once, state explained by the decision, version token sound, trail replays |
| Execution and reconciliation (`P/execution_repository.py`, `D/proposals/execution.py`, `reconciliation.py`, `J/mutation.py`, `W/workers/reconcile.py`) | execution row, lease, outbox event; the issue in Jira | prepare, mark, read, edit, read back, finalize; lease, read, resolve | crash between any two steps, late or lost Jira requests, racing callers and reconcilers, edits by others | at most one edit, announced before it is sent, outcomes that are true, nothing left executing |
| Audit chain (`P/repositories.py` AuditRepository) | audit rows | append, verify_chain | unlocked read of the newest row, colliding transactions, damaged rows | what append wrote verifies, damage is reported |
| Profiles (`P/repositories.py` ProfileRepository, `A/routes/profiles.py`) | versioned profile row | create, update capacity with `If-Match` | overlapping changes, waits for a row lock, lost answers | every version has its event, every update its capacities |
| Notifications (`P/outbox_repository.py`, `N/`) | outbox, queue, delivery rows | publish, claim, send, mark | duplicates, redelivery, crashes, ambiguous sends | one email per event, delivery state true |
| Alerts (`P/alert_repository.py`, `D/alerts/`, `A/routes/alerts.py`) | alert row with version, occurrences, outbox events | record, resolve, reopen, notify, PATCH | a PATCH overlapping a scan, repeated evidence, cooldown | sound ETag, legal transitions, auditable recurrence, no escalation lost |
| Scans (`P/scan_repository.py`, `D/scans/`, `A/scans/`, `A/scheduled_scan.py`) | scan run | request, execute, complete, fail | overlapping requests, partial failure, crash | a window is scanned once, a completed run is complete |
| Evidence (`P/repositories.py` SnapshotRepository, `A/historical_evidence.py`) | snapshots, results | store, read as of a time | late and overlapping writers | history shows what was observed |
| Task progress (`P/progress_repository.py`, `A/progress_history.py`) | current rows, snapshots, events, work weeks | record, load history | overlapping dashboard builds, late observations | every event is a change that happened |
| Comments, reports (`P/repositories.py`, `P/report_repository.py`, `W/tools/`) | signals; report row and S3 objects | classify, append; pending, upload, stored, failed, link | edits of a comment between its reading and its storing, repeated calls; racing retries | rows that tell what the comment said; a link to what the checksum names |
| Scoring and simulation (`D/scoring/`, `D/simulation/`) | configuration, correlation ids | score, simulate | gaps, caps, rounding, configurations that change | score follows the situation, gaps within the confidence |
| Jira reads (`J/client.py`, `normalize.py`, readers) | failures in a row, opened-at | read, time out, open, close | concurrent failures and successes, three readers with rules of their own | waits bounded, reads recover, readers agree |
| Conversation (`A/routes/investigations.py`, `A/graph/`, `A/evidence/`) | graph state, answer context | plan, collect, rank, explain | budgets, refusals, a project that changes between questions | the evidence the question asks for, limits kept, every question comes to its explanation or a status |
| Model adapter (`A/llm/`, `A/grounding.py`) | failures in a row, circuit, answer context | ask, validate, repair, fall back | mixtures of malformed, rejected and late replies | grounded or marked uncertain, bounded, ends |
| API keys, rate limiter (`A/auth/api_keys.py`, `A/security/limits.py`) | cached keys, counted windows | authenticate; allow | stale cache while the database is away; pruning of windows | access is recent; requests are limited |
| Web client (`A/web/static/chat.js`) | abort controller, stored contexts and messages | send, retry, cancel, switch, clear | answers, retries and switches of the project interleaved | projects stay apart, the running chat can be cancelled |

The interactions: scans call `AlertRepository` inside the transaction that
stores the result; alerts and executions write outbox events inside theirs;
profiles, proposals and executions append to the one audit chain; execution
reads the proposal rows decisions write; the graph asks the readers of Jira and
the model adapter, and its answer context comes back with the next question.

## Modules

Proposals and executions

`ProposalState` – the states of a proposal and `ALLOWED_TRANSITIONS`.

`Proposals` – stored simulations, proposals and decisions. `PersistSimulation`
and `CreateProposal` are one transaction each (creation's insert is made safe by
its unique key). A decision is two steps, because its duplicate lookup and what
the manager saw lie before the row lock: `OpenDecision` fixes the command and the
version, `CommitDecision` is the locked part. `DecidedVersion` adds two: `decide`
bumps the version in a bulk UPDATE, which refreshes the loaded row, and again
through that row. `AbandonDecision` is a rollback for any reason. The freshness
provider lies outside the repository (the deployed one always refuses); it is
modelled as a fingerprint per issue that `EvidenceChanges` moves. `trail[p]` is
the sequence of prior/new states in p's audit events.

`Reassignment` extends `Proposals` with the saga. `calling[c]` is a call of
`execute_reassignment`, `claims[r]` what a reconciler leased, `edit[p]` the
request to Jira. Each database transaction and each Jira call is one action;
between them a process may die (`CallerFails`, `ReconcilerFails`, which also
stand for a transaction or guard that raises). A Jira request is sent
(`SendEdit`), and at some later time applied, refused or lost (`ApplyEdit`,
`DropEdit`), independently of what its caller sees (`EditReturns`). The
`created_at` order of rows is kept as a rank; ages and leases stop counting
where no comparison can tell them apart, so no behaviour is lost. A lease takes
the oldest rows that are not locked by others (SKIP LOCKED: `LeaseAbandoned`
picks any set of unlocked rows). `lease_owner` is not modelled: nothing reads it.
A person may edit the issue at any time, also between the precondition read and
the edit; the edit then overwrites that change, since `editJiraIssue` carries no
precondition.

`ProposalLifecycle` – the abstract specification: a proposal moves along its
life cycle, and Jira is asked to edit only while it executes, once.
`Reassignment!LifecycleSpec` is the refinement (`requested` is the set of
proposals with an edit sent).

Audit and the tables

`AuditChain` – `AppendEvent` reads the newest committed row and prepares its
successor, `CommitEvent` inserts it if number and hash are free. The digest is
taken as injective. `LoseRow` and `AlterRow` are damage done outside the
application, and `DamageSpec` lets them happen between any two steps of `ANext`
as long as no two open transactions append the same event, which row locks
exclude. Losing rows from the end is left out: the rest is a valid chain and
`verify_chain` has nothing to compare its length with, a limit of the design.

`Profiles` extends `AuditChain`. A change is a transaction of four steps: the
unlocked read of the prior capacity, the conditional UPDATE that waits for the
row, the event, the commit of both. The event of a creation holds the version and
nothing else; `capacities` is the history of the row. A request ends unanswered
when its caller has given up. No route reads a profile, so an `If-Match` is an ETag
answered before or a guess; `guesses` marks the changes made on a guess.

`Progress` – a dashboard build searches Jira, then records what it saw in one
transaction over rows it has not locked and loads issue by issue (`LoadCurrent`), so
an older observation can be recorded over a newer one. A refused insert undoes the
batch and the build carries on.

`EvidenceStore` – writers observe an employee and store late, deduplicated by
fingerprint; `get_at` is the reader of the past. `CommentEvidence` – callers read
a comment, and pass that observation to the tool at once, later, or again after a
failed call or a lost answer, while people edit the comment; lookup and insert are two
steps. `Reports` – generators of one report race through pending row, upload and stored
row; the list a reader is shown and the link asked for later are two reads of the row.

`Scoring` – `Score` with coverage, confidence, points and level for the overload
family and the rule the two other families share, the correlation ids that are
refused once used, configurations that are replaced between two scores, and the
simulation that puts two results side by side. Weights are exact hundredths, and the
loop over the factors that count is a sum of `Counted` terms.

Alerts, scans, notifications

`Alerts` – `PersistResult` is the alert part of the scan's transaction, under the
alert's row lock; a PATCH is three steps, what the manager is shown, the
unlocked load, the conditional update with its audit event (`audited` is the last one),
which a collision on the chain may roll back. `record_risk` returns early on an
unchanged result even if the alert was resolved since; the model does the same.

`Scans` extends `Alerts` with runs: lookup, insert, start, one read and one
persist per employee, completion or failure, or the death of the process.
Requests for a window that has a run return it and change nothing. A read's
evidence is any member of `Evidence`, since Jira changes freely.

`Notifications` – publishing (`StartPublish` to `MarkPublished`), the queue
(`Receive`, `Redrive`), and the worker (`Claim` to `DeleteMessage`). The loops
that feed `publish_event` and `handle` are not in the repository; they, SQS and
SES are modelled from their use. The properties are bounded by what the code
promises: two workers that both retry a failed delivery may both send, so
`DuplicatesSendOnce` speaks of events no attempt has failed for.

Requests and answers

`AnswerEvidence` – the pure part of `A/evidence/`: the plan a question calls for,
its tasks and employees, the ranking of candidates. A question is the set of the
phrases the code looks for and the names it holds; how a phrase is found in a
sentence is left out. `ChatWorkflow` extends it with the graph: one action per
node, over a conversation whose project changes between and within questions. A wiring
says which readers and specialists there are, and whether a deadline is configured;
by default (`A/graph/workflow.py:132`) none is.

`Explanation` – the model adapter. An answer is the set of its defects; each
validator refuses those it looks for with the evidence it needs (without a project
snapshot the universal ones refuse nothing, a question about employees need not name the
tasks), and what Bedrock sends is any member of
`Replies`. The circuit is shared by the calls that follow each other.

`JiraReads` – the client with its deadline and circuit, and the three readers
(dashboard, dossier, task query), each with its own query, its own day and its own rules
for done, blocked, overdue, due soon and missing estimates: the dashboard strips the name
of a link, the task query does not, and leaves dates to Jira's `startOfDay()`. The
task query's reader is reachable only in a wiring without the project tool.

`Ages` – histories as the ages of their events, oldest first, which the clock moves
(`Aged`); `RateLimiter` and `JiraReads` keep theirs so.

`AccessControl` – a request reads the keys in a transaction and is decided when
it has committed; while the database is away reads are let in on the cache.
`RateLimiter` – windows and their removal. `ChatClient` – the handlers of
`chat.js`, one action from one await to the next.

Instances: `MCProposals`, `MCReassignment`, `MCAlerts`; and three that hold
several components with nothing in common but the run, where the variable `part`
chooses the one whose steps a behaviour takes: `MCScans` (scans with alerts; the
delivery of an alert; that of a notice of an uncertain execution), `MCStores`
(the tables and the limits of the API, the chat), `MCServices` (conversation,
model adapter, reads). Since parts share no variable they step, each is checked
as if alone. A definition named `X_Variant` next to `X` is `X` with a plausible
bug; `PROJECT.json` says which property finds it, and no specification uses it.

## Runs

| Run | Question | Instance |
|---|---|---|
| proposals | Do two managers and shared keys leave each proposal with one explained decision? | 2 proposals, 2 managers, 2 keys, changing evidence, expiry |
| reassignment | Do outcomes, edits, audit and outbox stay true through races and crashes, and is it the abstract life cycle? | 1 proposal, 2 callers, 2 reconcilers, 1 crash, people editing; from the empty database |
| liveness | Does an execution ever stay executing? | 1 proposal, 1 caller, 2 reconcilers, 1 crash, fairness |
| alerts | Do PATCHes and scans respect each other? | 1 employee, 2 fingerprints and 3 levels, 2 managers, 3 versions by evidence |
| scans | Is a window scanned once and completely, and is an alert emailed, once? | 2 requests, 2 windows, 2 employees, 1 death; 1 event of either kind, 2 workers, 3 attempts, 1 failure, 1 crash; fairness |
| stores | Do the tables and limits keep what they promise? | 2 concurrent writers of each table, chain numbers up to 3, 3 chats in 2 projects, one API key for 2 projects |
| services | Do questions get the evidence they ask for, sound answers, and an end? | 3 project states, 13 questions, 4 wirings; 2 calls of the adapter with each defect; 2 issues, circuit of 2 failures; fairness |
| false_failure, starvation, vanishing, uncertain_notice, wrong_history | a documented promise the code breaks | see below |

Some properties are conjunctions that speak of one promise:

* `EditsAreSafe` (reassignment): Jira is asked once (`EditOnce`), only after the
  row says so (`EditIsAnnounced`), only with an approval on record
  (`EditIsApproved`).
* `OutcomesAreTrue`: a verified execution was reached, a stale one wrote nothing,
  a failure whose two marks agree is real – the strongest statement about
  failures the code keeps (see false_failure).
* `RecordsAgree`: execution, proposal, outbox event and audit trail of an outcome.
* `StatesAreTrue` (scans): published means queued, sent means sent.
* `ChangesAreAudited` (stores): the chain has one event for each version of a profile,
  in their order, the first its creation, and each update with the capacity the row then
  had (`TrailMatchesProfiles`); the prior capacity an update names is the one it replaced
  (`PriorIsTrue`, but for guesses). What a profile was created with is not in the chain
  until an update names it as prior.
* `HistoryExplainsChanges`: an event of the progress history is dated by the
  update that brought it, and has its snapshot. `EvidenceIsFaithful`: a snapshot
  shows its observation time, `get_at` nothing later, and a result belongs to the
  evidence it scored.
* `SignalsAreTrue`: each row of a comment tells what the comment said when it was read,
  also if it was edited before the row was stored (`RowsTellTheirVersion`); the rows in the
  order of their reading follow the edits (`RowsFollowEdits`); one observation is one row
  (`RowsAreUnique`).
* `ChatIsUnderControl`: contexts keep the projects apart, the running chat owns
  the controller.
* `AnswersAddressTheQuestion` (services): a follow-up keeps the tasks it refers
  to, required tasks are those asked for, an eligible candidate is never hidden.
  `LimitsAreKept`: tool calls, and no work that prepares a write explained while its
  specialist is unavailable or from what the core tool makes of it.
  `AnswersAreSound`: an answer that states no uncertainty names nothing unknown, leaves
  out nothing its evidence requires and misstates nothing that was checked
  (`SilentAnswersAreGrounded`, which says what a repaired answer is not checked for), and a
  call takes at most two rounds of texts from the model, under `persistent_retry` too
  (`RepliesAreBounded`; silence is not bounded). `RequestsEnd`: every question comes to its
  explanation or ends, and ends if a deadline is configured; a call of the adapter ends,
  if Bedrock answers a persistent one at last.

The others, one by one: `OneDecision`, `DecisionExplainsState` and
`VersionIdentifiesState` (a version a manager holds never matches another state);
`IInv` and `LifecycleSpec`; `ETagIdentifiesAlert`, `RecurrenceIsRecorded`,
`EscalationIsAnnounced`, `TransitionsAreLegal`; `WindowScannedOnce`,
`CompletedIsCovered`, `ScanFinishes`, `DuplicatesSendOnce`, `AlertIsEmailed`;
`ChainVerifies`, `AcceptedIsComplete` (also after appends to a damaged table),
`LinksMatchChecksum`, `GapsAreWithinConfidence`,
`SimulationsAreSound`, `ScoreFollowsTheSituation`, `AccessIsRecent`,
`RequestsAreLimited`, `ContextsMoveForward`; `TimeoutsAreContained`,
`ReadersAgree`, `ReadsRecover`. Each is stated in words at its definition.

Bounds. Two of a kind of process is where each race in the code shows: every
check is between a row and one competitor, and what a third competitor meets is
a row already changed. One crash separates any two steps of a saga; a second
one only meets a process that holds no more than the first. One proposal is
enough for `reassignment` because executions of different proposals meet only
in Jira, where `SomeoneEdits` does anything another execution could do; the
proofs remove this and, where there is a proof, every other bound. `MaxVersion`
of Alerts stops new evidence at the third version of an alert, enough for
create, escalate and reopen; managers and low results go on from there.
`MaxChats` of 3 lets a chat be overtaken twice; two calls of the adapter let the
second meet the circuit the first left. Circuit thresholds and reset times are
scaled down (2 failures and 2 ticks in `JiraReads`): they are compared, never
added. `MaxTtl`, `MaxSeq`, `MaxChanges`, `MaxWeek`, `MaxTime`, `LastTick`, `MaxObjects`,
`MaxValue`, `MaxLag`, `MaxCopies`, `MaxFailures`, `MaxCrashes`, `MaxDeaths`, `MaxRetries`
and `MaxDay` are bounds too; `MaxAttempts` is the publisher's `max_attempts`,
`MaxReceives` stands for the queue's receive count of 5, `Allowed`, `WindowTicks`
and `MaxWindows` for the limiter's policy and its 10,000. Symmetry is used only in runs
without liveness. CHECK_DEADLOCK is off where the bounded system legitimately
comes to rest.

Fairness. `liveness` and `starvation`: the clock ticks, and a reconciler that holds
claims reads and resolves them (the worker is meant to be run periodically, though
`infra/` schedules no such job, and has no other work); leasing is strongly fair for a
batch out of all leasable rows, because a row may be locked at one run but not at every
run. Callers, managers and Jira owe nothing. `scans`: a process that does not die goes
on (`SFairness`); the external loops keep publishing and consuming, and SQS accepts a
message some time (`DeliveryFairness`); `uncertain_notice` assumes the same. `services`:
the nodes before the explanation come to an end (`BoundedStep` in `WorkflowFairness`):
the plan is asked for under `wait_for`, the clients of Jira and of the scoring tool have
timeouts, the database answers or fails. Of the explanation nothing is assumed there,
since `persistent_retry`, the deployed setting, loops while Bedrock is silent
(`A/llm/bedrock.py:370`), only that a deadline passes where one is configured. Calls of
Jira end too (`CallFairness`), and somebody goes on reading. In the adapter an
invocation is answered or times out, and a persistent repair, and it alone, is answered
at last (`ExplanationFairness`).

## Promises the code does not keep

* `false_failure`: `resolve` trusts the `write_attempted` read at lease time
  (`P/execution_repository.py:289`); a slow caller marks and edits in between,
  and the execution is stored as failed although the assignee changed.
* `starvation`: the batch is the oldest rows (`P/execution_repository.py:210`)
  and undecidable rows go back to uncertain, so a younger abandoned execution
  behind a full batch of them stays executing. `liveness` holds because its one
  execution always fits the batch.
* `vanishing`: a message received while its delivery is `sending` is
  acknowledged (`N/delivery_store.py:24`, `N/worker.py:41`); if that send then
  fails, no message is left for a retry or for the dead-letter queue.
* `uncertain_notice`: the worker reads `alert_id` (`N/worker.py:48`), which the
  event of an uncertain execution has not; the manager is never told.
* `wrong_history`: `readJson` (`A/web/static/chat.js:25`) turns the abort of a chat
  whose body is being read into an error of its own, so a switch of the project
  leaves an error message in the history of the project switched to.

## Proofs

Each module proves an inductive invariant, one lemma per action (a shared lemma
where several actions change the same thing), and from it the theorems. Every
invariant and every action property of the runs is the statement of a theorem.

`ProposalsProofs` – `PInv`: types, decisions unique by proposal and by key, each
state explained, a command that still has the current version was made for the
current state, the trail replays, and what proposals and commands inherit from
simulations and proposals (`PSims`, `PCommands`).

`ReassignmentProofs` – the safety properties are not inductive: that Jira is
edited once needs that one call at most holds an execution, and where each call
stands (`ICalls`); that failures are real needs what a claim still knows
(`IClaims`) and which calls can still write (`IFailures`); that outcomes are true
needs the history of the assignee (`IRows`, `IEdits`). `IInv` is their
conjunction. `SagaImplementsLifecycle` maps every step to a step of
`ProposalLifecycle` or a stutter, using `IInv`. Proposal steps preserve `PInv` by
the first module.

`AuditChainProofs` – `AInv`: the numbers of the committed rows have no gap and every
waiting row continues some committed row, so the only number still free is the
one that continues the newest row (`CommittedIsNext`). `ChainVerifies` follows for
`ASpec`, in which nothing damages the table. For `DamageSpec`, where any row may be
altered and any but the last be lost between any two steps, `AcceptedIsComplete`
needs no induction along the chain: `DamageInv` says that rows in the table are
written rows but for their payload (`RowsAreFaithful`), that its end stays
(`TheEndStays`), and that where two rows were written with one number, what
continues the first does not continue the second (`LossShows`). A table
`verify_chain` accepts then holds written rows with numbers from 1 to its length
(`VerifiedNumbersHaveNoGap`), and none of them can be the wrong one of two.

`ProfilesProofs` – `ProfilesInv` adds to `AInv` that `capacities` has a capacity for
every version and ends with that of the row, that one transaction holds a row and
finds it as expected until it commits (`RowsAreHeld`), that a waiting event is that
of its own request, that answered versions have been reached, and that a caller
who does not guess has read the capacity it replaces or will be refused
(`PriorIsRead`). The last is what makes the unlocked read harmless. The commit uses
`CommittedIsNext`: a change is later in the chain than all before it.

`NotificationsProofs` – `NInv`: where each message, publisher and worker stands, and
what a delivery row lets one conclude about them.

`ScansProofs` – alerts first: `AlertsInv`, what a PATCH was shown is no newer than the
row, what it loaded is the state it was shown, and its update is legal from there; no
event is of a version its alert has not reached. Then `ScansInv`: a request that works
has a running run, and no other has it (`RunsAreHeld`); before that the window is
untouched; what it has stored is what its position in the list says
(`ProgressIsCovered`).

`ServicesProofs` – what requests and answers rest on:

* `ClientInv`: only the last chat sent runs, and it is about the selected project
  (`LastChatRuns`); all else follows from that.
* `LimiterInv`: the requests an open window counts are the last ones admitted, and
  those before it that are still young are no more than one window has
  (`InWindow`); without an open window nothing was admitted since the last one
  (`NoWindow`). Tidying removes only windows that say nothing any more.
* `AccessInv`: what a transaction has read was good when it read it
  (`ReadsAreRecent`), what the cache remembers was good a transaction before it was
  written (`CacheIsRecent`): the bound is the sum of both.
* `WorkflowInv`: what each node of the graph may take for granted of the request
  (`InGraph`): the calls made and left, the specialists that agreed, the plan made
  from the question; and that the context the caller holds names the tasks of the
  answer before (`ContextOK`). `RankingInv` ties the ranking to the project the
  evidence shows. That the first candidate is an eligible one if there is any rests
  on the keys being ordered (a total order of tuples), and on a finite set having a
  sorted sequence and a smallest element.
* `CallInv`: in each phase of a call, how many texts of the model its attempts admit; a
  repair starts with at most one round of them and takes at most one more.
* `CircuitInv`: the counter knows every timeout while the circuit is closed
  (`CounterKnows`), none is later than its opening (`NothingSinceOpening`).
* `ReadersAgree` needs only what an issue may be and that the two days of the readers
  are in order (`ProjectOK`), with `SoonDays` a natural number.

`StoresProofs` – the tables and the tools that share no row:

* `ReportsInv`: object versions never change, and an attempt that has uploaded
  (`UploadsOK`), the row, and the row as a list showed it (`ReportRowOK`, `ShownOK`)
  hold version and checksum of one object; a link names a version that is there
  (`LinkOK`).
* `EvidenceInv`: every observation in progress and every snapshot shows the employee at
  a time that has come (`StoringOK`, `SnapshotsOK`), and a writer that found its
  fingerprint still finds it (`FoundOK`).
* `CommentInv`: the comment is the newest of its versions (`VersionsOK`), and every
  observation a call holds (`CallsOK`) and every row (`SignalsOK`) is of the version
  that stood when it was read.
* `ProgressInv`: a current row and a row a build has loaded hold columns of several
  observations, but each is a state the issue has been in and has its snapshot
  (`CurrentOK`, `LoadedOK`).
* `ScoringInv`: every result kept has the level that goes with its score. Coverage and
  score are sums over any finite set of factors. The community modules define a sum by
  recursion over the subsets of its domain, and the library's induction theorems take an
  operator, so the module proves induction for itself: a set of numbers has a least
  element (`LeastElement`, from the well-foundedness of <), hence induction for sets of
  numbers and for the subsets of a finite set, hence that the recursive function exists
  (`SumsExist`) and that terms which compare, each with its part of another sum, have
  sums that compare (`SumsCompare`): what a missing factor could add is at most its
  weight. `ScoreFollowsTheSituation` adds that caps, protective factors, division and
  rounding each keep the order.

Assumptions: only the ASSUMEs of the modules, which TLC evaluates on the instances
of the runs: positive bounds and sensible constants; finitely many proposals, employees,
skills, categories and factors; a list of the employees that holds them all
(`EvidenceAssumption`), a scan list that is not empty, capacities and workloads that
are numbers (`WorkflowAssumption`), issues that have some content (`JiraReadsAssumption`);
weights that are positive and add up to 100 with caps that are positive, as
`load_scoring_config` and its models demand (`ScoringAssumption`).

What the proofs changed in the model. Two attempts failed because a formula was wrong,
not the code, and one definition could not be reasoned about:

* `AcceptedIsComplete` fails for a table in which two transactions that are open at
  once append the same event; the code's row locks exclude that
  (`P/execution_repository.py:54`, `:118`, `:276`, `P/proposal_repository.py:171`,
  `P/alert_repository.py:162` and the conditional update of profiles), which `DamageSpec`
  now says (`PayloadsDiffer`).
* `RequiredTasksWereAsked` was false for questions that ask for two kinds of tasks at
  once, which no instance had: `A/evidence/focus.py` takes one kind. It now speaks of
  questions for one kind (`AsksOneKind`).
* The ranking of candidates and the riskiest tasks were recursive or folded; they are
  now the sorted sequence, and a set of the first few, that the code's `sort` gives.

Only model-checked: the four liveness properties `ExecutingIsLeft`, `ScanFinishes`,
`AlertIsEmailed`, `RequestsEnd` and the recovery of reads `ReadsRecover`. They follow
from fairness, whose definition needs ENABLED, which the prover cannot reason about. The
runs that expect a violation are counterexamples and have nothing to prove.

## Observations

Behaviour met while modelling that no document or test of the repository speaks
about, or that no state of the models shows:

* a project with more issues than one page makes every reader fail
  (`J/normalize.py:294`); in the model such a read never succeeds, and
  `ReadsRecover` excludes it;
* a correlation id is refused for ever once used, also when its first use failed
  (`W/tools/score_overload.py:51`);
* the two reads of an evidence bundle are not one snapshot of Jira
  (`A/dependencies.py:193`);
* a low result resolves an alert, and the same high evidence as before leaves it
  resolved (`P/alert_repository.py:101`);
* a task that returns to an earlier state within a week repeats a fingerprint, and
  the batch that holds it is not recorded (`P/progress_repository.py:286`);
* snapshots of an employee in another project make the historical reader report a
  scope mismatch, and it may compare a snapshot with itself
  (`A/historical_evidence.py:70`, `:55`);
* a success that arrives late leaves the model circuit open (`A/llm/bedrock.py:463`);
* a capacity of 0 hours and a raw `TimeoutError` reach the client as a server error
  (`A/routes/dashboard.py:66`, `A/routes/risks.py:55`); an unsupported question in
  fixture mode ends in an AssertionError (`A/routes/investigations.py:357`), and an
  `OSError` of Jira is reported as one of Bedrock (`:371`);
* a score of 0 is sorted with the employees that have none (`A/dashboard/service.py:109`);
* two loads of the dashboard may be shown in the wrong order (`A/web/static/chat.js:319`).

## Plan

Done: the core (proposals, executions, audit, notifications, alerts, scans), every
table and service above, and a proof of every safety property that a run checks.
Left, in this order: an abstract specification of the outbox (an event is sent
at most once and its state never goes back) that `Notifications` implements, with
the refinement proved as for `ProposalLifecycle`; one of a scan run for `Scans`; the
abstraction of `Scoring` to floating-point coverage at its boundary
(`D/scoring/overload.py:38`).

## Not modelled

* Scoring versions (`P/models.py`): a table nothing outside the tests writes or reads.
* The devops MCP server: each tool runs one command and returns its text.
* Infrastructure and scripts, but for the queue's visibility timeout and receive count.
* How prose is read: which phrase a question contains, which defect a sentence has,
  and the size of a prompt in tokens.
* Layout and wording: tables, messages, the drawing of the dashboard; `transport.py`,
  which opens a connection per call.
* `mark_unavailable` of comments (`D/comments/lifecycle.py`): no caller. `from_signal` of the
  same file is part of `Signal`.
* Authorisation by role inside a tool is a guard no other step can change.
* `SimulationRepository.persist` has no caller in production code; it is modelled as
  the only source of the rows proposals are made from.
