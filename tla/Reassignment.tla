---------------------------- MODULE Reassignment ----------------------------
(***************************************************************************)
(* The execution of approved reassignments and its reconciliation, composed *)
(* with Proposals and with Jira:                                            *)
(*   packages/persistence/.../execution_repository.py                       *)
(*   domain/workforce_risk/proposals/execution.py, reconciliation.py        *)
(*   packages/jira-mcp-client/.../mutation.py                               *)
(*   services/workforce-risk-mcp/.../server.py, workers/reconcile.py        *)
(*                                                                         *)
(* Callers run execute_reassignment; reconcilers run the worker's run_once  *)
(* or the manager's run_proposal.  No database transaction is open while    *)
(* Jira is called, so every transaction and every Jira call is a step of    *)
(* its own, and a process may die between any two of them.                  *)
(***************************************************************************)
EXTENDS Proposals, FiniteSets

CONSTANTS Caller,         \* concurrent execute_reassignment calls
          Reconciler,     \* reconciliation processes
          Limit,          \* executions one run_once leases (20 in the worker)
          AbandonedAfter, \* ticks until an execution counts as abandoned
          LeaseDuration,  \* ticks a lease protects an execution
          MaxCrashes      \* bound: processes that die in a behaviour

ASSUME ExecutionAssumption ==
    /\ Limit \in Nat \ {0}
    /\ AbandonedAfter \in Nat
    /\ LeaseDuration \in Nat
    /\ MaxCrashes \in Nat
    /\ IsFiniteSet(Proposal)

Unassigned == "unassigned"

ASSUME UnassignedAssumption == Unassigned \notin Account

\* A lease age that no longer protects: leased_at is null, or older than
\* LeaseDuration.  No comparison in the code tells the two apart.
NoLease == LeaseDuration + 1

VARIABLES exec,      \* exec[p].state: ProposalExecution.state, Absent without a row
          age,       \* age[p]: ticks since the row's created_at, up to the cutoff
          lease,     \* lease[p]: ticks since leased_at, up to NoLease
          outbox,    \* proposals with an uncertain-execution outbox event
          calling,   \* calling[c]: where call c of execute_reassignment is
          claims,    \* claims[r]: the claims reconciler r has yet to resolve
          assignee,  \* assignee[i]: the assignee of issue i in Jira
          edit,      \* edit[p]: what became of p's editJiraIssue request
          edits,     \* edits[p]: editJiraIssue requests ever sent for p
          reached,   \* proposals whose target has been the assignee since prepare
          crashes    \* processes that have died so far

evars == <<exec, age, lease, outbox, calling, claims, assignee, edit, edits,
           reached, crashes>>
vars == <<pvars, evars>>

\* state, write_attempted and result["write_attempted"] of the execution row;
\* rank is the place of its created_at among the rows.
NoRow == [state |-> Absent, write_attempted |-> FALSE, recorded |-> FALSE, rank |-> 0]
Row == [state : States \cup {Absent}, write_attempted : BOOLEAN,
        recorded : BOOLEAN, rank : Nat]

Idle == [at |-> "idle", proposal |-> "none", result |-> "none"]
Working(p, at) == [at |-> at, proposal |-> p, result |-> "none"]
Holding(p, r) == [at |-> "finalize", proposal |-> p, result |-> r]

Results == {"none", EXECUTED_VERIFIED, EXECUTION_FAILED, UNCERTAIN, STALE}
Calling == [at : {"prepare", "mark", "read", "edit", "sent", "verify", "finalize"},
            proposal : Proposal, result : Results] \cup {Idle}

Claim == [proposal : Proposal, write_attempted : BOOLEAN,
          verdict : {"unread", EXECUTED_VERIFIED, EXECUTION_FAILED, UNCERTAIN}]

EInit ==
    /\ exec = [p \in Proposal |-> NoRow]
    /\ age = [p \in Proposal |-> 0]
    /\ lease = [p \in Proposal |-> NoLease]
    /\ outbox = {}
    /\ calling = [c \in Caller |-> Idle]
    /\ claims = [r \in Reconciler |-> {}]
    /\ assignee \in [Issue -> Account]
    /\ edit = [p \in Proposal |-> "none"]
    /\ edits = [p \in Proposal |-> 0]
    /\ reached = {}
    /\ crashes = 0

Init == PInit /\ EInit

jira == <<assignee, edit, edits, reached>>
others == <<stored, sim, ttl, evidence, decisions, deciding>>

----------------------------------------------------------------------------
(* DatabaseExecutionStore and ReassignmentExecutionService.execute           *)

Rows == {p \in Proposal : exec[p].state # Absent}

StoreOutcome_ExecutionOnly(p, row, prior) ==
    /\ exec' = [exec EXCEPT ![p] = row]
    /\ UNCHANGED state
    /\ version' = [version EXCEPT ![p] = @ + 1]
    /\ trail' = [trail EXCEPT ![p] = Append(@, <<prior, row.state>>)]
    /\ outbox' = IF row.state = UNCERTAIN THEN outbox \cup {p} ELSE outbox

\* The two writes of every outcome: execution and proposal rows move together,
\* the version goes up, the audit event is appended, and an uncertain outcome
\* leaves an event for the manager (the outbox keeps one per execution).
StoreOutcome(p, row, prior) ==
    /\ exec' = [exec EXCEPT ![p] = row]
    /\ state' = [state EXCEPT ![p] = row.state]
    /\ version' = [version EXCEPT ![p] = @ + 1]
    /\ trail' = [trail EXCEPT ![p] = Append(@, <<prior, row.state>>)]
    /\ outbox' = IF row.state = UNCERTAIN THEN outbox \cup {p} ELSE outbox

\* prepare, the unlocked lookup.  A call that finds an execution returns its
\* result and changes nothing, so only the call that finds none goes on.
PrepareLookup(c, p) ==
    /\ calling[c] = Idle
    /\ p \notin Rows
    /\ calling' = [calling EXCEPT ![c] = Working(p, "prepare")]
    /\ UNCHANGED <<pvars, exec, age, lease, outbox, claims, jira, crashes>>

PrepareAdmissible_NotUnique(p) == state[p] = EXECUTING

PrepareAdmissible_Pending(p) == state[p] \in {PENDING, EXECUTING} /\ p \notin Rows

\* prepare, under the proposal's row lock.  uq_execution_env_proposal refuses a
\* second row for the proposal.  The audit event it appends has no prior_state.
PrepareAdmissible(p) == state[p] = EXECUTING /\ p \notin Rows

PrepareInsert(c) ==
    LET p == calling[c].proposal
    IN  /\ calling[c].at = "prepare"
        /\ PrepareAdmissible(p)
        /\ exec' = [exec EXCEPT ![p] =
                      [state |-> EXECUTING, write_attempted |-> FALSE,
                       recorded |-> FALSE, rank |-> Cardinality(Rows) + 1]]
        /\ age' = [age EXCEPT ![p] = 0]
        /\ calling' = [calling EXCEPT ![c] = Working(p, "mark")]
        /\ reached' = IF assignee[sim[p].task] = sim[p].proposed
                      THEN reached \cup {p} ELSE reached
        /\ trail' = [trail EXCEPT ![p] = Append(@, <<Absent, EXECUTING>>)]
        /\ UNCHANGED <<others, state, version, lease, outbox, claims, assignee, edit, edits,
                       crashes>>

\* The lock holder finds the proposal not executing, or a row inserted since.
PrepareRefused(c) ==
    /\ calling[c].at = "prepare"
    /\ ~PrepareAdmissible(calling[c].proposal)
    /\ calling' = [calling EXCEPT ![c] = Idle]
    /\ UNCHANGED <<pvars, exec, age, lease, outbox, claims, jira, crashes>>

\* mark_write_attempted raises when the execution is no longer executing.
MarkWriteAttempted(c) ==
    LET p == calling[c].proposal
    IN  /\ calling[c].at = "mark"
        /\ IF exec[p].state = EXECUTING
           THEN /\ exec' = [exec EXCEPT ![p].write_attempted = TRUE,
                                        ![p].recorded = TRUE]
                /\ calling' = [calling EXCEPT ![c] = Working(p, "read")]
           ELSE /\ calling' = [calling EXCEPT ![c] = Idle]
                /\ UNCHANGED exec
        /\ UNCHANGED <<pvars, age, lease, outbox, claims, jira, crashes>>

\* JiraAssigneeMutationClient.execute: the precondition read.
ReadPrecondition(c) ==
    LET p == calling[c].proposal
    IN  /\ calling[c].at = "read"
        /\ \/ calling' = [calling EXCEPT ![c] = Holding(p, EXECUTION_FAILED)]
           \/ /\ assignee[sim[p].task] # sim[p].current
              /\ calling' = [calling EXCEPT ![c] = Holding(p, STALE)]
           \/ /\ assignee[sim[p].task] = sim[p].current
              /\ calling' = [calling EXCEPT ![c] = Working(p, "edit")]
        /\ UNCHANGED <<pvars, exec, age, lease, outbox, claims, jira, crashes>>

SendEdit(c) ==
    LET p == calling[c].proposal
    IN  /\ calling[c].at = "edit"
        /\ edit' = [edit EXCEPT ![p] = "inflight"]
        /\ edits' = [edits EXCEPT ![p] = @ + 1]
        /\ calling' = [calling EXCEPT ![c] = Working(p, "sent")]
        /\ UNCHANGED <<pvars, exec, age, lease, outbox, claims, assignee, reached,
                       crashes>>

\* What the call sees of its request: an exception (at any moment, whatever
\* becomes of the request), a response with status error, or success.
EditReturns(c) ==
    LET p == calling[c].proposal
    IN  /\ calling[c].at = "sent"
        /\ \/ calling' = [calling EXCEPT ![c] = Holding(p, UNCERTAIN)]
           \/ /\ edit[p] = "rejected"
              /\ calling' = [calling EXCEPT ![c] = Holding(p, EXECUTION_FAILED)]
           \/ /\ edit[p] = "applied"
              /\ calling' = [calling EXCEPT ![c] = Working(p, "verify")]
        /\ UNCHANGED <<pvars, exec, age, lease, outbox, claims, jira, crashes>>

\* The read-back: an exception and any other assignee are both uncertain.
ReadBack(c) ==
    LET p == calling[c].proposal
    IN  /\ calling[c].at = "verify"
        /\ \/ calling' = [calling EXCEPT ![c] = Holding(p, UNCERTAIN)]
           \/ /\ assignee[sim[p].task] = sim[p].proposed
              /\ calling' = [calling EXCEPT ![c] = Holding(p, EXECUTED_VERIFIED)]
        /\ UNCHANGED <<pvars, exec, age, lease, outbox, claims, jira, crashes>>

\* finalize leaves an execution that somebody else has resolved alone.
Finalize(c) ==
    LET p == calling[c].proposal
        result == calling[c].result
    IN  /\ calling[c].at = "finalize"
        /\ IF exec[p].state = EXECUTING
           THEN /\ validate_transition(state[p], result)
                /\ StoreOutcome(p, [exec[p] EXCEPT !.state = result,
                                       !.recorded = exec[p].write_attempted],
                                EXECUTING)
           ELSE UNCHANGED <<exec, state, version, trail, outbox>>
        /\ calling' = [calling EXCEPT ![c] = Idle]
        /\ UNCHANGED <<others, age, lease, claims, jira, crashes>>

----------------------------------------------------------------------------
(* DatabaseReconciliationStore and ReconciliationService                     *)

Open_UncertainOnly == {UNCERTAIN}

Open == {EXECUTING, UNCERTAIN}

Leasable ==
    {p \in Rows : /\ exec[p].state \in Open
                  /\ age[p] >= AbandonedAfter
                  /\ lease[p] > LeaseDuration}

\* ORDER BY created_at LIMIT n
Oldest(S, n) ==
    {p \in S : Cardinality({q \in S : exec[q].rank < exec[p].rank}) < n}

ClaimOn(p) == [proposal |-> p, write_attempted |-> exec[p].write_attempted,
               verdict |-> "unread"]

\* run_once leases a batch out of the rows that no open transaction has locked
\* (SKIP LOCKED).  lease_owner is stored too but nothing reads it.
LeaseBatch(r, unlocked) ==
    LET batch == Oldest(unlocked, Limit)
    IN  /\ claims[r] = {}
        /\ batch # {}
        /\ lease' = [p \in Proposal |-> IF p \in batch THEN 0 ELSE lease[p]]
        /\ claims' = [claims EXCEPT ![r] = {ClaimOn(p) : p \in batch}]
        /\ UNCHANGED <<pvars, exec, age, outbox, calling, jira, crashes>>

LeaseAbandoned(r) == \E unlocked \in SUBSET Leasable : LeaseBatch(r, unlocked)

\* run_proposal: a manager takes an uncertain execution, leased or not.
LeaseProposal(r, p) ==
    /\ claims[r] = {}
    /\ exec[p].state = UNCERTAIN
    /\ lease' = [lease EXCEPT ![p] = 0]
    /\ claims' = [claims EXCEPT ![r] = {ClaimOn(p)}]
    /\ UNCHANGED <<pvars, exec, age, outbox, calling, jira, crashes>>

\* Claims are worked off in the order of the batch.
Current(r, k) ==
    /\ k \in claims[r]
    /\ \A j \in claims[r] : exec[k.proposal].rank <= exec[j.proposal].rank

Verdict_IgnoresAttempt(k, observed) ==
    IF observed = sim[k.proposal].proposed THEN EXECUTED_VERIFIED
    ELSE IF observed = sim[k.proposal].current THEN EXECUTION_FAILED
    ELSE UNCERTAIN

Verdict_AnyChange(k, observed) ==
    IF observed # sim[k.proposal].current THEN EXECUTED_VERIFIED
    ELSE IF ~k.write_attempted THEN EXECUTION_FAILED
    ELSE UNCERTAIN

\* _reconcile on what it observed; a failed read observes None.
Verdict(k, observed) ==
    IF observed = sim[k.proposal].proposed THEN EXECUTED_VERIFIED
    ELSE IF observed = sim[k.proposal].current /\ ~k.write_attempted
         THEN EXECUTION_FAILED
    ELSE UNCERTAIN

ReadAssignee(r) ==
    \E k \in claims[r], observed \in Account \cup {Unassigned} :
        /\ Current(r, k)
        /\ k.verdict = "unread"
        /\ observed \in {assignee[sim[k.proposal].task], Unassigned}
        /\ claims' = [claims EXCEPT ![r] =
              (@ \ {k}) \cup {[k EXCEPT !.verdict = Verdict(k, observed)]}]
        /\ UNCHANGED <<pvars, exec, age, lease, outbox, calling, jira, crashes>>

\* resolve: nothing to do when the execution is already in that state (the
\* lease stays) or resolved otherwise.
ResolveAdmissible(k) ==
    /\ exec[k.proposal].state # k.verdict
    /\ exec[k.proposal].state \in Open

Resolve(r) ==
    \E k \in claims[r] :
        LET p == k.proposal
        IN  /\ Current(r, k)
            /\ k.verdict # "unread"
            /\ IF ResolveAdmissible(k)
               THEN /\ validate_transition(state[p], k.verdict)
                    /\ StoreOutcome(p, [exec[p] EXCEPT !.state = k.verdict,
                                           !.recorded = k.write_attempted],
                                    exec[p].state)
                    /\ lease' = [lease EXCEPT ![p] = NoLease]
               ELSE UNCHANGED <<exec, state, version, trail, outbox, lease>>
            /\ claims' = [claims EXCEPT ![r] = @ \ {k}]
            /\ UNCHANGED <<others, age, calling, jira, crashes>>

----------------------------------------------------------------------------
(* Failures: a process dies, or its current transaction or guard raises      *)
(* (a lost connection, a collision on the audit sequence, the environment    *)
(* and project guard of the mutation client).  The call or run ends there.   *)

CallerFails(c) ==
    /\ calling[c] # Idle
    /\ crashes < MaxCrashes
    /\ crashes' = crashes + 1
    /\ calling' = [calling EXCEPT ![c] = Idle]
    /\ UNCHANGED <<pvars, exec, age, lease, outbox, claims, jira>>

ReconcilerFails(r) ==
    /\ claims[r] # {}
    /\ crashes < MaxCrashes
    /\ crashes' = crashes + 1
    /\ claims' = [claims EXCEPT ![r] = {}]
    /\ UNCHANGED <<pvars, exec, age, lease, outbox, calling, jira>>

----------------------------------------------------------------------------
(* Jira: requests arrive late, are refused or are lost, and people edit the  *)
(* issue by hand.                                                            *)

Reaching(i, a) ==
    {p \in Rows : sim[p].task = i /\ sim[p].proposed = a}

ApplyEdit(p) ==
    /\ edit[p] = "inflight"
    /\ edit' = [edit EXCEPT ![p] = "applied"]
    /\ assignee' = [assignee EXCEPT ![sim[p].task] = sim[p].proposed]
    /\ reached' = reached \cup Reaching(sim[p].task, sim[p].proposed)
    /\ UNCHANGED <<pvars, exec, age, lease, outbox, calling, claims, edits, crashes>>

DropEdit(p) ==
    /\ edit[p] = "inflight"
    /\ edit' \in {[edit EXCEPT ![p] = "rejected"], [edit EXCEPT ![p] = "lost"]}
    /\ UNCHANGED <<pvars, exec, age, lease, outbox, calling, claims, assignee, edits,
                   reached, crashes>>

SomeoneEdits(i) ==
    \E a \in (Account \cup {Unassigned}) \ {assignee[i]} :
        /\ assignee' = [assignee EXCEPT ![i] = a]
        /\ reached' = reached \cup Reaching(i, a)
        /\ UNCHANGED <<pvars, exec, age, lease, outbox, calling, claims, edit, edits,
                       crashes>>

\* One tick of the clock.  Ages stop where no comparison can tell them apart.
Older(n, cap) == IF n < cap THEN n + 1 ELSE cap

Tick ==
    /\ ExpiryTick
    /\ age' = [p \in Proposal |-> IF p \in Rows THEN Older(age[p], AbandonedAfter)
                                               ELSE age[p]]
    /\ lease' = [p \in Proposal |-> Older(lease[p], NoLease)]
    /\ <<ttl, age, lease>>' # <<ttl, age, lease>>
    /\ UNCHANGED <<stored, state, version, sim, evidence, decisions, deciding, trail,
                   exec, outbox, calling, claims, jira, crashes>>

----------------------------------------------------------------------------

Call(c) ==
    \/ \E p \in Proposal : PrepareLookup(c, p)
    \/ PrepareInsert(c) \/ PrepareRefused(c) \/ MarkWriteAttempted(c)
    \/ ReadPrecondition(c) \/ SendEdit(c) \/ EditReturns(c) \/ ReadBack(c)
    \/ Finalize(c)

Reconcile(r) ==
    \/ LeaseAbandoned(r)
    \/ \E p \in Proposal : LeaseProposal(r, p)
    \/ ReadAssignee(r) \/ Resolve(r)

SagaStep ==
    \/ \E c \in Caller : Call(c) \/ CallerFails(c)
    \/ \E r \in Reconciler : Reconcile(r) \/ ReconcilerFails(r)
    \/ \E p \in Proposal : ApplyEdit(p) \/ DropEdit(p)
    \/ Tick

ProposalStep == PStep /\ UNCHANGED evars

Next ==
    \/ ProposalStep
    \/ SagaStep
    \/ \E i \in Issue : SomeoneEdits(i)

Spec == Init /\ [][Next]_vars

----------------------------------------------------------------------------
(* Properties                                                               *)

\* Every variable has the type of its column, request or message.
TypeOK ==
    /\ PTypeOK
    /\ exec \in [Proposal -> Row]
    /\ age \in [Proposal -> 0..AbandonedAfter]
    /\ lease \in [Proposal -> 0..NoLease]
    /\ outbox \subseteq Proposal
    /\ calling \in [Caller -> Calling]
    /\ claims \in [Reconciler -> SUBSET Claim]
    /\ assignee \in [Issue -> Account \cup {Unassigned}]
    /\ edit \in [Proposal -> {"none", "inflight", "applied", "rejected", "lost"}]
    /\ edits \in [Proposal -> Nat]
    /\ reached \subseteq Proposal
    /\ crashes \in 0..MaxCrashes

\* The execution row and its proposal never disagree, whoever resolves it:
\* finalize and resolve write both under both locks, and decide cannot touch a
\* proposal that has an execution.
ExecutionMatchesProposal ==
    \A p \in Rows : exec[p].state = state[p]

\* Jira is asked at most once per proposal to change the assignee, whatever
\* calls race and whatever crashes ("Call Jira MCP once").
EditOnce == \A p \in Proposal : edits[p] <= 1

\* Write-ahead: whenever a request may have reached Jira, the row already says
\* so, for every reader that leases it from then on.
EditIsAnnounced ==
    \A p \in Proposal :
        edit[p] # "none" => p \in Rows /\ exec[p].write_attempted

\* Nothing is written without a manager's approval that is on record.
EditIsApproved ==
    \A p \in Proposal :
        edits[p] > 0 => \E d \in decisions : d.proposal = p /\ d.decision = "approve"

\* executed_verified is never a guess: the proposed account has been the
\* issue's assignee at some moment since the execution was prepared.
VerifiedWasReached ==
    \A p \in Rows : exec[p].state = EXECUTED_VERIFIED => p \in reached

\* A stale execution wrote nothing.
StaleWroteNothing ==
    \A p \in Rows : exec[p].state = STALE => edits[p] = 0

\* A recorded failure is a real one unless the row gives itself away: when the
\* stored result and the write_attempted column agree, Jira neither made nor
\* will make the change.
ConsistentFailureIsReal ==
    \A p \in Rows :
        exec[p].state = EXECUTION_FAILED /\ exec[p].recorded = exec[p].write_attempted
            => edit[p] \notin {"inflight", "applied"}

\* Every uncertain execution has told the manager: it has an outbox event.
UncertainIsReported ==
    \A p \in Proposal : state[p] = UNCERTAIN => p \in outbox

\* The single Jira edit (execute of mutation.py behind prepare and
\* mark_write_attempted): it is sent once, after the row announces it, and only
\* for an approved proposal, whatever races, crashes or is retried.
EditsAreSafe == EditOnce /\ EditIsAnnounced /\ EditIsApproved

\* What finalize and resolve store is what happened in Jira: a verified execution
\* reached its account, a stale one sent nothing, and a failure whose two marks
\* of the write agree is a real one.
OutcomesAreTrue == VerifiedWasReached /\ StaleWroteNothing /\ ConsistentFailureIsReal

\* finalize and resolve write four records of one outcome: the execution, the
\* proposal, the outbox event of an uncertain one and the audit trail.  They tell
\* the same story after any race of callers and reconcilers.
RecordsAgree == ExecutionMatchesProposal /\ UncertainIsReported /\ TrailReplays

\* The saga implements the abstract life cycle of a proposal.
Lifecycle == INSTANCE ProposalLifecycle
                WITH requested <- {p \in Proposal : edits[p] > 0}

LifecycleSpec == Lifecycle!Spec

----------------------------------------------------------------------------
(* The inductive invariant behind these properties.                          *)

Active(c) == calling[c].at \in {"mark", "read", "edit", "sent", "verify", "finalize"}

\* An execution has a proposal that was approved, and a history.
IRows ==
    \A p \in Rows :
        /\ state[p] \in {EXECUTING, EXECUTED_VERIFIED, EXECUTION_FAILED, UNCERTAIN,
                         STALE}
        /\ \E d \in decisions : d.proposal = p /\ d.decision = "approve"
        /\ assignee[sim[p].task] = sim[p].proposed => p \in reached

\* The edit request and its announcement.
IEdits ==
    \A p \in Proposal :
        /\ edits[p] = IF edit[p] = "none" THEN 0 ELSE 1
        /\ edit[p] # "none" => p \in Rows /\ exec[p].write_attempted

\* One call holds an execution, from the insert of its row to its last step.
ICalls ==
    \A c \in Caller :
        LET p == calling[c].proposal
        IN  /\ Active(c) => p \in Rows /\ exec[p].state # STALE
            /\ \A d \in Caller :
                  Active(c) /\ Active(d) /\ calling[d].proposal = p => c = d
            /\ calling[c].at \in {"mark", "read", "edit"} => edit[p] = "none"
            /\ Active(c) /\ calling[c].at # "mark" => exec[p].write_attempted
            /\ calling[c].at = "finalize" =>
                  /\ calling[c].result # "none"
                  /\ calling[c].result = EXECUTION_FAILED
                        => edit[p] \in {"none", "rejected"}
                  /\ calling[c].result = STALE => edit[p] = "none"
                  /\ calling[c].result = EXECUTED_VERIFIED => p \in reached

\* What a claim still knows of its execution.
IClaims ==
    \A r \in Reconciler : \A k \in claims[r] :
        /\ k.proposal \in Rows
        /\ k.write_attempted => exec[k.proposal].write_attempted
        /\ k.verdict = EXECUTION_FAILED => ~k.write_attempted
        /\ k.verdict = EXECUTED_VERIFIED => k.proposal \in reached

\* A failure that the row does not contradict leaves no call able to write.
IFailures ==
    \A p \in Rows :
        exec[p].state = EXECUTION_FAILED /\ exec[p].recorded = exec[p].write_attempted
            => /\ edit[p] \notin {"inflight", "applied"}
               /\ \A c \in Caller :
                     Active(c) /\ calling[c].proposal = p => calling[c].at = "mark"

\* The inductive invariant.
IInv ==
    /\ TypeOK /\ PInv
    /\ ExecutionMatchesProposal
    /\ IRows /\ IEdits /\ ICalls /\ IClaims /\ IFailures
    /\ VerifiedWasReached
    /\ StaleWroteNothing
    /\ UncertainIsReported

----------------------------------------------------------------------------
(* A statement of the documentation that the code does not meet.             *)

\* docs/plan.md: a crash "must not cause duplicate mutation or false failure";
\* docs/spec.md: "failure only when evidence proves no change".
FailureIsReal ==
    \A p \in Rows :
        exec[p].state = EXECUTION_FAILED => edit[p] \notin {"inflight", "applied"}

----------------------------------------------------------------------------
(* Liveness.  Time passes, the reconciliation worker is run again and again  *)
(* and, unless it dies, gets through its batch, and does not find rows       *)
(* locked every time; callers, managers and Jira owe nothing.                *)

Fairness ==
    /\ WF_vars(Tick)
    /\ \A r \in Reconciler :
          /\ SF_vars(LeaseBatch(r, Leasable))
          /\ WF_vars(ReadAssignee(r))
          /\ WF_vars(Resolve(r))

FairSpec == Spec /\ Fairness

\* No execution stays executing: if its caller does not finish it, the
\* reconciliation worker moves it on.
ExecutingIsLeft ==
    \A p \in Proposal : exec[p].state = EXECUTING ~> exec[p].state # EXECUTING

=============================================================================
