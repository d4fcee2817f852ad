------------------------- MODULE ReassignmentProofs -------------------------
(***************************************************************************)
(* Proofs about Reassignment: IInv is inductive for every number of         *)
(* proposals, issues, managers, callers, reconcilers, crashes, every batch  *)
(* limit and every timing, and the safety properties follow from it.        *)
(***************************************************************************)
EXTENDS Reassignment, ProposalsProofs, FiniteSetTheorems

----------------------------------------------------------------------------
(* Facts used by the proofs of several actions.                              *)

\* A call that is under way has a proposal and a result of the right types.
LEMMA CallType ==
    ASSUME TypeOK, NEW c \in Caller, calling[c].at # "idle"
    PROVE  /\ calling[c] # Idle
           /\ calling[c].proposal \in Proposal
           /\ calling[c].result \in Results
           /\ calling[c].at \in {"prepare", "mark", "read", "edit", "sent", "verify",
                                 "finalize"}
BY DEF TypeOK, Calling, Idle

\* The values that the steps of a call store are calls.
LEMMA CallValues ==
    ASSUME NEW p \in Proposal
    PROVE  /\ Idle \in Calling
           /\ \A at \in {"prepare", "mark", "read", "edit", "sent", "verify"} :
                 Working(p, at) \in Calling
           /\ \A r \in Results : Holding(p, r) \in Calling
BY DEF Calling, Working, Holding, Results

\* A proposal with an execution row has a simulation about an issue.
LEMMA RowHasSim ==
    ASSUME IInv, NEW p \in Rows
    PROVE  /\ p \in Proposal
           /\ state[p] # Absent
           /\ sim[p] \in SimData
           /\ sim[p].task \in Issue
           /\ sim[p].proposed \in Account
           /\ sim[p].current \in Account
           /\ sim[p].current # sim[p].proposed
<1>1. p \in Proposal /\ state[p] # Absent
    BY DEF IInv, IRows, Rows, Absent, EXECUTING, EXECUTED_VERIFIED, EXECUTION_FAILED,
           UNCERTAIN, STALE
<1>2. sim[p] \in SimData /\ WorthDeciding(sim[p])
    BY <1>1 DEF IInv, PInv, PSims
<1> QED BY <1>1, <1>2, SimDataAssumption DEF WorthDeciding

\* A step that moves one call, and nothing else, keeps the invariant if it keeps
\* the parts that are about calls.
LEMMA OnlyCalling ==
    ASSUME IInv,
           UNCHANGED <<pvars, exec, age, lease, outbox, claims, jira>>,
           calling' \in [Caller -> Calling],
           crashes' \in 0..MaxCrashes,
           ICalls', IFailures'
    PROVE  IInv'
<1> USE DEF IInv
<1>1. PInv'
    BY PInvClock DEF pvars, PInv, PTypeOK
<1>2. TypeOK'
    BY <1>1 DEF TypeOK, PInv, jira
<1>3. ExecutionMatchesProposal' /\ IRows' /\ IEdits'
    BY DEF ExecutionMatchesProposal, IRows, IEdits, Rows, pvars, jira
<1>4. IClaims' /\ VerifiedWasReached' /\ StaleWroteNothing' /\ UncertainIsReported'
    BY DEF IClaims, VerifiedWasReached, StaleWroteNothing, UncertainIsReported, Rows,
           pvars, jira
<1> QED BY <1>1, <1>2, <1>3, <1>4

----------------------------------------------------------------------------
(* The steps of a call of execute_reassignment.                              *)

\* The unlocked lookup starts a call that holds nothing yet.
LEMMA PrepareLookupInv ==
    ASSUME IInv, NEW c \in Caller, NEW p \in Proposal, PrepareLookup(c, p)
    PROVE  IInv'
<1>1. calling' \in [Caller -> Calling] /\ crashes' \in 0..MaxCrashes
    BY CallValues DEF IInv, TypeOK, PrepareLookup
<1>2. ICalls' /\ IFailures'
    BY DEF IInv, TypeOK, PrepareLookup, ICalls, IFailures, Active, Working, Rows, jira
<1> QED BY <1>1, <1>2, OnlyCalling DEF PrepareLookup

\* A refused call ends.
LEMMA PrepareRefusedInv ==
    ASSUME IInv, NEW c \in Caller, PrepareRefused(c)
    PROVE  IInv'
<1>1. calling' \in [Caller -> Calling] /\ crashes' \in 0..MaxCrashes
    BY DEF IInv, TypeOK, PrepareRefused, Calling
<1>2. ICalls' /\ IFailures'
    BY DEF IInv, TypeOK, PrepareRefused, ICalls, IFailures, Active, Idle, Rows, jira
<1> QED BY <1>1, <1>2, OnlyCalling DEF PrepareRefused

\* A dying process gives up its call.
LEMMA CallerFailsInv ==
    ASSUME IInv, NEW c \in Caller, CallerFails(c)
    PROVE  IInv'
<1>1. calling' \in [Caller -> Calling] /\ crashes' \in 0..MaxCrashes
    BY ExecutionAssumption DEF IInv, TypeOK, CallerFails, Calling
<1>2. ICalls' /\ IFailures'
    BY DEF IInv, TypeOK, CallerFails, ICalls, IFailures, Active, Idle, Rows, jira
<1> QED BY <1>1, <1>2, OnlyCalling DEF CallerFails

\* The precondition read ends in a result that the edit request cannot
\* contradict: none has been sent.
LEMMA ReadPreconditionInv ==
    ASSUME IInv, NEW c \in Caller, ReadPrecondition(c)
    PROVE  IInv'
<1> DEFINE p == calling[c].proposal
<1>0. p \in Proposal
    BY CallType DEF IInv, ReadPrecondition
<1>1. calling' \in [Caller -> Calling] /\ crashes' \in 0..MaxCrashes
    BY <1>0, CallValues DEF IInv, TypeOK, ReadPrecondition, Results
<1>2. ICalls' /\ IFailures'
    BY <1>0 DEF IInv, TypeOK, ReadPrecondition, ICalls, IFailures, Active, Working,
       Holding, Rows, jira, STALE, EXECUTION_FAILED, EXECUTED_VERIFIED
<1> QED BY <1>1, <1>2, OnlyCalling DEF ReadPrecondition

\* The answer of the edit: failed only when Jira refused it.
LEMMA EditReturnsInv ==
    ASSUME IInv, NEW c \in Caller, EditReturns(c)
    PROVE  IInv'
<1> DEFINE p == calling[c].proposal
<1>0. p \in Proposal
    BY CallType DEF IInv, EditReturns
<1>1. calling' \in [Caller -> Calling] /\ crashes' \in 0..MaxCrashes
    BY <1>0, CallValues DEF IInv, TypeOK, EditReturns, Results
<1>2. ICalls' /\ IFailures'
    BY <1>0 DEF IInv, TypeOK, EditReturns, ICalls, IFailures, Active, Working,
       Holding, Rows, jira, STALE, EXECUTION_FAILED, EXECUTED_VERIFIED, UNCERTAIN
<1> QED BY <1>1, <1>2, OnlyCalling DEF EditReturns

\* The read-back: verified only when the proposed account is there now.
LEMMA ReadBackInv ==
    ASSUME IInv, NEW c \in Caller, ReadBack(c)
    PROVE  IInv'
<1> DEFINE p == calling[c].proposal
<1>0. p \in Proposal
    BY CallType DEF IInv, ReadBack
<1>1. calling' \in [Caller -> Calling] /\ crashes' \in 0..MaxCrashes
    BY <1>0, CallValues DEF IInv, TypeOK, ReadBack, Results
<1>2. assignee[sim[p].task] = sim[p].proposed => p \in reached
    BY <1>0 DEF IInv, ReadBack, ICalls, IRows, Active
<1>3. ICalls' /\ IFailures'
    BY <1>0, <1>2 DEF IInv, TypeOK, ReadBack, ICalls, IFailures, Active, Working,
       Holding, Rows, jira, STALE, EXECUTION_FAILED, EXECUTED_VERIFIED, UNCERTAIN
<1> QED BY <1>1, <1>3, OnlyCalling DEF ReadBack

\* An audit event without a prior state that repeats the state changes nothing
\* the proposal component relies on.
LEMMA RepeatedState ==
    ASSUME PInv, NEW p \in Proposal, state[p] = EXECUTING,
           trail' = [trail EXCEPT ![p] = Append(@, <<Absent, EXECUTING>>)],
           UNCHANGED <<others, state, version>>
    PROVE  PInv'
<1> USE DEF PInv, others
<1>1. EXECUTING \in States /\ <<Absent, EXECUTING>> \in Entry
    BY DEF States, Entry
<1>2. PTypeOK'
    BY <1>1 DEF PTypeOK, Entry
<1>3. PSims' /\ PCommands' /\ VersionIdentifiesState' /\ OneDecision'
    BY DEF PSims, PCommands, VersionIdentifiesState, OneDecision, WorthDeciding
<1>4. DecisionExplainsState'
    BY DEF DecisionExplainsState
<1>5. ASSUME NEW q \in Proposal PROVE Replays(trail'[q], state'[q])
  <2>1. CASE q = p
    <3>1. Replays(Append(trail[p], <<Absent, EXECUTING>>), EXECUTING)
        BY <1>1, ReplaysAppend DEF TrailReplays, PTypeOK, Entry
    <3> QED BY <2>1, <3>1 DEF PTypeOK
  <2>2. CASE q # p
      BY <2>2 DEF TrailReplays, PTypeOK
  <2> QED BY <2>1, <2>2
<1> QED BY <1>2, <1>3, <1>4, <1>5 DEF TrailReplays

\* The outcomes an execution can have.
Outcomes == {EXECUTED_VERIFIED, EXECUTION_FAILED, UNCERTAIN, STALE}

\* An outcome moves the proposal along an edge out of the state it was in,
\* which was approved: the proposal component's invariant stays.
LEMMA OutcomePInv ==
    ASSUME PInv, NEW p \in Proposal, NEW row, NEW prior \in {EXECUTING, UNCERTAIN},
           state[p] = prior, row.state \in Outcomes,
           StoreOutcome(p, row, prior), UNCHANGED others
    PROVE  PInv'
<1> USE DEF PInv, others
<1> DEFINE target == row.state
<1>1. /\ state' = [state EXCEPT ![p] = target]
      /\ version' = [version EXCEPT ![p] = @ + 1]
      /\ trail' = [trail EXCEPT ![p] = Append(@, <<prior, target>>)]
    BY DEF StoreOutcome
<1>2. /\ target \in States /\ prior \in States /\ <<prior, target>> \in Entry
      /\ target \notin {Absent, PENDING, REJECTED}
      /\ prior # Absent
    BY DEF States, Entry, Outcomes, EXECUTED_VERIFIED, EXECUTION_FAILED, UNCERTAIN,
           STALE, EXECUTING, Absent, PENDING, REJECTED
<1> HIDE DEF target
<1>3. PTypeOK'
    BY <1>1, <1>2 DEF PTypeOK, Entry
<1>4. PSims' /\ PCommands' /\ VersionIdentifiesState' /\ OneDecision'
  <2>1. PSims'
      BY <1>1, <1>2 DEF PSims, PTypeOK, WorthDeciding
  <2>2. PCommands'
      BY <1>1, <1>2 DEF PCommands, PTypeOK, Command
  <2>3. VersionIdentifiesState'
      BY <1>1, <1>2 DEF PCommands, VersionIdentifiesState, PTypeOK, Command
  <2> QED BY <2>1, <2>2, <2>3 DEF OneDecision
<1>5. DecisionExplainsState'
  <2>1. {d.decision : d \in {x \in decisions : x.proposal = p}} = {"approve"}
      BY DEF DecisionExplainsState
  <2>2. \A q \in Proposal : q # p => state'[q] = state[q]
      BY <1>1 DEF PTypeOK
  <2>3. state'[p] = target
      BY <1>1 DEF PTypeOK
  <2> QED BY <1>2, <2>1, <2>2, <2>3 DEF DecisionExplainsState
<1>6. ASSUME NEW q \in Proposal PROVE Replays(trail'[q], state'[q])
  <2>1. CASE q = p
    <3>1. Replays(Append(trail[p], <<prior, target>>), target)
        BY <1>2, ReplaysAppend DEF TrailReplays, PTypeOK, Entry
    <3> QED BY <1>1, <2>1, <3>1 DEF PTypeOK
  <2>2. CASE q # p
      BY <1>1, <2>2 DEF TrailReplays, PTypeOK
  <2> QED BY <2>1, <2>2
<1> QED BY <1>3, <1>4, <1>5, <1>6 DEF TrailReplays

\* The new row's rank is a number because there are finitely many rows.
LEMMA RankType == Cardinality(Rows) + 1 \in Nat
<1>1. IsFiniteSet(Rows)
    BY ExecutionAssumption, FS_Subset DEF Rows
<1> QED BY <1>1, FS_CardinalityType

\* prepare inserts the only row of its proposal, and the call becomes its
\* holder: no other call can hold a row that was not there.
LEMMA PrepareInsertInv ==
    ASSUME IInv, NEW c \in Caller, PrepareInsert(c)
    PROVE  IInv'
<1> DEFINE p == calling[c].proposal
<1>0. p \in Proposal /\ calling[c].at = "prepare" /\ state[p] = EXECUTING /\ p \notin Rows
    BY CallType DEF IInv, PrepareInsert, PrepareAdmissible
<1> DEFINE row == [state |-> EXECUTING, write_attempted |-> FALSE,
                   recorded |-> FALSE, rank |-> Cardinality(Rows) + 1]
<1>1. /\ exec' = [exec EXCEPT ![p] = row]
      /\ age' = [age EXCEPT ![p] = 0]
      /\ calling' = [calling EXCEPT ![c] = Working(p, "mark")]
      /\ reached' = IF assignee[sim[p].task] = sim[p].proposed
                    THEN reached \cup {p} ELSE reached
      /\ trail' = [trail EXCEPT ![p] = Append(@, <<Absent, EXECUTING>>)]
      /\ UNCHANGED <<others, state, version, lease, outbox, claims, assignee, edit, edits,
                     crashes>>
    BY DEF PrepareInsert
<1>2. row \in Row /\ row.state = EXECUTING /\ ~row.write_attempted
    BY RankType DEF Row, States
<1> HIDE DEF p, row
<1>3. PInv'
    BY <1>0, <1>1, RepeatedState DEF IInv
<1>4. TypeOK'
  <2>1. age' \in [Proposal -> 0..AbandonedAfter]
    <3>1. 0 \in 0..AbandonedAfter
        BY ExecutionAssumption
    <3>2. age \in [Proposal -> 0..AbandonedAfter]
        BY DEF IInv, TypeOK
    <3> QED BY <1>1, <3>1, <3>2
  <2>2. calling' \in [Caller -> Calling]
      BY <1>0, <1>1, CallValues DEF IInv, TypeOK
  <2> QED BY <1>0, <1>1, <1>2, <1>3, <2>1, <2>2 DEF IInv, TypeOK, PInv
<1>5. Rows' = Rows \cup {p} /\ EXECUTING # Absent
    BY <1>0, <1>1, <1>2 DEF IInv, TypeOK, Rows, EXECUTING, Absent
<1>6. ExecutionMatchesProposal'
    BY <1>0, <1>1, <1>2, <1>5 DEF IInv, TypeOK, ExecutionMatchesProposal, Rows
<1>7. IRows'
  <2>1. \E d \in decisions : d.proposal = p /\ d.decision = "approve"
    <3>1. "approve" \in {d.decision : d \in {x \in decisions : x.proposal = p}}
        BY <1>0 DEF IInv, PInv, DecisionExplainsState
    <3> QED BY <3>1
  <2>2. UNCHANGED <<sim, assignee, state, decisions>>
      BY <1>1 DEF others
  <2> QED BY <1>0, <1>1, <1>5, <2>1, <2>2 DEF IInv, IRows
<1>8. IEdits'
    BY <1>0, <1>1, <1>5 DEF IInv, TypeOK, IEdits
<1>9. ICalls'
    BY <1>0, <1>1, <1>2, <1>5 DEF IInv, TypeOK, ICalls, IEdits, Active, Working,
       EXECUTING, STALE
<1>10. IClaims'
    BY <1>0, <1>1, <1>5 DEF IInv, TypeOK, IClaims
<1>11. IFailures'
    BY <1>0, <1>1, <1>2, <1>5 DEF IInv, TypeOK, IFailures, ICalls, Active, Working,
       EXECUTING, EXECUTION_FAILED
<1>12. VerifiedWasReached' /\ StaleWroteNothing' /\ UncertainIsReported'
    BY <1>0, <1>1, <1>2, <1>5 DEF IInv, TypeOK, VerifiedWasReached, StaleWroteNothing,
       UncertainIsReported, EXECUTING, EXECUTED_VERIFIED, STALE
<1> QED BY <1>3, <1>4, <1>6, <1>7, <1>8, <1>9, <1>10, <1>11, <1>12 DEF IInv

\* mark_write_attempted announces the edit on the row of the only call that can
\* send it.
LEMMA MarkWriteAttemptedInv ==
    ASSUME IInv, NEW c \in Caller, MarkWriteAttempted(c)
    PROVE  IInv'
<1> DEFINE p == calling[c].proposal
<1>0. p \in Proposal /\ calling[c].at = "mark" /\ p \in Rows
    BY CallType DEF IInv, MarkWriteAttempted, ICalls, Active
<1>1. CASE exec[p].state # EXECUTING
  <2>1. /\ calling' = [calling EXCEPT ![c] = Idle]
        /\ UNCHANGED <<pvars, exec, age, lease, outbox, claims, jira, crashes>>
      BY <1>1 DEF MarkWriteAttempted
  <2>2. calling' \in [Caller -> Calling] /\ crashes' \in 0..MaxCrashes
      BY <2>1 DEF IInv, TypeOK, Calling
  <2>3. ICalls' /\ IFailures'
      BY <2>1 DEF IInv, TypeOK, ICalls, IFailures, Active, Idle, Rows, jira
  <2> QED BY <2>1, <2>2, <2>3, OnlyCalling
<1>2. CASE exec[p].state = EXECUTING
  <2> DEFINE row == [exec[p] EXCEPT !.write_attempted = TRUE, !.recorded = TRUE]
  <2>1. /\ exec' = [exec EXCEPT ![p] = row]
        /\ calling' = [calling EXCEPT ![c] = Working(p, "read")]
        /\ UNCHANGED <<pvars, age, lease, outbox, claims, jira, crashes>>
      BY <1>2 DEF MarkWriteAttempted
  <2>2. /\ row \in Row /\ row.state = EXECUTING /\ row.write_attempted
        /\ exec \in [Proposal -> Row]
      BY <1>0, <1>2 DEF IInv, TypeOK, Row
  <2> HIDE DEF row, p
  <2>3. PInv'
      BY <2>1, PInvClock DEF pvars, IInv, PInv, PTypeOK
  <2>4. TypeOK'
    <3>1. calling' \in [Caller -> Calling]
        BY <1>0, <2>1, CallValues DEF IInv, TypeOK
    <3> QED BY <1>0, <2>1, <2>2, <2>3, <3>1 DEF IInv, TypeOK, PInv, jira
  <2>5. Rows' = Rows /\ \A q \in Proposal : exec'[q].state = exec[q].state
      BY <1>0, <1>2, <2>1, <2>2 DEF Rows, p
  <2>6. ExecutionMatchesProposal' /\ IRows'
      BY <2>1, <2>5 DEF IInv, ExecutionMatchesProposal, IRows, Rows, pvars, jira
  <2>7. IEdits'
      BY <1>0, <2>1, <2>2, <2>5 DEF IInv, IEdits, jira
  <2>8. ICalls'
      BY <1>0, <1>2, <2>1, <2>2, <2>5 DEF IInv, TypeOK, ICalls, Active, Working, jira, p
  <2>9. IClaims'
      BY <1>0, <2>1, <2>2, <2>5 DEF IInv, IClaims, jira, TypeOK, Claim
  <2>10. IFailures'
      BY <1>0, <1>2, <2>1, <2>2, <2>5 DEF IInv, TypeOK, IFailures, Active, Working, jira,
         EXECUTING, EXECUTION_FAILED, Rows, p
  <2>11. VerifiedWasReached' /\ StaleWroteNothing' /\ UncertainIsReported'
      BY <2>1, <2>5 DEF IInv, VerifiedWasReached, StaleWroteNothing, UncertainIsReported,
         pvars, jira, Rows
  <2> QED BY <2>3, <2>4, <2>6, <2>7, <2>8, <2>9, <2>10, <2>11 DEF IInv
<1> QED BY <1>1, <1>2

\* The edit is sent once: its only holder has not sent it before.
LEMMA SendEditInv ==
    ASSUME IInv, NEW c \in Caller, SendEdit(c)
    PROVE  IInv'
<1> DEFINE p == calling[c].proposal
<1>0. /\ p \in Proposal /\ calling[c].at = "edit" /\ p \in Rows /\ edit[p] = "none"
      /\ exec[p].write_attempted /\ exec[p].state # STALE /\ edits[p] = 0
    BY CallType DEF IInv, SendEdit, ICalls, Active, IEdits
<1>1. /\ edit' = [edit EXCEPT ![p] = "inflight"]
      /\ edits' = [edits EXCEPT ![p] = @ + 1]
      /\ calling' = [calling EXCEPT ![c] = Working(p, "sent")]
      /\ UNCHANGED <<pvars, exec, age, lease, outbox, claims, assignee, reached, crashes>>
    BY DEF SendEdit
<1>2. \A d \in Caller : d # c /\ Active(d) => calling[d].proposal # p
    BY <1>0 DEF IInv, ICalls, Active
<1>3. ~(exec[p].state = EXECUTION_FAILED /\ exec[p].recorded = exec[p].write_attempted)
    BY <1>0 DEF IInv, IFailures, Active
<1> HIDE DEF p
<1>4. PInv'
    BY <1>1, PInvClock DEF pvars, IInv, PInv, PTypeOK
<1>5. TypeOK'
  <2>1. calling' \in [Caller -> Calling]
      BY <1>0, <1>1, CallValues DEF IInv, TypeOK
  <2> QED BY <1>0, <1>1, <1>4, <2>1 DEF IInv, TypeOK, PInv
<1>6. ExecutionMatchesProposal' /\ IRows'
    BY <1>1 DEF IInv, ExecutionMatchesProposal, IRows, Rows, pvars
<1>7. IEdits'
    BY <1>0, <1>1 DEF IInv, TypeOK, IEdits, Rows
<1>8. ICalls'
    BY <1>0, <1>1, <1>2 DEF IInv, TypeOK, ICalls, Active, Working, Rows
<1>9. IClaims' /\ VerifiedWasReached' /\ UncertainIsReported'
    BY <1>1 DEF IInv, IClaims, VerifiedWasReached, UncertainIsReported, Rows, pvars
<1>10. IFailures' /\ StaleWroteNothing'
    BY <1>0, <1>1, <1>2, <1>3 DEF IInv, TypeOK, IFailures, StaleWroteNothing, Active,
       Working, Rows
<1> QED BY <1>4, <1>5, <1>6, <1>7, <1>8, <1>9, <1>10 DEF IInv

\* What finalize and resolve share: storing an outcome keeps the invariant when
\* the outcome is justified.  Calls may end and claims may go at the same time.
LEMMA OutcomeInv ==
    ASSUME IInv, NEW p \in Rows, NEW row \in Row, NEW prior \in {EXECUTING, UNCERTAIN},
           exec[p].state = prior,
           row.state \in Outcomes,
           row.write_attempted = exec[p].write_attempted,
           StoreOutcome(p, row, prior),
           UNCHANGED <<others, age, jira, crashes>>,
           lease' \in [Proposal -> 0..NoLease],
           calling' \in [Caller -> Calling],
           \A d \in Caller : calling'[d] = calling[d] \/ calling'[d] = Idle,
           claims' \in [Reconciler -> SUBSET Claim],
           \A r \in Reconciler : claims'[r] \subseteq claims[r],
           row.state = EXECUTED_VERIFIED => p \in reached,
           row.state = STALE =>
               /\ edits[p] = 0
               /\ \A d \in Caller : calling'[d] # Idle => calling'[d].proposal # p
                                                          \/ calling'[d].at = "prepare",
           row.state = EXECUTION_FAILED /\ row.recorded = row.write_attempted =>
               /\ edit[p] \notin {"inflight", "applied"}
               /\ \A d \in Caller : calling'[d] # Idle /\ calling'[d].proposal = p
                                        => calling'[d].at \in {"prepare", "mark"}
    PROVE  IInv'
<1>0. p \in Proposal /\ state[p] = prior /\ exec \in [Proposal -> Row]
    BY DEF Rows, IInv, TypeOK, ExecutionMatchesProposal
<1>1. /\ exec' = [exec EXCEPT ![p] = row]
      /\ state' = [state EXCEPT ![p] = row.state]
      /\ outbox' = IF row.state = UNCERTAIN THEN outbox \cup {p} ELSE outbox
      /\ UNCHANGED <<sim, decisions, assignee, edit, edits, reached>>
    BY DEF StoreOutcome, others, jira
<1>2. PInv'
    BY <1>0, OutcomePInv DEF IInv
<1>3. TypeOK'
    BY <1>0, <1>1, <1>2 DEF IInv, TypeOK, PInv, jira
<1>4. row.state # Absent /\ Rows' = Rows
    BY <1>0, <1>1 DEF Rows, Outcomes, Absent, EXECUTED_VERIFIED, EXECUTION_FAILED,
       UNCERTAIN, STALE
<1>5. state \in [Proposal -> States \cup {Absent}]
    BY DEF IInv, PInv, PTypeOK
<1>6. \A d \in Caller : Active(d)' => Active(d) /\ calling'[d] = calling[d] /\ calling'[d] # Idle
    BY DEF Active, Idle
<1>7. ExecutionMatchesProposal'
    BY <1>0, <1>1, <1>4, <1>5 DEF IInv, ExecutionMatchesProposal, Rows
<1>8. IRows'
    BY <1>0, <1>1, <1>4, <1>5 DEF IInv, IRows, Rows, Outcomes
<1>9. IEdits'
    BY <1>0, <1>1, <1>4 DEF IInv, IEdits
<1>10. ICalls'
  <2>1. ASSUME NEW c \in Caller, Active(c)'
        PROVE  /\ calling'[c].proposal \in Rows'
               /\ exec'[calling'[c].proposal].state # STALE
               /\ calling'[c].at # "mark" => exec'[calling'[c].proposal].write_attempted
      BY <1>0, <1>1, <1>4, <1>6, <2>1 DEF IInv, ICalls, Rows, Active
  <2>2. ASSUME NEW c \in Caller, NEW d \in Caller, Active(c)', Active(d)',
               calling'[d].proposal = calling'[c].proposal
        PROVE  c = d
      BY <1>6, <2>2 DEF IInv, ICalls
  <2>3. ASSUME NEW c \in Caller
        PROVE  /\ calling'[c].at \in {"mark", "read", "edit"} => edit'[calling'[c].proposal] = "none"
               /\ calling'[c].at = "finalize" =>
                    /\ calling'[c].result # "none"
                    /\ calling'[c].result = EXECUTION_FAILED
                          => edit'[calling'[c].proposal] \in {"none", "rejected"}
                    /\ calling'[c].result = STALE => edit'[calling'[c].proposal] = "none"
                    /\ calling'[c].result = EXECUTED_VERIFIED => calling'[c].proposal \in reached'
      BY <1>1, <2>3 DEF IInv, ICalls, Idle
  <2> QED BY <2>1, <2>2, <2>3 DEF ICalls
<1>11. IClaims'
    BY <1>0, <1>1, <1>4 DEF IInv, IClaims, Rows
<1>12. IFailures'
    BY <1>0, <1>1, <1>4, <1>6 DEF IInv, IFailures, Rows, Active
<1>13. VerifiedWasReached' /\ StaleWroteNothing'
    BY <1>0, <1>1, <1>4 DEF IInv, VerifiedWasReached, StaleWroteNothing, Rows
<1>14. UncertainIsReported'
    BY <1>0, <1>1, <1>5 DEF IInv, UncertainIsReported
<1> QED BY <1>2, <1>3, <1>7, <1>8, <1>9, <1>10, <1>11, <1>12, <1>13, <1>14 DEF IInv

\* finalize stores the result of the call that holds the execution, unless
\* somebody else has resolved it.
LEMMA FinalizeInv ==
    ASSUME IInv, NEW c \in Caller, Finalize(c)
    PROVE  IInv'
<1> DEFINE p == calling[c].proposal
           result == calling[c].result
<1>0. /\ p \in Proposal /\ p \in Rows /\ result \in Outcomes /\ calling[c].at = "finalize"
      /\ result = EXECUTION_FAILED => edit[p] \in {"none", "rejected"}
      /\ result = STALE => edit[p] = "none"
      /\ result = EXECUTED_VERIFIED => p \in reached
    BY CallType DEF IInv, Finalize, ICalls, Active, Results, Outcomes
<1>1. calling' = [calling EXCEPT ![c] = Idle] /\ calling' \in [Caller -> Calling]
    BY DEF IInv, TypeOK, Finalize, Calling
<1>2. \A d \in Caller : calling'[d] = calling[d] \/ calling'[d] = Idle
    BY <1>1 DEF IInv, TypeOK
<1>3. \A d \in Caller : calling'[d] # Idle /\ calling'[d].proposal = p => calling'[d].at = "prepare"
  <2> SUFFICES ASSUME NEW d \in Caller, calling'[d] # Idle, calling'[d].proposal = p
               PROVE  calling'[d].at = "prepare"
      OBVIOUS
  <2>1. d # c /\ calling'[d] = calling[d] /\ calling[d] # Idle
      BY <1>1 DEF IInv, TypeOK
  <2>2. ~Active(d)
      BY <1>0, <2>1 DEF IInv, ICalls, Active
  <2> QED BY <2>1, <2>2 DEF IInv, TypeOK, Calling, Active
<1>4. CASE exec[p].state # EXECUTING
  <2>1. UNCHANGED <<pvars, exec, age, lease, outbox, claims, jira, crashes>>
      BY <1>4 DEF Finalize, others, pvars
  <2>2. ICalls' /\ IFailures'
      BY <1>1, <2>1 DEF IInv, TypeOK, ICalls, IFailures, Active, Idle, Rows, jira
  <2> QED BY <1>1, <2>1, <2>2, OnlyCalling DEF IInv, TypeOK
<1>5. CASE exec[p].state = EXECUTING
  <2> DEFINE row == [exec[p] EXCEPT !.state = result, !.recorded = exec[p].write_attempted]
  <2>1. /\ StoreOutcome(p, row, EXECUTING)
        /\ UNCHANGED <<others, age, lease, claims, jira, crashes>>
      BY <1>5 DEF Finalize
  <2>2. /\ row \in Row /\ row.state = result
        /\ row.write_attempted = exec[p].write_attempted
      BY <1>0 DEF IInv, TypeOK, Row, Outcomes, States
  <2>3. result = STALE => edits[p] = 0
      BY <1>0 DEF IInv, IEdits
  <2>4. lease' \in [Proposal -> 0..NoLease] /\ claims' \in [Reconciler -> SUBSET Claim]
      BY <2>1 DEF IInv, TypeOK
  <2> HIDE DEF row, p, result
  <2> QED BY <1>0, <1>1, <1>2, <1>3, <1>5, <2>1, <2>2, <2>3, <2>4, OutcomeInv
<1> QED BY <1>4, <1>5

----------------------------------------------------------------------------
(* The steps of a reconciler.                                                *)

\* A step that moves leases and claims, and nothing else, keeps the invariant
\* if it keeps the part that is about claims.
LEMMA OnlyClaims ==
    ASSUME IInv,
           UNCHANGED <<pvars, exec, age, outbox, calling, jira>>,
           lease' \in [Proposal -> 0..NoLease],
           claims' \in [Reconciler -> SUBSET Claim],
           crashes' \in 0..MaxCrashes,
           IClaims'
    PROVE  IInv'
<1> USE DEF IInv
<1>1. PInv'
    BY PInvClock DEF pvars, PInv, PTypeOK
<1>2. TypeOK'
    BY <1>1 DEF TypeOK, PInv, jira
<1>3. ExecutionMatchesProposal' /\ IRows' /\ IEdits'
    BY DEF ExecutionMatchesProposal, IRows, IEdits, Rows, pvars, jira
<1>4. ICalls' /\ IFailures'
    BY DEF ICalls, IFailures, Active, Rows, jira
<1>5. VerifiedWasReached' /\ StaleWroteNothing' /\ UncertainIsReported'
    BY DEF VerifiedWasReached, StaleWroteNothing, UncertainIsReported, Rows, pvars, jira
<1> QED BY <1>1, <1>2, <1>3, <1>4, <1>5

\* A fresh claim is sound: it says what the row says.
LEMMA FreshClaim ==
    ASSUME IInv, NEW p \in Rows
    PROVE  /\ ClaimOn(p) \in Claim
           /\ ClaimOn(p).proposal = p
           /\ ClaimOn(p).write_attempted = exec[p].write_attempted
           /\ ClaimOn(p).verdict = "unread"
BY DEF ClaimOn, Claim, IInv, TypeOK, Row, Rows

\* Zero is an age of a lease.
LEMMA LeaseZero == 0 \in 0..NoLease /\ NoLease \in 0..NoLease
<1>1. LeaseDuration \in Nat
    BY ExecutionAssumption
<1> QED BY <1>1 DEF NoLease

\* lease_abandoned: fresh claims on rows.
LEMMA LeaseBatchInv ==
    ASSUME IInv, NEW r \in Reconciler, NEW unlocked \in SUBSET Leasable,
           LeaseBatch(r, unlocked)
    PROVE  IInv'
<1> DEFINE batch == Oldest(unlocked, Limit)
<1>1. batch \subseteq Rows
    BY DEF Oldest, Leasable
<1>2. /\ lease' = [p \in Proposal |-> IF p \in batch THEN 0 ELSE lease[p]]
      /\ claims' = [claims EXCEPT ![r] = {ClaimOn(p) : p \in batch}]
      /\ UNCHANGED <<pvars, exec, age, outbox, calling, jira, crashes>>
    BY DEF LeaseBatch
<1> HIDE DEF batch
<1>3. lease' \in [Proposal -> 0..NoLease]
    BY <1>2, LeaseZero DEF IInv, TypeOK
<1>4. claims' \in [Reconciler -> SUBSET Claim]
  <2>1. {ClaimOn(p) : p \in batch} \in SUBSET Claim
      BY <1>1, FreshClaim
  <2> QED BY <1>2, <2>1 DEF IInv, TypeOK
<1>5. IClaims'
  <2> SUFFICES ASSUME NEW q \in Reconciler, NEW k \in claims'[q]
               PROVE  /\ k.proposal \in Rows
                      /\ k.write_attempted => exec[k.proposal].write_attempted
                      /\ k.verdict = EXECUTION_FAILED => ~k.write_attempted
                      /\ k.verdict = EXECUTED_VERIFIED => k.proposal \in reached
      BY <1>2 DEF IClaims, Rows, jira
  <2>1. CASE q # r
      BY <1>2, <2>1 DEF IInv, IClaims, TypeOK
  <2>2. CASE q = r
    <3>1. PICK p \in batch : k = ClaimOn(p)
        BY <1>2, <2>2 DEF IInv, TypeOK
    <3> QED BY <1>1, <3>1, FreshClaim DEF EXECUTION_FAILED, EXECUTED_VERIFIED
  <2> QED BY <2>1, <2>2
<1> QED BY <1>2, <1>3, <1>4, <1>5, OnlyClaims DEF IInv, TypeOK

\* lease_proposal: one fresh claim.
LEMMA LeaseProposalInv ==
    ASSUME IInv, NEW r \in Reconciler, NEW p \in Proposal, LeaseProposal(r, p)
    PROVE  IInv'
<1>1. p \in Rows
    BY DEF LeaseProposal, Rows, UNCERTAIN, Absent
<1>2. lease' \in [Proposal -> 0..NoLease]
    BY LeaseZero DEF LeaseProposal, IInv, TypeOK
<1>3. claims' \in [Reconciler -> SUBSET Claim]
  <2>1. {ClaimOn(p)} \in SUBSET Claim
      BY <1>1, FreshClaim
  <2> QED BY <2>1 DEF LeaseProposal, IInv, TypeOK
<1>4. IClaims'
  <2>1. \A q \in Reconciler : \A k \in claims'[q] : k \in claims[q] \/ k = ClaimOn(p)
      BY DEF LeaseProposal, IInv, TypeOK
  <2> QED BY <1>1, <2>1, FreshClaim DEF LeaseProposal, IInv, IClaims, Rows, jira,
             EXECUTION_FAILED, EXECUTED_VERIFIED
<1> QED BY <1>2, <1>3, <1>4, OnlyClaims DEF LeaseProposal, IInv, TypeOK

\* The verdict is verified only for an account Jira shows now, and failed only
\* for a claim without an attempted write.
LEMMA ReadAssigneeInv ==
    ASSUME IInv, NEW r \in Reconciler, ReadAssignee(r)
    PROVE  IInv'
<1>1. PICK k \in claims[r], observed \in Account \cup {Unassigned} :
         /\ observed \in {assignee[sim[k.proposal].task], Unassigned}
         /\ claims' = [claims EXCEPT ![r] =
               (@ \ {k}) \cup {[k EXCEPT !.verdict = Verdict(k, observed)]}]
         /\ UNCHANGED <<pvars, exec, age, lease, outbox, calling, jira, crashes>>
    BY DEF ReadAssignee
<1> DEFINE new == [k EXCEPT !.verdict = Verdict(k, observed)]
<1>2. k \in Claim /\ k.proposal \in Rows
    BY DEF IInv, TypeOK, IClaims
<1>3. Verdict(k, observed) \in {EXECUTED_VERIFIED, EXECUTION_FAILED, UNCERTAIN}
    BY DEF Verdict
<1>4. /\ new \in Claim /\ new.proposal = k.proposal
      /\ new.write_attempted = k.write_attempted
      /\ new.verdict = Verdict(k, observed)
    BY <1>2, <1>3 DEF Claim
<1>5. Verdict(k, observed) = EXECUTION_FAILED => ~k.write_attempted
    BY DEF Verdict, EXECUTED_VERIFIED, EXECUTION_FAILED, UNCERTAIN
<1>6. Verdict(k, observed) = EXECUTED_VERIFIED => k.proposal \in reached
  <2>1. sim[k.proposal].proposed \in Account
      BY <1>2, RowHasSim
  <2>2. Verdict(k, observed) = EXECUTED_VERIFIED => observed = sim[k.proposal].proposed
      BY DEF Verdict, EXECUTED_VERIFIED, EXECUTION_FAILED, UNCERTAIN
  <2> QED BY <1>1, <1>2, <2>1, <2>2, UnassignedAssumption DEF IInv, IRows
<1> HIDE DEF new
<1>7. claims' \in [Reconciler -> SUBSET Claim]
    BY <1>1, <1>4 DEF IInv, TypeOK, new
<1>8. IClaims'
  <2>1. \A q \in Reconciler : \A j \in claims'[q] : j \in claims[q] \/ j = new
      BY <1>1 DEF IInv, TypeOK, new
  <2>2. /\ k.write_attempted => exec[k.proposal].write_attempted
      BY DEF IInv, IClaims
  <2> QED BY <1>1, <1>2, <1>4, <1>5, <1>6, <2>1, <2>2 DEF IInv, IClaims, Rows, jira
<1> QED BY <1>1, <1>7, <1>8, OnlyClaims DEF IInv, TypeOK

\* A dying reconciler forgets its claims; the leases stay.
LEMMA ReconcilerFailsInv ==
    ASSUME IInv, NEW r \in Reconciler, ReconcilerFails(r)
    PROVE  IInv'
<1>1. crashes' \in 0..MaxCrashes
    BY ExecutionAssumption DEF ReconcilerFails, IInv, TypeOK
<1>2. claims' \in [Reconciler -> SUBSET Claim]
    BY DEF ReconcilerFails, IInv, TypeOK
<1>3. IClaims'
    BY DEF ReconcilerFails, IInv, TypeOK, IClaims, Rows, jira
<1> QED BY <1>1, <1>2, <1>3, OnlyClaims DEF ReconcilerFails, IInv, TypeOK

\* resolve stores a verdict on an open execution.  A failure it stores on a row
\* that announces an edit gives itself away: the stored result says otherwise.
LEMMA ResolveInv ==
    ASSUME IInv, NEW r \in Reconciler, Resolve(r)
    PROVE  IInv'
<1>1. PICK k \in claims[r] :
         /\ k.verdict # "unread"
         /\ IF ResolveAdmissible(k)
            THEN /\ StoreOutcome(k.proposal,
                                 [exec[k.proposal] EXCEPT !.state = k.verdict,
                                                          !.recorded = k.write_attempted],
                                 exec[k.proposal].state)
                 /\ lease' = [lease EXCEPT ![k.proposal] = NoLease]
            ELSE UNCHANGED <<exec, state, version, trail, outbox, lease>>
         /\ claims' = [claims EXCEPT ![r] = @ \ {k}]
         /\ UNCHANGED <<others, age, calling, jira, crashes>>
    BY DEF Resolve
<1> DEFINE p == k.proposal
<1>2. /\ k \in Claim /\ p \in Rows /\ p \in Proposal
      /\ k.verdict = EXECUTION_FAILED => ~k.write_attempted
      /\ k.verdict = EXECUTED_VERIFIED => p \in reached
      /\ k.verdict \in {EXECUTED_VERIFIED, EXECUTION_FAILED, UNCERTAIN}
    BY <1>1 DEF IInv, TypeOK, IClaims, Rows, Claim
<1>3. /\ claims' \in [Reconciler -> SUBSET Claim]
      /\ \A q \in Reconciler : claims'[q] \subseteq claims[q]
    BY <1>1 DEF IInv, TypeOK
<1>4. CASE ~ResolveAdmissible(k)
  <2>1. UNCHANGED <<pvars, exec, age, lease, outbox, calling, jira, crashes>>
      BY <1>1, <1>4 DEF others, pvars
  <2>2. IClaims'
      BY <1>3, <2>1 DEF IInv, IClaims, Rows, jira
  <2> QED BY <1>3, <2>1, <2>2, OnlyClaims DEF IInv, TypeOK
<1>5. CASE ResolveAdmissible(k)
  <2> DEFINE row == [exec[p] EXCEPT !.state = k.verdict, !.recorded = k.write_attempted]
             prior == exec[p].state
  <2>1. /\ StoreOutcome(p, row, prior)
        /\ lease' = [lease EXCEPT ![p] = NoLease]
        /\ UNCHANGED <<others, age, calling, jira, crashes>>
      BY <1>1, <1>5
  <2>2. prior \in {EXECUTING, UNCERTAIN}
      BY <1>5 DEF ResolveAdmissible, Open
  <2>3. /\ row \in Row /\ row.state = k.verdict /\ row.recorded = k.write_attempted
        /\ row.write_attempted = exec[p].write_attempted
        /\ exec[p].write_attempted \in BOOLEAN /\ k.write_attempted \in BOOLEAN
    <3>1. k.verdict \in States /\ k.write_attempted \in BOOLEAN
        BY <1>2 DEF States, Claim
    <3>2. exec[p] \in Row
        BY <1>2 DEF IInv, TypeOK
    <3> QED BY <3>1, <3>2 DEF Row
  <2>4. lease' \in [Proposal -> 0..NoLease]
      BY <1>2, <2>1, LeaseZero DEF IInv, TypeOK
  <2>5. row.state \in Outcomes /\ row.state # STALE
      BY <1>2, <2>3 DEF Outcomes, EXECUTED_VERIFIED, EXECUTION_FAILED, UNCERTAIN, STALE
  <2>6. ASSUME row.state = EXECUTION_FAILED, row.recorded = row.write_attempted
        PROVE  /\ edit[p] \notin {"inflight", "applied"}
               /\ \A d \in Caller : calling[d] # Idle /\ calling[d].proposal = p
                                      => calling[d].at \in {"prepare", "mark"}
    <3>1. ~exec[p].write_attempted
        BY <1>2, <2>3, <2>6
    <3>2. edit[p] = "none"
        BY <1>2, <3>1 DEF IInv, IEdits
    <3>3. ASSUME NEW d \in Caller, calling[d] # Idle, calling[d].proposal = p
          PROVE  calling[d].at \in {"prepare", "mark"}
        BY <3>1, <3>3 DEF IInv, ICalls, TypeOK, Calling, Active
    <3> QED BY <3>2, <3>3
  <2>7. calling' \in [Caller -> Calling] /\ calling' = calling
      BY <2>1 DEF IInv, TypeOK
  <2> HIDE DEF p, row, prior
  <2>8. prior = exec[p].state
      BY DEF prior
  <2> QED BY <1>2, <1>3, <2>1, <2>2, <2>3, <2>4, <2>5, <2>6, <2>7, <2>8, OutcomeInv
<1> QED BY <1>4, <1>5

----------------------------------------------------------------------------
(* Jira, the clock and the proposal component.                               *)

\* A step of Jira changes the assignee or the fate of a request that is in
\* flight: it cannot create a request, and it can only add to reached.
LEMMA JiraInv ==
    ASSUME IInv,
           UNCHANGED <<pvars, exec, age, lease, outbox, calling, claims, edits, crashes>>,
           assignee' \in [Issue -> Account \cup {Unassigned}],
           edit' \in [Proposal -> {"none", "inflight", "applied", "rejected", "lost"}],
           \A p \in Proposal : edit'[p] = edit[p]
                                \/ (edit[p] = "inflight" /\ edit'[p] \in {"applied", "rejected", "lost"}),
           reached' \subseteq Proposal,
           reached \subseteq reached',
           \A p \in Rows : assignee'[sim[p].task] = sim[p].proposed
                              => p \in reached' \/ assignee[sim[p].task] = sim[p].proposed
    PROVE  IInv'
<1> USE DEF IInv
<1>1. PInv'
    BY PInvClock DEF pvars, PInv, PTypeOK
<1>2. TypeOK'
    BY <1>1 DEF TypeOK, PInv
<1>3. Rows' = Rows /\ Rows \subseteq Proposal
    BY DEF Rows
<1>4. ExecutionMatchesProposal' /\ IRows'
    BY <1>3 DEF ExecutionMatchesProposal, IRows, pvars
<1>5. IEdits'
    BY <1>3 DEF IEdits
<1>6. ICalls'
  <2>1. \A c \in Caller : Active(c) => calling[c].proposal \in Proposal
      BY <1>3 DEF ICalls
  <2> QED BY <1>3, <2>1 DEF ICalls, Active
<1>7. IClaims' /\ VerifiedWasReached' /\ StaleWroteNothing' /\ UncertainIsReported'
    BY <1>3 DEF IClaims, VerifiedWasReached, StaleWroteNothing, UncertainIsReported, pvars
<1>8. IFailures'
    BY <1>3 DEF IFailures, Active
<1> QED BY <1>1, <1>2, <1>4, <1>5, <1>6, <1>7, <1>8

\* A request in flight belongs to a row, so it is about an issue.
LEMMA ApplyEditInv ==
    ASSUME IInv, NEW p \in Proposal, ApplyEdit(p)
    PROVE  IInv'
<1>1. p \in Rows
    BY DEF IInv, IEdits, ApplyEdit
<1>2. sim[p].task \in Issue /\ sim[p].proposed \in Account
    BY <1>1, RowHasSim
<1>3. assignee' \in [Issue -> Account \cup {Unassigned}]
    BY <1>2 DEF IInv, TypeOK, ApplyEdit
<1>4. /\ edit' \in [Proposal -> {"none", "inflight", "applied", "rejected", "lost"}]
      /\ \A q \in Proposal : edit'[q] = edit[q]
                                \/ (edit[q] = "inflight" /\ edit'[q] \in {"applied", "rejected", "lost"})
  <2>1. edit \in [Proposal -> {"none", "inflight", "applied", "rejected", "lost"}]
      BY DEF IInv, TypeOK
  <2>2. edit[p] = "inflight"
      BY DEF ApplyEdit
  <2>3. PICK v \in {"applied", "rejected", "lost"} : edit' = [edit EXCEPT ![p] = v]
      BY DEF ApplyEdit
  <2>4. /\ edit'[p] = v
        /\ \A q \in Proposal : q # p => edit'[q] = edit[q]
      BY <2>1, <2>3
  <2>5. edit' \in [Proposal -> {"none", "inflight", "applied", "rejected", "lost"}]
      BY <2>1, <2>3
  <2> QED BY <2>2, <2>4, <2>5
<1>5. reached' \subseteq Proposal /\ reached \subseteq reached'
    BY DEF IInv, TypeOK, ApplyEdit, Reaching, Rows
<1>6. ASSUME NEW q \in Rows, assignee'[sim[q].task] = sim[q].proposed
      PROVE  q \in reached' \/ assignee[sim[q].task] = sim[q].proposed
  <2>1. sim[q].task \in Issue
      BY RowHasSim
  <2> QED BY <1>2, <1>6, <2>1 DEF IInv, TypeOK, ApplyEdit, Reaching
<1> QED BY <1>3, <1>4, <1>5, <1>6, JiraInv DEF ApplyEdit

\* A refused or lost request changes nothing in Jira.
LEMMA DropEditInv ==
    ASSUME IInv, NEW p \in Proposal, DropEdit(p)
    PROVE  IInv'
<1>1. /\ edit' \in [Proposal -> {"none", "inflight", "applied", "rejected", "lost"}]
      /\ \A q \in Proposal : edit'[q] = edit[q]
                                \/ (edit[q] = "inflight" /\ edit'[q] \in {"applied", "rejected", "lost"})
  <2>1. edit \in [Proposal -> {"none", "inflight", "applied", "rejected", "lost"}]
      BY DEF IInv, TypeOK
  <2>2. edit[p] = "inflight"
      BY DEF DropEdit
  <2>3. PICK v \in {"applied", "rejected", "lost"} : edit' = [edit EXCEPT ![p] = v]
      BY DEF DropEdit
  <2>4. /\ edit'[p] = v
        /\ \A q \in Proposal : q # p => edit'[q] = edit[q]
      BY <2>1, <2>3
  <2>5. edit' \in [Proposal -> {"none", "inflight", "applied", "rejected", "lost"}]
      BY <2>1, <2>3
  <2> QED BY <2>2, <2>4, <2>5
<1> QED BY <1>1, JiraInv DEF DropEdit, IInv, TypeOK

\* Somebody assigns the issue to anybody else.
LEMMA SomeoneEditsInv ==
    ASSUME IInv, NEW i \in Issue, SomeoneEdits(i)
    PROVE  IInv'
<1>1. PICK a \in (Account \cup {Unassigned}) \ {assignee[i]} :
         /\ assignee' = [assignee EXCEPT ![i] = a]
         /\ reached' = reached \cup Reaching(i, a)
         /\ UNCHANGED <<pvars, exec, age, lease, outbox, calling, claims, edit, edits,
                        crashes>>
    BY DEF SomeoneEdits
<1>2. assignee' \in [Issue -> Account \cup {Unassigned}]
    BY <1>1 DEF IInv, TypeOK
<1>3. reached' \subseteq Proposal /\ reached \subseteq reached'
    BY <1>1 DEF IInv, TypeOK, Reaching, Rows
<1>4. ASSUME NEW q \in Rows, assignee'[sim[q].task] = sim[q].proposed
      PROVE  q \in reached' \/ assignee[sim[q].task] = sim[q].proposed
  <2>1. sim[q].task \in Issue
      BY RowHasSim
  <2> QED BY <1>1, <1>4, <2>1 DEF IInv, TypeOK, Reaching
<1>5. edit' = edit /\ edit' \in [Proposal -> {"none", "inflight", "applied", "rejected", "lost"}]
    BY <1>1 DEF IInv, TypeOK
<1>6. \A q \in Proposal : edit'[q] = edit[q]
    BY <1>5
<1> QED BY <1>1, <1>2, <1>3, <1>4, <1>5, <1>6, JiraInv

\* Nothing of the invariant but the types speaks of times.
LEMMA TickInv == IInv /\ Tick => IInv'
<1> SUFFICES ASSUME IInv, Tick PROVE IInv'
    OBVIOUS
<1>1. UNCHANGED <<stored, state, version, sim, evidence, decisions, deciding, trail,
                  exec, outbox, calling, claims, jira, crashes>>
    BY DEF Tick
<1>2. PInv'
    BY <1>1, ExpiryTickType, PInvClock DEF Tick, IInv, PInv, PTypeOK
<1>3. age' \in [Proposal -> 0..AbandonedAfter]
  <2>1. AbandonedAfter \in Nat /\ age \in [Proposal -> 0..AbandonedAfter]
      BY ExecutionAssumption DEF IInv, TypeOK
  <2>2. \A n \in 0..AbandonedAfter : Older(n, AbandonedAfter) \in 0..AbandonedAfter
      BY <2>1 DEF Older
  <2>3. age' = [p \in Proposal |-> IF p \in Rows THEN Older(age[p], AbandonedAfter)
                                                 ELSE age[p]]
      BY DEF Tick
  <2> QED BY <2>1, <2>2, <2>3
<1>4. lease' \in [Proposal -> 0..NoLease]
  <2>1. LeaseDuration \in Nat /\ lease \in [Proposal -> 0..NoLease]
      BY ExecutionAssumption DEF IInv, TypeOK
  <2>2. \A n \in 0..NoLease : Older(n, NoLease) \in 0..NoLease
      BY <2>1 DEF Older, NoLease
  <2>3. lease' = [p \in Proposal |-> Older(lease[p], NoLease)]
      BY DEF Tick
  <2> QED BY <2>1, <2>2, <2>3
<1>5. TypeOK'
    BY <1>1, <1>2, <1>3, <1>4 DEF IInv, TypeOK, PInv, jira
<1>6. ExecutionMatchesProposal' /\ IRows' /\ IEdits'
    BY <1>1 DEF IInv, ExecutionMatchesProposal, IRows, IEdits, Rows, jira
<1>7. ICalls' /\ IClaims' /\ IFailures'
    BY <1>1 DEF IInv, ICalls, IClaims, IFailures, Active, Rows, jira
<1>8. VerifiedWasReached' /\ StaleWroteNothing' /\ UncertainIsReported'
    BY <1>1 DEF IInv, VerifiedWasReached, StaleWroteNothing, UncertainIsReported, Rows, jira
<1> QED BY <1>2, <1>5, <1>6, <1>7, <1>8 DEF IInv

\* Creating and deciding touch no proposal that has left pending, and never
\* take a decision back.
LEMMA PStepKeeps ==
    ASSUME PInv, PStep
    PROVE  /\ \A p \in Proposal : state[p] \notin {Absent, PENDING}
                                    => state'[p] = state[p] /\ sim'[p] = sim[p]
           /\ \A p \in Proposal : state'[p] = UNCERTAIN => state[p] = UNCERTAIN
           /\ decisions \subseteq decisions'
<1> USE DEF PInv
<1>1. ASSUME NEW s \in SimId, NEW d \in SimData, PersistSimulation(s, d)
      PROVE  UNCHANGED <<state, sim, decisions>>
    BY <1>1 DEF PersistSimulation
<1>2. ASSUME NEW p \in Proposal, NEW s \in SimId, NEW e \in 1..MaxTtl,
             CreateProposal(p, s, e)
      PROVE  /\ state[p] = Absent
             /\ state' = [state EXCEPT ![p] = PENDING]
             /\ sim' = [sim EXCEPT ![p] = stored[s]]
             /\ decisions' = decisions
    BY <1>2 DEF CreateProposal
<1>3. ASSUME NEW m \in Decider, NEW p \in Proposal, NEW k \in DecisionKey,
             NEW decision \in {"approve", "reject"}, OpenDecision(m, p, decision, k)
      PROVE  UNCHANGED <<state, sim, decisions>>
    BY <1>3 DEF OpenDecision
<1>4. ASSUME NEW m \in Decider, CommitDecision(m)
      PROVE  \E q \in Proposal : \E target \in {EXPIRED, STALE, REJECTED, EXECUTING} :
                /\ state[q] = PENDING
                /\ state' = [state EXCEPT ![q] = target]
                /\ sim' = sim
                /\ decisions \subseteq decisions'
    BY <1>4, DecisionTargetType DEF CommitDecision, DecisionAdmissible, PTypeOK, Command
<1>5. ASSUME NEW m \in Decider, AbandonDecision(m)
      PROVE  UNCHANGED <<state, sim, decisions>>
    BY <1>5 DEF AbandonDecision
<1>6. ASSUME NEW i \in Issue, EvidenceChanges(i)
      PROVE  UNCHANGED <<state, sim, decisions>>
    BY <1>6 DEF EvidenceChanges
<1>7. CASE UNCHANGED <<state, sim, decisions>>
    BY <1>7
<1>8. CASE \E p \in Proposal, s \in SimId, e \in 1..MaxTtl : CreateProposal(p, s, e)
    BY <1>2, <1>8 DEF PTypeOK, UNCERTAIN, PENDING
<1>9. CASE \E m \in Decider : CommitDecision(m)
    BY <1>4, <1>9 DEF PTypeOK, UNCERTAIN, EXPIRED, STALE, REJECTED, EXECUTING
<1> QED BY <1>1, <1>3, <1>5, <1>6, <1>7, <1>8, <1>9 DEF PStep

\* The proposal component leaves executions alone.
LEMMA ProposalStepInv == IInv /\ ProposalStep => IInv'
<1> SUFFICES ASSUME IInv, ProposalStep PROVE IInv'
    OBVIOUS
<1>1. PStep /\ UNCHANGED <<exec, age, lease, outbox, calling, claims, assignee, edit,
                           edits, reached, crashes>>
    BY DEF ProposalStep, evars
<1>2. PInv'
    BY <1>1, PInvStep DEF IInv
<1>3. TypeOK'
    BY <1>1, <1>2 DEF IInv, TypeOK, PInv
<1>4. Rows' = Rows /\ Rows \subseteq Proposal
    BY <1>1 DEF Rows
<1>5. /\ \A p \in Rows : state'[p] = state[p] /\ sim'[p] = sim[p]
      /\ \A p \in Proposal : state'[p] = UNCERTAIN => state[p] = UNCERTAIN
      /\ decisions \subseteq decisions'
  <2>1. \A p \in Rows : state[p] \notin {Absent, PENDING}
      BY DEF IInv, IRows, Absent, PENDING, EXECUTING, EXECUTED_VERIFIED,
             EXECUTION_FAILED, UNCERTAIN, STALE
  <2> QED BY <1>1, <1>4, <2>1, PStepKeeps DEF IInv
<1>6. ExecutionMatchesProposal'
    BY <1>1, <1>4, <1>5 DEF IInv, ExecutionMatchesProposal
<1>7. IRows'
    BY <1>1, <1>4, <1>5 DEF IInv, IRows
<1>8. IEdits' /\ ICalls' /\ IClaims' /\ IFailures'
    BY <1>1, <1>4 DEF IInv, IEdits, ICalls, IClaims, IFailures, Active
<1>9. VerifiedWasReached' /\ StaleWroteNothing' /\ UncertainIsReported'
    BY <1>1, <1>4, <1>5 DEF IInv, VerifiedWasReached, StaleWroteNothing,
       UncertainIsReported
<1> QED BY <1>2, <1>3, <1>6, <1>7, <1>8, <1>9 DEF IInv

----------------------------------------------------------------------------
(* The invariant and what follows from it.                                   *)

\* Nothing has been executed at the start.
LEMMA InvInit == Init => IInv
<1> SUFFICES ASSUME Init PROVE IInv
    OBVIOUS
<1>1. PInv
    BY PInvInit DEF Init
<1>2. Rows = {}
    BY DEF Init, EInit, Rows, NoRow
<1>3. TypeOK
  <2>1. NoRow \in Row
      BY DEF NoRow, Row
  <2>2. age \in [Proposal -> 0..AbandonedAfter]
    <3>1. 0 \in 0..AbandonedAfter
        BY ExecutionAssumption
    <3> QED BY <3>1 DEF Init, EInit
  <2>3. lease \in [Proposal -> 0..NoLease]
      BY LeaseZero DEF Init, EInit
  <2>4. crashes \in 0..MaxCrashes
    <3>1. 0 \in 0..MaxCrashes
        BY ExecutionAssumption
    <3> QED BY <3>1 DEF Init, EInit
  <2>5. calling \in [Caller -> Calling]
      BY DEF Init, EInit, Calling
  <2> QED BY <1>1, <2>1, <2>2, <2>3, <2>4, <2>5 DEF Init, EInit, TypeOK, PInv
<1>4. ExecutionMatchesProposal /\ IRows /\ IFailures /\ VerifiedWasReached /\ StaleWroteNothing
    BY <1>2 DEF ExecutionMatchesProposal, IRows, IFailures, VerifiedWasReached,
       StaleWroteNothing
<1>5. IEdits /\ ICalls /\ IClaims
    BY DEF Init, EInit, IEdits, ICalls, IClaims, Active, Idle
<1>6. UncertainIsReported
    BY DEF Init, PInit, UncertainIsReported, UNCERTAIN, Absent
<1> QED BY <1>1, <1>3, <1>4, <1>5, <1>6 DEF IInv

\* Every step of every process keeps the invariant.
LEMMA InvStep == IInv /\ [Next]_vars => IInv'
<1> SUFFICES ASSUME IInv, [Next]_vars PROVE IInv'
    OBVIOUS
<1>1. CASE ProposalStep
    BY <1>1, ProposalStepInv
<1>2. ASSUME NEW c \in Caller, Call(c) \/ CallerFails(c) PROVE IInv'
    BY <1>2, PrepareLookupInv, PrepareInsertInv, PrepareRefusedInv, MarkWriteAttemptedInv,
       ReadPreconditionInv, SendEditInv, EditReturnsInv, ReadBackInv, FinalizeInv,
       CallerFailsInv DEF Call
<1>3. ASSUME NEW r \in Reconciler, Reconcile(r) \/ ReconcilerFails(r) PROVE IInv'
    BY <1>3, LeaseBatchInv, LeaseProposalInv, ReadAssigneeInv, ResolveInv,
       ReconcilerFailsInv DEF Reconcile, LeaseAbandoned
<1>4. ASSUME NEW p \in Proposal, ApplyEdit(p) \/ DropEdit(p) PROVE IInv'
    BY <1>4, ApplyEditInv, DropEditInv
<1>5. CASE Tick
    BY <1>5, TickInv
<1>6. CASE \E i \in Issue : SomeoneEdits(i)
    BY <1>6, SomeoneEditsInv
<1>7. CASE UNCHANGED vars
  <2>1. UNCHANGED <<pvars, exec, age, lease, outbox, calling, claims, jira, crashes>>
      BY <1>7 DEF vars, evars, jira
  <2>2. IClaims'
      BY <2>1 DEF IInv, IClaims, Rows, jira
  <2> QED BY <2>1, <2>2, OnlyClaims DEF IInv, TypeOK
<1> QED BY <1>1, <1>2, <1>3, <1>4, <1>5, <1>6, <1>7 DEF Next, SagaStep

\* The inductive invariant holds in every reachable state.
THEOREM Invariant == Spec => []IInv
BY InvInit, InvStep, PTL DEF Spec

\* Every row, call, claim and Jira request keeps its type.
THEOREM TypeCorrect == Spec => []TypeOK
<1>1. IInv => TypeOK
    BY DEF IInv
<1> QED BY <1>1, Invariant, PTL

\* The execution row and the proposal are always in the same state, whichever of
\* finalize and resolve stored the outcome.
THEOREM ExecutionAgreesWithProposal == Spec => []ExecutionMatchesProposal
<1>1. IInv => ExecutionMatchesProposal
    BY DEF IInv
<1> QED BY <1>1, Invariant, PTL

\* Jira is asked at most once per proposal to change the assignee, for any
\* number of concurrent calls, crashes and reconcilers.
THEOREM JiraEditedOnce == Spec => []EditOnce
<1>1. IInv => EditOnce
    BY DEF IInv, IEdits, EditOnce
<1> QED BY <1>1, Invariant, PTL

\* No request is sent that mark_write_attempted has not announced.
THEOREM EditsAreAnnounced == Spec => []EditIsAnnounced
<1>1. IInv => EditIsAnnounced
    BY DEF IInv, IEdits, EditIsAnnounced
<1> QED BY <1>1, Invariant, PTL

\* No request is sent without an approval on record.
THEOREM EditsAreApproved == Spec => []EditIsApproved
<1>1. IInv => EditIsApproved
    BY DEF IInv, IEdits, IRows, EditIsApproved
<1> QED BY <1>1, Invariant, PTL

\* executed_verified is stored only for an assignee that Jira has shown.
THEOREM VerifiedIsTrue == Spec => []VerifiedWasReached
<1>1. IInv => VerifiedWasReached
    BY DEF IInv
<1> QED BY <1>1, Invariant, PTL

\* A stale execution never asked Jira for anything.
THEOREM StaleIsTrue == Spec => []StaleWroteNothing
<1>1. IInv => StaleWroteNothing
    BY DEF IInv
<1> QED BY <1>1, Invariant, PTL

\* A failure whose stored result agrees with the write_attempted column means
\* that Jira neither made nor will make the change.
THEOREM ConsistentFailuresAreReal == Spec => []ConsistentFailureIsReal
<1>1. IInv => ConsistentFailureIsReal
    BY DEF IInv, IFailures, ConsistentFailureIsReal
<1> QED BY <1>1, Invariant, PTL

\* Every uncertain execution has its outbox event.
THEOREM UncertainReported == Spec => []UncertainIsReported
<1>1. IInv => UncertainIsReported
    BY DEF IInv
<1> QED BY <1>1, Invariant, PTL

\* The audit events of a proposal replay to its state, executions and
\* reconciliations included.
THEOREM ExecutionTrailsReplay == Spec => []TrailReplays
<1>1. IInv => TrailReplays
    BY DEF IInv, PInv
<1> QED BY <1>1, Invariant, PTL

\* The single Jira edit: sent at most once, after it was announced, and for an
\* approved proposal only.
THEOREM EditsAreAlwaysSafe == Spec => []EditsAreSafe
<1>1. EditOnce /\ EditIsAnnounced /\ EditIsApproved => EditsAreSafe
    BY DEF EditsAreSafe
<1> QED BY <1>1, JiraEditedOnce, EditsAreAnnounced, EditsAreApproved, PTL

\* What finalize and resolve store of the edit is what happened in Jira.
THEOREM OutcomesAreAlwaysTrue == Spec => []OutcomesAreTrue
<1>1. VerifiedWasReached /\ StaleWroteNothing /\ ConsistentFailureIsReal => OutcomesAreTrue
    BY DEF OutcomesAreTrue
<1> QED BY <1>1, VerifiedIsTrue, StaleIsTrue, ConsistentFailuresAreReal, PTL

\* Execution, proposal, outbox and audit trail tell one story.
THEOREM RecordsAlwaysAgree == Spec => []RecordsAgree
<1>1. ExecutionMatchesProposal /\ UncertainIsReported /\ TrailReplays => RecordsAgree
    BY DEF RecordsAgree
<1> QED BY <1>1, ExecutionAgreesWithProposal, UncertainReported, ExecutionTrailsReplay, PTL

----------------------------------------------------------------------------
(* The saga implements the abstract life cycle.                              *)

\* A step that changes neither a state nor a count is a stutter of the abstract
\* specification.
LEMMA Stutter ==
    ASSUME UNCHANGED <<state, edits>>
    PROVE  UNCHANGED Lifecycle!vars
BY DEF Lifecycle!vars

\* Storing an outcome is a Move.
LEMMA OutcomeMoves ==
    ASSUME NEW p \in Proposal, NEW row, NEW prior, StoreOutcome(p, row, prior),
           validate_transition(state[p], row.state), row.state \in States,
           row.state = STALE => edits[p] = 0,
           edits' = edits
    PROVE  Lifecycle!Next
<1>1. state' = [state EXCEPT ![p] = row.state]
    BY DEF StoreOutcome
<1>2. row.state = Lifecycle!STALE => p \notin {q \in Proposal : edits[q] > 0}
    BY DEF STALE, Lifecycle!STALE
<1>3. Lifecycle!validate_transition(state[p], row.state) /\ row.state \in Lifecycle!States
    BY DEF validate_transition, Lifecycle!validate_transition, ALLOWED_TRANSITIONS,
       Lifecycle!ALLOWED_TRANSITIONS, States, Lifecycle!States,
       PENDING, EXECUTING, EXECUTED_VERIFIED, EXECUTION_FAILED, UNCERTAIN, REJECTED,
       EXPIRED, STALE, Lifecycle!PENDING, Lifecycle!EXECUTING,
       Lifecycle!EXECUTED_VERIFIED, Lifecycle!EXECUTION_FAILED, Lifecycle!UNCERTAIN,
       Lifecycle!REJECTED, Lifecycle!EXPIRED, Lifecycle!STALE
<1>4. Lifecycle!Move(p)
    BY <1>1, <1>2, <1>3 DEF Lifecycle!Move
<1> QED BY <1>4 DEF Lifecycle!Next

\* Creating a proposal is a Create, deciding one is a Move: a pending proposal
\* has no execution, so nothing has been requested for it.
LEMMA ProposalStepRefines ==
    ASSUME IInv, ProposalStep
    PROVE  [Lifecycle!Next]_(Lifecycle!vars)
<1>0. PStep /\ edits' = edits
    BY DEF ProposalStep, evars
<1>1. ASSUME NEW p \in Proposal, NEW s \in SimId, NEW e \in 1..MaxTtl,
             CreateProposal(p, s, e)
      PROVE  Lifecycle!Next
  <2>1. Lifecycle!Create(p)
      BY <1>0, <1>1 DEF CreateProposal, Lifecycle!Create, Absent, PENDING,
         Lifecycle!Absent, Lifecycle!PENDING
  <2> QED BY <2>1 DEF Lifecycle!Next
<1>2. ASSUME NEW m \in Decider, CommitDecision(m)
      PROVE  Lifecycle!Next
  <2> DEFINE p == deciding[m].proposal
             target == DecisionTarget(deciding[m])
  <2>1. /\ p \in Proposal
        /\ state[p] = PENDING
        /\ target \in {EXPIRED, STALE, REJECTED, EXECUTING}
        /\ state' = [state EXCEPT ![p] = target]
      BY <1>2, DecisionTargetType DEF CommitDecision, DecisionAdmissible, IInv, PInv,
         PTypeOK, Command
  <2>2. ~(edits[p] > 0)
    <3>1. p \notin Rows
        BY <2>1 DEF IInv, IRows, PENDING, EXECUTING, EXECUTED_VERIFIED,
           EXECUTION_FAILED, UNCERTAIN, STALE
    <3> QED BY <2>1, <3>1 DEF IInv, IEdits
  <2> HIDE DEF p, target
  <2>3. Lifecycle!validate_transition(state[p], target) /\ target \in Lifecycle!States
      BY <2>1 DEF Lifecycle!validate_transition, Lifecycle!ALLOWED_TRANSITIONS,
         Lifecycle!States, PENDING, EXECUTING, REJECTED, EXPIRED, STALE,
         Lifecycle!PENDING, Lifecycle!EXECUTING, Lifecycle!REJECTED, Lifecycle!EXPIRED,
         Lifecycle!STALE
  <2>4. Lifecycle!Move(p)
      BY <1>0, <2>1, <2>2, <2>3 DEF Lifecycle!Move
  <2> QED BY <2>1, <2>4 DEF Lifecycle!Next
<1>3. CASE \E s \in SimId, d \in SimData : PersistSimulation(s, d)
    BY <1>0, <1>3, Stutter DEF PersistSimulation
<1>4. CASE \E m \in Decider, p \in Proposal, k \in DecisionKey,
              decision \in {"approve", "reject"} : OpenDecision(m, p, decision, k)
    BY <1>0, <1>4, Stutter DEF OpenDecision
<1>5. CASE \E m \in Decider : AbandonDecision(m)
    BY <1>0, <1>5, Stutter DEF AbandonDecision
<1>6. CASE \E i \in Issue : EvidenceChanges(i)
    BY <1>0, <1>6, Stutter DEF EvidenceChanges
<1> QED BY <1>0, <1>1, <1>2, <1>3, <1>4, <1>5, <1>6 DEF PStep

\* Sending the edit is a RequestEdit.
LEMMA SendEditRefines ==
    ASSUME IInv, NEW c \in Caller, SendEdit(c)
    PROVE  Lifecycle!Next
<1>0. PICK p \in Proposal : p = calling[c].proposal
    BY CallType DEF IInv, SendEdit
<1>1. /\ p \in Rows /\ edits[p] = 0 /\ exec[p].state # STALE
      /\ edits' = [edits EXCEPT ![p] = @ + 1] /\ state' = state
    BY <1>0 DEF IInv, SendEdit, ICalls, Active, IEdits, pvars
<1>2. state[p] \in {EXECUTING, UNCERTAIN, EXECUTED_VERIFIED, EXECUTION_FAILED}
    BY <1>1 DEF IInv, IRows, ExecutionMatchesProposal
<1>3. edits \in [Proposal -> Nat]
    BY DEF IInv, TypeOK
<1>4. {q \in Proposal : edits'[q] > 0} = {q \in Proposal : edits[q] > 0} \cup {p}
    BY <1>1, <1>3
<1>5. Lifecycle!RequestEdit(p)
    BY <1>1, <1>2, <1>4 DEF Lifecycle!RequestEdit, EXECUTING, UNCERTAIN,
       EXECUTED_VERIFIED, EXECUTION_FAILED, Lifecycle!EXECUTING, Lifecycle!UNCERTAIN,
       Lifecycle!EXECUTED_VERIFIED, Lifecycle!EXECUTION_FAILED
<1> QED BY <1>5 DEF Lifecycle!Next

\* finalize and resolve are Moves or stutters; a stale result found no edit.
LEMMA FinalizeRefines ==
    ASSUME IInv, NEW c \in Caller, Finalize(c)
    PROVE  [Lifecycle!Next]_(Lifecycle!vars)
<1> DEFINE p == calling[c].proposal
           result == calling[c].result
<1>1. /\ p \in Proposal /\ p \in Rows /\ result \in Outcomes
      /\ result = STALE => edits[p] = 0
      /\ edits' = edits
    BY CallType DEF IInv, Finalize, ICalls, Active, Results, Outcomes, IEdits, jira
<1>2. CASE exec[p].state # EXECUTING
    BY <1>1, <1>2, Stutter DEF Finalize
<1>3. CASE exec[p].state = EXECUTING
  <2> DEFINE row == [exec[p] EXCEPT !.state = result, !.recorded = exec[p].write_attempted]
  <2>1. StoreOutcome(p, row, EXECUTING) /\ validate_transition(state[p], result)
      BY <1>3 DEF Finalize
  <2>2. row.state = result /\ result \in States
    <3>1. exec[p] \in Row
        BY <1>1 DEF IInv, TypeOK
    <3> QED BY <1>1, <3>1 DEF Row, Outcomes, States
  <2> HIDE DEF row, p, result
  <2> QED BY <1>1, <2>1, <2>2, OutcomeMoves
<1> QED BY <1>2, <1>3

\* resolve never stores stale.
LEMMA ResolveRefines ==
    ASSUME IInv, NEW r \in Reconciler, Resolve(r)
    PROVE  [Lifecycle!Next]_(Lifecycle!vars)
<1>1. PICK k \in claims[r] :
         /\ k.verdict # "unread"
         /\ IF ResolveAdmissible(k)
            THEN /\ validate_transition(state[k.proposal], k.verdict)
                 /\ StoreOutcome(k.proposal,
                                 [exec[k.proposal] EXCEPT !.state = k.verdict,
                                                          !.recorded = k.write_attempted],
                                 exec[k.proposal].state)
            ELSE UNCHANGED <<exec, state, version, trail, outbox, lease>>
         /\ edits' = edits
    BY DEF Resolve, jira
<1> DEFINE p == k.proposal
<1>2. p \in Proposal /\ k.verdict \in {EXECUTED_VERIFIED, EXECUTION_FAILED, UNCERTAIN}
    BY <1>1 DEF IInv, TypeOK, Claim
<1>3. CASE ~ResolveAdmissible(k)
    BY <1>1, <1>3, Stutter
<1>4. CASE ResolveAdmissible(k)
  <2> DEFINE row == [exec[p] EXCEPT !.state = k.verdict, !.recorded = k.write_attempted]
  <2>1. StoreOutcome(p, row, exec[p].state) /\ validate_transition(state[p], k.verdict)
      BY <1>1, <1>4
  <2>2. row.state = k.verdict /\ k.verdict \in States /\ k.verdict # STALE
    <3>1. exec[p] \in Row
        BY <1>2 DEF IInv, TypeOK
    <3> QED BY <1>2, <3>1 DEF Row, States, EXECUTED_VERIFIED, EXECUTION_FAILED,
               UNCERTAIN, STALE
  <2> HIDE DEF row, p
  <2> QED BY <1>1, <1>2, <2>1, <2>2, OutcomeMoves
<1> QED BY <1>3, <1>4

\* Every behaviour of the approval saga is, seen through the proposal states and
\* the requests sent, a behaviour of ProposalLifecycle: proposals move only
\* along the allowed transitions, and Jira is asked once, for approved proposals.
THEOREM SagaImplementsLifecycle == Spec => LifecycleSpec
<1>1. Init => Lifecycle!Init
    BY DEF Init, PInit, EInit, Lifecycle!Init, Absent, Lifecycle!Absent
<1>2. IInv /\ [Next]_vars => [Lifecycle!Next]_(Lifecycle!vars)
  <2> SUFFICES ASSUME IInv, [Next]_vars PROVE [Lifecycle!Next]_(Lifecycle!vars)
      OBVIOUS
  <2>1. CASE ProposalStep
      BY <2>1, ProposalStepRefines
  <2>2. ASSUME NEW c \in Caller, Call(c) \/ CallerFails(c)
        PROVE  [Lifecycle!Next]_(Lifecycle!vars)
    <3>1. CASE SendEdit(c) \/ Finalize(c)
        BY <3>1, SendEditRefines, FinalizeRefines
    <3>2. CASE ~(SendEdit(c) \/ Finalize(c))
      <4>1. UNCHANGED <<state, edits>>
          BY <2>2, <3>2 DEF Call, CallerFails, PrepareLookup, PrepareInsert, PrepareRefused,
             MarkWriteAttempted, ReadPrecondition, EditReturns, ReadBack, pvars, jira
      <4> QED BY <4>1, Stutter
    <3> QED BY <3>1, <3>2
  <2>3. ASSUME NEW r \in Reconciler, Reconcile(r) \/ ReconcilerFails(r)
        PROVE  [Lifecycle!Next]_(Lifecycle!vars)
    <3>1. CASE Resolve(r)
        BY <3>1, ResolveRefines
    <3>2. CASE ~Resolve(r)
      <4>1. UNCHANGED <<state, edits>>
          BY <2>3, <3>2 DEF Reconcile, ReconcilerFails, LeaseAbandoned, LeaseBatch,
             LeaseProposal, ReadAssignee, pvars, jira
      <4> QED BY <4>1, Stutter
    <3> QED BY <3>1, <3>2
  <2>4. ASSUME NEW p \in Proposal, ApplyEdit(p) \/ DropEdit(p)
        PROVE  [Lifecycle!Next]_(Lifecycle!vars)
      BY <2>4, Stutter DEF ApplyEdit, DropEdit, pvars
  <2>5. CASE Tick
      BY <2>5, Stutter DEF Tick, jira
  <2>6. CASE \E i \in Issue : SomeoneEdits(i)
      BY <2>6, Stutter DEF SomeoneEdits, pvars
  <2>7. CASE UNCHANGED vars
      BY <2>7, Stutter DEF vars, pvars, evars
  <2> QED BY <2>1, <2>2, <2>3, <2>4, <2>5, <2>6, <2>7 DEF Next, SagaStep
<1> QED BY <1>1, <1>2, Invariant, PTL DEF Spec, LifecycleSpec, Lifecycle!Spec

=============================================================================
