----------------------------- MODULE Proposals -----------------------------
(***************************************************************************)
(* Proposals and the decisions of managers on them:                        *)
(*   packages/persistence/.../proposal_repository.py, simulation_repository *)
(*   domain/workforce_risk/proposals/models.py                              *)
(*   services/workforce-risk-mcp/.../tools/proposals.py                     *)
(*                                                                         *)
(* A proposal is named by its creation idempotency key, which is unique in  *)
(* the table: a second create with the same key returns the row that is     *)
(* there and changes nothing.  Every action is one database transaction or  *)
(* one read made outside the row lock.                                      *)
(***************************************************************************)
EXTENDS Naturals, Sequences, ProposalState

CONSTANTS Proposal,     \* creation idempotency keys, one per proposal
          Issue,        \* Jira issues
          Account,      \* Jira account ids
          Fingerprint,  \* evidence fingerprints
          SimId,        \* simulation ids
          SimData,      \* what a simulation may say
          Decider,      \* concurrent decide_reassignment_proposal calls
          DecisionKey,  \* idempotency keys of decisions
          MaxTtl        \* bound: ticks from creation to expires_at

ASSUME SimDataAssumption ==
    SimData \subseteq [task : Issue, current : Account, proposed : Account,
                       candidates : SUBSET Account,
                       confidence : {"low", "medium", "high"},
                       fingerprint : Fingerprint]

ASSUME MaxTtlAssumption == MaxTtl \in Nat \ {0}

VARIABLES stored,     \* stored[s]: the simulation saved under id s, or NoSim
          state,      \* state[p]: ReassignmentProposal.state, Absent without a row
          version,    \* version[p]: ReassignmentProposal.version
          sim,        \* sim[p]: the simulation's columns copied into the row
          ttl,        \* ttl[p]: ticks left until expires_at
          evidence,   \* evidence[i]: the fingerprint of issue i's evidence now
          decisions,  \* the ApprovalDecision table
          deciding,   \* deciding[m]: the command of call m, or NoCommand
          trail       \* trail[p]: prior_state and new_state of p's audit events,
                      \* in order; Absent for an event without a prior_state

pvars == <<stored, state, version, sim, ttl, evidence, decisions, deciding, trail>>

NoSim == [task |-> "none"]
NoCommand == [proposal |-> "none"]

Decisions == [key : DecisionKey, proposal : Proposal,
              decision : {"approve", "reject"}, actor : Decider]

\* ProposalDecisionCommand, with what the caller saw of the proposal when it
\* sent it.  late stands for decided_at: whether expires_at <= decided_at.
Command == [proposal : Proposal, version : Nat, seen : States,
            decision : {"approve", "reject"}, key : DecisionKey,
            late : BOOLEAN, fingerprint : Fingerprint]

PInit ==
    /\ stored = [s \in SimId |-> NoSim]
    /\ state = [p \in Proposal |-> Absent]
    /\ version = [p \in Proposal |-> 0]
    /\ sim = [p \in Proposal |-> NoSim]
    /\ ttl = [p \in Proposal |-> 0]
    /\ evidence \in [Issue -> Fingerprint]
    /\ decisions = {}
    /\ deciding = [m \in Decider |-> NoCommand]
    /\ trail = [p \in Proposal |-> <<>>]

----------------------------------------------------------------------------

\* StoredSimulation.validate_candidate
validate_candidate(d) ==
    /\ d.current # d.proposed
    /\ d.proposed \in d.candidates
    /\ d.confidence \in {"medium", "high"}

\* SimulationRepository.persist.  An id that is taken is left alone: equal data
\* is returned, different data raises.
PersistSimulation(s, d) ==
    /\ validate_candidate(d)
    /\ stored[s] = NoSim
    /\ stored' = [stored EXCEPT ![s] = d]
    /\ UNCHANGED <<state, version, sim, ttl, evidence, decisions, deciding, trail>>

\* ProposalRepository.create_from_stored_simulation and create, for a key that
\* has no row; expires_at lies e > 0 ticks ahead (validate_expiry).
CreateProposal(p, s, e) ==
    /\ stored[s] # NoSim
    /\ state[p] = Absent
    /\ state' = [state EXCEPT ![p] = PENDING]
    /\ version' = [version EXCEPT ![p] = 1]
    /\ sim' = [sim EXCEPT ![p] = stored[s]]
    /\ ttl' = [ttl EXCEPT ![p] = e]
    /\ trail' = [trail EXCEPT ![p] = Append(@, <<Absent, PENDING>>)]
    /\ UNCHANGED <<stored, evidence, decisions, deciding>>

----------------------------------------------------------------------------
(* Deciding.  The call stamps decided_at, reads the current fingerprint and  *)
(* looks for a decision with its key, all without the row lock; the rest of  *)
(* the transaction runs under SELECT ... FOR UPDATE.                         *)
(*                                                                           *)
(* In all modules a definition X_Variant is a faulty form of the X that      *)
(* follows it.  No specification uses it: it is there to show that the       *)
(* properties notice the fault.                                              *)

\* The unlocked reads.  A key that already has a decision ends the call with a
\* view of that decision's proposal, which changes nothing.
OpenDecision(m, p, decision, k) ==
    /\ deciding[m] = NoCommand
    /\ state[p] # Absent
    /\ \A d \in decisions : d.key # k
    /\ deciding' = [deciding EXCEPT ![m] =
                      [proposal |-> p, version |-> version[p], seen |-> state[p],
                       decision |-> decision, key |-> k,
                       late |-> ttl[p] = 0,
                       fingerprint |-> evidence[sim[p].task]]]
    /\ UNCHANGED <<stored, state, version, sim, ttl, evidence, decisions, trail>>

DecisionTarget_ForgetsReject(c) ==
    IF c.late THEN EXPIRED
    ELSE IF sim[c.proposal].fingerprint # c.fingerprint THEN STALE
    ELSE EXECUTING

\* The state decide moves a pending proposal to: expiry first, then freshness.
DecisionTarget(c) ==
    IF c.late THEN EXPIRED
    ELSE IF sim[c.proposal].fingerprint # c.fingerprint THEN STALE
    ELSE IF c.decision = "reject" THEN REJECTED
    ELSE EXECUTING

\* The checks made under the lock: the version the caller saw, and pending.
DecisionAdmissible(c) ==
    /\ version[c.proposal] = c.version
    /\ state[c.proposal] = PENDING
    /\ validate_transition(state[c.proposal], DecisionTarget(c))

DecidedVersion_Unchanged(v) == v

\* The bulk UPDATE adds 1 and, by synchronize_session, refreshes the loaded
\* row; record.version += 1 then adds 1 to the refreshed value.
DecidedVersion(v) == (v + 1) + 1

DecisionKeyFree_Unchecked(k) == TRUE

\* uq_decision_env_idempotency: the insert fails for a key that has a row.
DecisionKeyFree(k) == \A d \in decisions : d.key # k

ApprovalRow(c, m) ==
    [key |-> c.key, proposal |-> c.proposal, decision |-> c.decision, actor |-> m]

CommitDecision(m) ==
    LET c == deciding[m]
        target == DecisionTarget(c)
    IN  /\ c # NoCommand
        /\ DecisionAdmissible(c)
        /\ DecisionKeyFree(c.key)
        /\ state' = [state EXCEPT ![c.proposal] = target]
        /\ version' = [version EXCEPT ![c.proposal] = DecidedVersion(@)]
        /\ decisions' = decisions \cup {ApprovalRow(c, m)}
        /\ trail' = [trail EXCEPT ![c.proposal] = Append(@, <<PENDING, target>>)]
        /\ deciding' = [deciding EXCEPT ![m] = NoCommand]
        /\ UNCHANGED <<stored, sim, ttl, evidence>>

\* The transaction raises or is rolled back, or its process dies: nothing is
\* stored.  It must be refused when a check fails, and any transaction may be
\* (a lost connection, a collision on the audit sequence).
AbandonDecision(m) ==
    /\ deciding[m] # NoCommand
    /\ deciding' = [deciding EXCEPT ![m] = NoCommand]
    /\ UNCHANGED <<stored, state, version, sim, ttl, evidence, decisions, trail>>

----------------------------------------------------------------------------

\* The world: Jira evidence changes, and time passes.
EvidenceChanges(i) ==
    /\ \E f \in Fingerprint \ {evidence[i]} : evidence' = [evidence EXCEPT ![i] = f]
    /\ UNCHANGED <<stored, state, version, sim, ttl, decisions, deciding, trail>>

ExpiryTick == ttl' = [p \in Proposal |-> IF ttl[p] > 0 THEN ttl[p] - 1 ELSE 0]

PTick ==
    /\ \E p \in Proposal : ttl[p] > 0
    /\ ExpiryTick
    /\ UNCHANGED <<stored, state, version, sim, evidence, decisions, deciding, trail>>

PStep ==
    \/ \E s \in SimId, d \in SimData : PersistSimulation(s, d)
    \/ \E p \in Proposal, s \in SimId, e \in 1..MaxTtl : CreateProposal(p, s, e)
    \/ \E m \in Decider, p \in Proposal, k \in DecisionKey,
          decision \in {"approve", "reject"} : OpenDecision(m, p, decision, k)
    \/ \E m \in Decider : CommitDecision(m) \/ AbandonDecision(m)
    \/ \E i \in Issue : EvidenceChanges(i)

PNext == PStep \/ PTick

PSpec == PInit /\ [][PNext]_pvars

----------------------------------------------------------------------------
(* Properties                                                               *)

\* Every variable has the type of its column or request model.
PTypeOK ==
    /\ stored \in [SimId -> SimData \cup {NoSim}]
    /\ state \in [Proposal -> States \cup {Absent}]
    /\ version \in [Proposal -> Nat]
    /\ sim \in [Proposal -> SimData \cup {NoSim}]
    /\ ttl \in [Proposal -> 0..MaxTtl]
    /\ evidence \in [Issue -> Fingerprint]
    /\ decisions \subseteq Decisions
    /\ deciding \in [Decider -> Command \cup {NoCommand}]
    /\ trail \in [Proposal -> Seq((States \cup {Absent}) \X States)]

\* However decide calls race, on one proposal or with one key on two, a
\* proposal has at most one decision and a key decides at most one proposal.
OneDecision ==
    \A d, e \in decisions :
        d.key = e.key \/ d.proposal = e.proposal => d = e

\* The decision table explains the state (decide writes both in one
\* transaction): a pending proposal has no decision, any later one has, a
\* proposal that went to execution was approved and a rejected one rejected.
DecisionExplainsState ==
    \A p \in Proposal :
        LET made == {d.decision : d \in {x \in decisions : x.proposal = p}}
        IN  /\ state[p] \in {Absent, PENDING} => made = {}
            /\ state[p] \notin {Absent, PENDING} => made # {}
            /\ state[p] \in {EXECUTING, EXECUTED_VERIFIED, EXECUTION_FAILED,
                             UNCERTAIN} => made = {"approve"}
            /\ state[p] = REJECTED => made = {"reject"}

\* The version is a sound optimistic-lock token: a caller whose version is
\* still current saw the state the proposal is in, however long ago it looked.
VersionIdentifiesState ==
    \A m \in Decider :
        deciding[m] # NoCommand /\ deciding[m].version = version[deciding[m].proposal]
            => deciding[m].seen = state[deciding[m].proposal]

Replays(events, current) ==
    /\ events = <<>> <=> current = Absent
    /\ events # <<>> => /\ events[1] = <<Absent, PENDING>>
                       /\ events[Len(events)][2] = current
    /\ \A i \in 1..(Len(events) - 1) :
          IF events[i + 1][1] = Absent THEN events[i + 1][2] = events[i][2]
                                       ELSE events[i + 1][1] = events[i][2]

\* The audit events of a proposal replay to its state: the last new state is
\* the row's, each recorded prior state is the new state of the event before,
\* and an event without one reports no change.  finalize and decide hard-code
\* the prior state they record, so nothing but the other checks makes it true.
TrailReplays == \A p \in Proposal : Replays(trail[p], state[p])

----------------------------------------------------------------------------
(* The inductive invariant behind these properties.                          *)

\* A move to somebody else, who was a candidate, and not a guess.
WorthDeciding(d) ==
    d.current # d.proposed /\ d.proposed \in d.candidates /\ d.confidence # "low"

\* What is stored was validated, and every proposal is made of it.
PSims ==
    /\ \A s \in SimId : stored[s] # NoSim => WorthDeciding(stored[s])
    /\ \A p \in Proposal :
          state[p] # Absent => sim[p] \in SimData /\ WorthDeciding(sim[p])

\* A command names a proposal that exists and a version it has had.
PCommands ==
    \A m \in Decider :
        deciding[m] # NoCommand =>
            /\ state[deciding[m].proposal] # Absent
            /\ deciding[m].version <= version[deciding[m].proposal]

\* The inductive invariant.  With PSims it also says that what a manager decides
\* on, and an execution later carries out, is a real move to an evaluated
\* candidate with more than low confidence, whatever happened since it was stored.
PInv ==
    /\ PTypeOK /\ PSims /\ PCommands
    /\ OneDecision /\ DecisionExplainsState
    /\ VersionIdentifiesState
    /\ TrailReplays

=============================================================================
