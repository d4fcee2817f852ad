-------------------------- MODULE ProposalsProofs --------------------------
(***************************************************************************)
(* Proofs about Proposals, for every set of proposals, managers, keys and   *)
(* simulations.                                                            *)
(***************************************************************************)
EXTENDS Proposals, TLAPS

\* The target decide computes is one of four states, whatever the command says.
LEMMA DecisionTargetType ==
    ASSUME NEW c
    PROVE  DecisionTarget(c) \in {EXPIRED, STALE, REJECTED, EXECUTING}
BY DEF DecisionTarget, EXPIRED, STALE, REJECTED, EXECUTING

\* The types of the events of a trail.
Entry == (States \cup {Absent}) \X States

\* A replaying trail still replays after an event that records the state it
\* leaves, or that records none and changes nothing.
LEMMA ReplaysAppend ==
    ASSUME NEW events \in Seq(Entry), NEW s \in States, NEW target \in States,
           NEW prior \in {s, Absent},
           Replays(events, s),
           prior = Absent => target = s
    PROVE  Replays(Append(events, <<prior, target>>), target)
<1>1. Absent \notin States
    BY DEF States, Absent, PENDING, EXECUTING, EXECUTED_VERIFIED, EXECUTION_FAILED,
           UNCERTAIN, REJECTED, EXPIRED, STALE
<1> DEFINE longer == Append(events, <<prior, target>>)
<1>2. Len(events) \in Nat /\ events # <<>> /\ Len(events) > 0
    BY <1>1 DEF Replays
<1>3. /\ Len(longer) = Len(events) + 1
      /\ longer # <<>>
      /\ \A i \in 1..Len(events) : longer[i] = events[i]
      /\ longer[Len(events) + 1] = <<prior, target>>
    OBVIOUS
<1> HIDE DEF longer
<1>4. longer[1] = <<Absent, PENDING>> /\ longer[Len(longer)][2] = target
    BY <1>2, <1>3 DEF Replays
<1>5. ASSUME NEW i \in 1..(Len(longer) - 1)
      PROVE  IF longer[i + 1][1] = Absent THEN longer[i + 1][2] = longer[i][2]
                                          ELSE longer[i + 1][1] = longer[i][2]
  <2>1. CASE i = Len(events)
      BY <2>1, <1>1, <1>2, <1>3 DEF Replays
  <2>2. CASE i # Len(events)
    <3>1. i \in 1..(Len(events) - 1) /\ i \in 1..Len(events) /\ i + 1 \in 1..Len(events)
        BY <2>2, <1>2, <1>3
    <3>2. longer[i] = events[i] /\ longer[i + 1] = events[i + 1]
        BY <3>1, <1>3
    <3> QED BY <3>1, <3>2 DEF Replays
  <2> QED BY <2>1, <2>2
<1>6. Replays(longer, target)
    BY <1>1, <1>3, <1>4, <1>5 DEF Replays
<1> QED BY <1>6 DEF longer

\* The trail of a new proposal replays.
LEMMA ReplaysCreate ==
    ASSUME NEW events \in Seq(Entry), Replays(events, Absent)
    PROVE  Replays(Append(events, <<Absent, PENDING>>), PENDING)
<1>1. events = <<>>
    BY DEF Replays
<1>2. Append(events, <<Absent, PENDING>>) = << <<Absent, PENDING>> >>
    BY <1>1
<1>3. Len(<< <<Absent, PENDING>> >>) = 1 /\ << <<Absent, PENDING>> >> # <<>>
    OBVIOUS
<1>4. PENDING # Absent
    BY DEF PENDING, Absent
<1> QED BY <1>2, <1>3, <1>4 DEF Replays

\* The initial database and the initial calls are well typed.
LEMMA PTypeInit == PInit => PTypeOK
<1> SUFFICES ASSUME PInit PROVE PTypeOK
    OBVIOUS
<1>1. ttl \in [Proposal -> 0..MaxTtl]
    BY MaxTtlAssumption DEF PInit
<1>2. trail \in [Proposal -> Seq((States \cup {Absent}) \X States)]
    BY DEF PInit
<1> QED BY <1>1, <1>2 DEF PInit, PTypeOK


\* Every operation of the proposal and simulation repositories keeps the types.
LEMMA PTypeStep == PTypeOK /\ PSims /\ PStep => PTypeOK'
<1> SUFFICES ASSUME PTypeOK, PSims, PStep PROVE PTypeOK'
    OBVIOUS
<1>0. States = {PENDING, "approved", EXECUTING, EXECUTED_VERIFIED, EXECUTION_FAILED,
                UNCERTAIN, REJECTED, EXPIRED, STALE}
    BY DEF States
<1>1. ASSUME NEW s \in SimId, NEW d \in SimData, PersistSimulation(s, d)
      PROVE  PTypeOK'
    BY <1>1 DEF PersistSimulation, PTypeOK
<1>2. ASSUME NEW p \in Proposal, NEW s \in SimId, NEW e \in 1..MaxTtl,
             CreateProposal(p, s, e)
      PROVE  PTypeOK'
  <2>1. ttl' \in [Proposal -> 0..MaxTtl]
      BY <1>2, MaxTtlAssumption DEF CreateProposal, PTypeOK
  <2>2. <<Absent, PENDING>> \in (States \cup {Absent}) \X States
      BY <1>0
  <2>3. trail' \in [Proposal -> Seq((States \cup {Absent}) \X States)]
      BY <1>2, <2>2 DEF CreateProposal, PTypeOK
  <2>4. state' \in [Proposal -> States \cup {Absent}] /\ version' \in [Proposal -> Nat]
      BY <1>2, <1>0 DEF CreateProposal, PTypeOK
  <2> QED BY <1>2, <2>1, <2>3, <2>4 DEF CreateProposal, PTypeOK
<1>3. ASSUME NEW m \in Decider, NEW p \in Proposal, NEW k \in DecisionKey,
             NEW decision \in {"approve", "reject"}, OpenDecision(m, p, decision, k)
      PROVE  PTypeOK'
  <2>1. sim[p].task \in Issue
      BY <1>3, SimDataAssumption DEF OpenDecision, PSims
  <2>2. [proposal |-> p, version |-> version[p], seen |-> state[p],
         decision |-> decision, key |-> k, late |-> ttl[p] = 0,
         fingerprint |-> evidence[sim[p].task]] \in Command
      BY <1>3, <2>1 DEF OpenDecision, PTypeOK, Command
  <2> QED BY <1>3, <2>2 DEF OpenDecision, PTypeOK
<1>4. ASSUME NEW m \in Decider, CommitDecision(m)
      PROVE  PTypeOK'
  <2> DEFINE c == deciding[m]
             target == DecisionTarget(c)
  <2>1. c \in Command /\ c.proposal \in Proposal /\ target \in States
      BY <1>4, <1>0, DecisionTargetType DEF CommitDecision, PTypeOK, Command
  <2>2. ApprovalRow(c, m) \in Decisions
      BY <2>1 DEF ApprovalRow, Decisions, Command
  <2>3. <<PENDING, target>> \in (States \cup {Absent}) \X States
      BY <1>0, <2>1
  <2> HIDE DEF c, target
  <2>4. trail' \in [Proposal -> Seq((States \cup {Absent}) \X States)]
      BY <1>4, <2>1, <2>3 DEF CommitDecision, PTypeOK, c, target
  <2>5. state' \in [Proposal -> States \cup {Absent}] /\ version' \in [Proposal -> Nat]
      BY <1>4, <2>1 DEF CommitDecision, PTypeOK, c, target, DecidedVersion
  <2>6. decisions' \subseteq Decisions /\ deciding' \in [Decider -> Command \cup {NoCommand}]
      BY <1>4, <2>2 DEF CommitDecision, PTypeOK, c
  <2> QED BY <1>4, <2>4, <2>5, <2>6 DEF CommitDecision, PTypeOK
<1>5. ASSUME NEW m \in Decider, AbandonDecision(m)
      PROVE  PTypeOK'
    BY <1>5 DEF AbandonDecision, PTypeOK
<1>6. ASSUME NEW i \in Issue, EvidenceChanges(i)
      PROVE  PTypeOK'
    BY <1>6 DEF EvidenceChanges, PTypeOK
<1> QED BY <1>1, <1>2, <1>3, <1>4, <1>5, <1>6 DEF PStep

\* A decided proposal was pending, has one decision and a new version.
LEMMA PInvStep == PInv /\ PStep => PInv'
<1> SUFFICES ASSUME PInv, PStep PROVE PInv'
    OBVIOUS
<1> USE DEF PInv
<1>0. PTypeOK'
    BY PTypeStep
<1>1. ASSUME NEW s \in SimId, NEW d \in SimData, PersistSimulation(s, d)
      PROVE  PInv'
  <2>1. PSims'
      BY <1>1 DEF PersistSimulation, PSims, PTypeOK, validate_candidate, WorthDeciding
  <2> QED BY <1>0, <1>1, <2>1 DEF PersistSimulation, PCommands, OneDecision,
             DecisionExplainsState, VersionIdentifiesState, TrailReplays
<1>2. ASSUME NEW p \in Proposal, NEW s \in SimId, NEW e \in 1..MaxTtl,
             CreateProposal(p, s, e)
      PROVE  PInv'
  <2>1. PSims'
      BY <1>2 DEF CreateProposal, PSims, PTypeOK, WorthDeciding
  <2>2. PCommands'
      BY <1>2 DEF CreateProposal, PCommands, PTypeOK, Command, Absent, PENDING
  <2>3. OneDecision' /\ DecisionExplainsState'
      BY <1>2 DEF CreateProposal, OneDecision, DecisionExplainsState, PTypeOK, Absent,
                  PENDING, EXECUTING, EXECUTED_VERIFIED, EXECUTION_FAILED, UNCERTAIN,
                  REJECTED
  <2>4. VersionIdentifiesState'
      BY <1>2 DEF CreateProposal, PCommands, VersionIdentifiesState, PTypeOK, Command
  <2>5. TrailReplays'
    <3>1. ASSUME NEW q \in Proposal PROVE Replays(trail'[q], state'[q])
      <4>1. CASE q = p
          BY <1>2, <4>1, ReplaysCreate DEF CreateProposal, TrailReplays, PTypeOK, Entry
      <4>2. CASE q # p
          BY <1>2, <4>2 DEF CreateProposal, TrailReplays, PTypeOK
      <4> QED BY <4>1, <4>2
    <3> QED BY <3>1 DEF TrailReplays
  <2> QED BY <1>0, <2>1, <2>2, <2>3, <2>4, <2>5
<1>3. ASSUME NEW m \in Decider, NEW p \in Proposal, NEW k \in DecisionKey,
             NEW decision \in {"approve", "reject"}, OpenDecision(m, p, decision, k)
      PROVE  PInv'
  <2>1. PCommands' /\ VersionIdentifiesState'
      BY <1>3 DEF OpenDecision, PCommands, VersionIdentifiesState, PTypeOK
  <2> QED BY <1>0, <1>3, <2>1 DEF OpenDecision, PSims, OneDecision,
             DecisionExplainsState, TrailReplays, WorthDeciding
<1>4. ASSUME NEW m \in Decider, CommitDecision(m)
      PROVE  PInv'
  <2> DEFINE c == deciding[m]
             target == DecisionTarget(c)
  <2>1. /\ c \in Command /\ c.proposal \in Proposal /\ c # NoCommand
        /\ state[c.proposal] = PENDING
        /\ target \in {EXPIRED, STALE, REJECTED, EXECUTING}
      BY <1>4, DecisionTargetType DEF CommitDecision, DecisionAdmissible, PTypeOK, Command
  <2>2. /\ state' = [state EXCEPT ![c.proposal] = target]
        /\ version' = [version EXCEPT ![c.proposal] = (@ + 1) + 1]
        /\ decisions' = decisions \cup {ApprovalRow(c, m)}
        /\ trail' = [trail EXCEPT ![c.proposal] = Append(@, <<PENDING, target>>)]
        /\ deciding' = [deciding EXCEPT ![m] = NoCommand]
        /\ stored' = stored /\ sim' = sim
        /\ \A d \in decisions : d.key # c.key
        /\ target = EXECUTING => c.decision = "approve"
        /\ target = REJECTED => c.decision = "reject"
      BY <1>4, <2>1 DEF CommitDecision, DecidedVersion, DecisionKeyFree, DecisionTarget,
         Command, EXPIRED, STALE, REJECTED, EXECUTING
  <2> HIDE DEF c, target
  <2>3. PSims'
      BY <2>1, <2>2 DEF PSims, PTypeOK, WorthDeciding, PENDING, Absent
  <2>4. PCommands'
      BY <2>1, <2>2 DEF PCommands, PTypeOK, Command, PENDING, Absent, EXPIRED, STALE,
                        REJECTED, EXECUTING
  <2>5. OneDecision' /\ DecisionExplainsState'
    <3>1. /\ ApprovalRow(c, m).key = c.key
          /\ ApprovalRow(c, m).proposal = c.proposal
          /\ ApprovalRow(c, m).decision = c.decision
        BY DEF ApprovalRow
    <3>2. \A d \in decisions : d.proposal # c.proposal
        BY <2>1 DEF DecisionExplainsState, PENDING
    <3>3. OneDecision'
        BY <2>2, <3>1, <3>2 DEF OneDecision
    <3>4. ASSUME NEW q \in Proposal
          PROVE  LET made == {d.decision : d \in {x \in decisions' : x.proposal = q}}
                 IN  /\ state'[q] \in {Absent, PENDING} => made = {}
                     /\ state'[q] \notin {Absent, PENDING} => made # {}
                     /\ state'[q] \in {EXECUTING, EXECUTED_VERIFIED, EXECUTION_FAILED,
                                       UNCERTAIN} => made = {"approve"}
                     /\ state'[q] = REJECTED => made = {"reject"}
      <4>1. CASE q = c.proposal
        <5>1. {x \in decisions' : x.proposal = q} = {ApprovalRow(c, m)}
            BY <2>2, <3>1, <3>2, <4>1
        <5>2. {d.decision : d \in {x \in decisions' : x.proposal = q}} = {c.decision}
            BY <3>1, <5>1
        <5>3. state'[q] = target
            BY <2>1, <2>2, <4>1 DEF PTypeOK
        <5> QED BY <2>1, <2>2, <5>2, <5>3 DEF Absent, PENDING, EXECUTING,
                   EXECUTED_VERIFIED, EXECUTION_FAILED, UNCERTAIN, REJECTED, EXPIRED, STALE
      <4>2. CASE q # c.proposal
        <5>1. {x \in decisions' : x.proposal = q} = {x \in decisions : x.proposal = q}
            BY <2>2, <3>1, <4>2
        <5>2. state'[q] = state[q]
            BY <2>2, <4>2 DEF PTypeOK
        <5> QED BY <5>1, <5>2 DEF DecisionExplainsState
      <4> QED BY <4>1, <4>2
    <3> QED BY <3>3, <3>4 DEF DecisionExplainsState
  <2>6. VersionIdentifiesState'
      BY <2>1, <2>2 DEF PCommands, VersionIdentifiesState, PTypeOK, Command
  <2>7. TrailReplays'
    <3>1. ASSUME NEW q \in Proposal PROVE Replays(trail'[q], state'[q])
      <4>1. CASE q = c.proposal
        <5>1. target \in States /\ PENDING \in States
            BY <2>1 DEF States
        <5>2. Replays(Append(trail[q], <<PENDING, target>>), target)
            BY <2>1, <4>1, <5>1, ReplaysAppend DEF TrailReplays, PTypeOK, Entry,
               PENDING, Absent
        <5> QED BY <2>2, <4>1, <5>2 DEF PTypeOK
      <4>2. CASE q # c.proposal
          BY <2>2, <4>2 DEF TrailReplays, PTypeOK
      <4> QED BY <4>1, <4>2
    <3> QED BY <3>1 DEF TrailReplays
  <2> QED BY <1>0, <2>3, <2>4, <2>5, <2>6, <2>7
<1>5. ASSUME NEW m \in Decider, AbandonDecision(m)
      PROVE  PInv'
  <2>1. PSims' /\ PCommands' /\ VersionIdentifiesState'
      BY <1>5 DEF AbandonDecision, PTypeOK, PSims, PCommands, VersionIdentifiesState,
                  WorthDeciding
  <2> QED BY <1>0, <1>5, <2>1 DEF AbandonDecision, OneDecision, DecisionExplainsState, TrailReplays
<1>6. ASSUME NEW i \in Issue, EvidenceChanges(i)
      PROVE  PInv'
  <2>1. PSims' /\ PCommands' /\ VersionIdentifiesState'
      BY <1>6 DEF EvidenceChanges, PTypeOK, PSims, PCommands, VersionIdentifiesState,
                  WorthDeciding
  <2> QED BY <1>0, <1>6, <2>1 DEF EvidenceChanges, OneDecision, DecisionExplainsState, TrailReplays
<1> QED BY <1>1, <1>2, <1>3, <1>4, <1>5, <1>6 DEF PStep

\* Nothing but the clock of a proposal's expiry moves: the invariant stays.
LEMMA PInvClock ==
    ASSUME PInv,
           ttl' \in [Proposal -> 0..MaxTtl],
           UNCHANGED <<stored, state, version, sim, evidence, decisions, deciding, trail>>
    PROVE  PInv'
<1> USE DEF PInv
<1>1. PTypeOK'
    BY DEF PTypeOK
<1>2. PSims' /\ PCommands' /\ VersionIdentifiesState'
    BY DEF PSims, PCommands, VersionIdentifiesState, WorthDeciding
<1> QED BY <1>1, <1>2 DEF OneDecision, DecisionExplainsState, TrailReplays

\* Time runs down to zero and stops there.
LEMMA ExpiryTickType ==
    ASSUME ttl \in [Proposal -> 0..MaxTtl], ExpiryTick
    PROVE  ttl' \in [Proposal -> 0..MaxTtl]
BY MaxTtlAssumption DEF ExpiryTick

\* An empty database satisfies the invariant.
LEMMA PInvInit == PInit => PInv
<1> SUFFICES ASSUME PInit PROVE PInv
    OBVIOUS
<1>1. PTypeOK
    BY PTypeInit
<1>2. PSims /\ PCommands /\ OneDecision /\ VersionIdentifiesState
    BY DEF PInit, PSims, PCommands, OneDecision, VersionIdentifiesState
<1>3. DecisionExplainsState
    BY DEF PInit, DecisionExplainsState, Absent, PENDING, EXECUTING, EXECUTED_VERIFIED,
           EXECUTION_FAILED, UNCERTAIN, REJECTED
<1>4. TrailReplays
    BY DEF PInit, TrailReplays, Replays
<1> QED BY <1>1, <1>2, <1>3, <1>4 DEF PInv

\* decide, create and persist keep the invariant in every reachable state,
\* whatever calls race: the other theorems of this module are its parts.
THEOREM ProposalsInvariant == PSpec => []PInv
<1>1. PInv /\ [PNext]_pvars => PInv'
  <2> SUFFICES ASSUME PInv, [PNext]_pvars PROVE PInv'
      OBVIOUS
  <2>1. CASE PStep
      BY <2>1, PInvStep
  <2>2. CASE PTick
      BY <2>2, ExpiryTickType, PInvClock DEF PTick, PInv, PTypeOK
  <2>3. CASE UNCHANGED pvars
      BY <2>3, PInvClock DEF pvars, PInv, PTypeOK
  <2> QED BY <2>1, <2>2, <2>3 DEF PNext
<1> QED BY <1>1, PInvInit, PTL DEF PSpec

\* Every column and every command keeps its type.
THEOREM ProposalsTypeCorrect == PSpec => []PTypeOK
<1>1. PInv => PTypeOK
    BY DEF PInv
<1> QED BY <1>1, ProposalsInvariant, PTL

\* However many decide calls race, a proposal gets at most one decision and a
\* decision key is used at most once.
THEOREM DecidedOnce == PSpec => []OneDecision
<1>1. PInv => OneDecision
    BY DEF PInv
<1> QED BY <1>1, ProposalsInvariant, PTL

\* The decision table always explains the state of a proposal.
THEOREM DecisionsExplainStates == PSpec => []DecisionExplainsState
<1>1. PInv => DecisionExplainsState
    BY DEF PInv
<1> QED BY <1>1, ProposalsInvariant, PTL

\* A caller's version is current only while the state it saw is.
THEOREM VersionsIdentifyStates == PSpec => []VersionIdentifiesState
<1>1. PInv => VersionIdentifiesState
    BY DEF PInv
<1> QED BY <1>1, ProposalsInvariant, PTL

\* The audit events of a proposal replay to its state.
THEOREM TrailsReplay == PSpec => []TrailReplays
<1>1. PInv => TrailReplays
    BY DEF PInv
<1> QED BY <1>1, ProposalsInvariant, PTL

=============================================================================
