------------------------- MODULE ProposalLifecycle -------------------------
(***************************************************************************)
(* What the approval saga promises about one proposal, with every database  *)
(* table, lease, process and network message abstracted away: a proposal is *)
(* created pending, moves only along the transitions of the state machine,  *)
(* and Jira is asked to change the assignee at most once, and only for a    *)
(* proposal that a manager has approved.                                    *)
(* Reassignment implements this specification.                              *)
(***************************************************************************)
EXTENDS ProposalState

CONSTANT Proposal

VARIABLES state,     \* state[p]: Absent before creation, then a member of States
          requested  \* the proposals whose Jira edit has been requested

vars == <<state, requested>>

Init ==
    /\ state = [p \in Proposal |-> Absent]
    /\ requested = {}

Create(p) ==
    /\ state[p] = Absent
    /\ state' = [state EXCEPT ![p] = PENDING]
    /\ UNCHANGED requested

\* A proposal that has asked Jira for the change is never called stale: stale
\* says that nothing was written.
Move(p) ==
    /\ \E target \in States :
          /\ validate_transition(state[p], target)
          /\ target = STALE => p \notin requested
          /\ state' = [state EXCEPT ![p] = target]
    /\ UNCHANGED requested

\* Only an approved proposal reaches these states.
RequestEdit(p) ==
    /\ state[p] \in {EXECUTING, UNCERTAIN, EXECUTED_VERIFIED, EXECUTION_FAILED}
    /\ p \notin requested
    /\ requested' = requested \cup {p}
    /\ UNCHANGED state

Next == \E p \in Proposal : Create(p) \/ Move(p) \/ RequestEdit(p)

Spec == Init /\ [][Next]_vars

=============================================================================
