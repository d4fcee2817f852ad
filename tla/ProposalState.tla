--------------------------- MODULE ProposalState ---------------------------
(***************************************************************************)
(* The state machine of a reassignment proposal, from                      *)
(* src/domain/workforce_risk/proposals/state.py.  Constant-level module:    *)
(* the components that change a proposal's state EXTEND it.                 *)
(***************************************************************************)

PENDING           == "pending"
EXECUTING         == "executing"
EXECUTED_VERIFIED == "executed_verified"
EXECUTION_FAILED  == "execution_failed"
UNCERTAIN         == "uncertain"
REJECTED          == "rejected"
EXPIRED           == "expired"
STALE             == "stale"

\* The enumeration.  "approved" is declared there and named by the table's
\* CHECK constraint, but no code ever stores it and no transition enters it.
States ==
    {PENDING, "approved", EXECUTING, EXECUTED_VERIFIED, EXECUTION_FAILED,
     UNCERTAIN, REJECTED, EXPIRED, STALE}

\* Not a state of the code: there is no row yet.
Absent == "absent"

TERMINAL_STATES ==
    {EXECUTED_VERIFIED, EXECUTION_FAILED, REJECTED, EXPIRED, STALE}

\* The dictionary as a relation: a state that is not a key allows nothing.
ALLOWED_TRANSITIONS ==
       ({PENDING}   \X {EXECUTING, REJECTED, EXPIRED, STALE})
  \cup ({EXECUTING} \X {EXECUTED_VERIFIED, EXECUTION_FAILED, UNCERTAIN, STALE})
  \cup ({UNCERTAIN} \X {EXECUTED_VERIFIED, EXECUTION_FAILED})

\* validate_transition raises unless the pair is allowed: here, the guard.
validate_transition(current, target) ==
    <<current, target>> \in ALLOWED_TRANSITIONS

=============================================================================
