----------------------------- MODULE AuditChain -----------------------------
(***************************************************************************)
(* The audit chain of one environment:                                     *)
(*   AuditRepository.append and verify_chain in                             *)
(*   packages/persistence/.../repositories.py, the AuditEvent table.        *)
(*                                                                         *)
(* Every audited transaction (creating, deciding, preparing, finalizing and *)
(* reconciling a proposal, changing a profile, moving an alert) reads the   *)
(* newest event without a lock and inserts its successor; the unique        *)
(* sequence number is what keeps two of them from extending the same event. *)
(***************************************************************************)
EXTENDS Naturals, FiniteSets

CONSTANTS Tx,       \* concurrent audited transactions
          Payload,  \* what an event says: action, actor, subjects, states
          MaxSeq    \* bound: the highest sequence number

ASSUME MaxSeqAssumption == MaxSeq \in Nat

VARIABLES events,   \* the committed rows of AuditEvent
          pending,  \* pending[t]: the row transaction t has added, or NoEvent
          written   \* history: every row ever committed

avars == <<events, pending, written>>

\* previous_hash of the first event (None).
NoHash == <<>>

Hash_NoPayload(sequence, previous, payload) == <<sequence, previous>>

\* _event_hash: a digest of the payload is taken to be injective, so the
\* digested fields themselves stand for it.
Hash(sequence, previous, payload) == <<sequence, previous, payload>>

Event(sequence, previous, payload) ==
    [sequence |-> sequence, previous |-> previous, payload |-> payload,
     hash |-> Hash(sequence, previous, payload)]

NoEvent == [sequence |-> 0]

AInit ==
    /\ events = {}
    /\ pending = [t \in Tx |-> NoEvent]
    /\ written = {}

----------------------------------------------------------------------------

Newest(e) == e \in events /\ \A f \in events : f.sequence <= e.sequence

\* append: the row that follows the newest committed event.
Successor(e, payload) == Event(e.sequence + 1, e.hash, payload)

AppendEvent(t, payload) ==
    /\ pending[t] = NoEvent
    /\ \A e \in events : e.sequence < MaxSeq
    /\ \/ /\ events = {}
          /\ pending' = [pending EXCEPT ![t] = Event(1, NoHash, payload)]
       \/ \E e \in events :
             /\ Newest(e)
             /\ pending' = [pending EXCEPT ![t] = Successor(e, payload)]
    /\ UNCHANGED <<events, written>>

RowAdmissible_Unchecked(e) == TRUE

\* uq_audit_env_sequence and uq_audit_env_hash: the insert of a number or a
\* hash that has been committed fails, and the whole transaction with it.
RowAdmissible(e) ==
    \A f \in events : f.sequence # e.sequence /\ f.hash # e.hash

CommitEvent(t) ==
    /\ pending[t] # NoEvent
    /\ RowAdmissible(pending[t])
    /\ events' = events \cup {pending[t]}
    /\ written' = written \cup {pending[t]}
    /\ pending' = [pending EXCEPT ![t] = NoEvent]

\* A refused insert rolls back; any transaction may also fail for its own
\* reasons.
Rollback(t) ==
    /\ pending[t] # NoEvent
    /\ pending' = [pending EXCEPT ![t] = NoEvent]
    /\ UNCHANGED <<events, written>>

\* verify_chain: the rows in sequence order are numbered from 1, each holds the
\* hash of the one before it and the hash of its own fields.
verify_chain ==
    /\ \A e \in events : e.sequence \in 1..Cardinality(events)
    /\ \A e, f \in events : e.sequence = f.sequence => e = f
    /\ \A e \in events :
          /\ e.hash = Hash(e.sequence, e.previous, e.payload)
          /\ e.sequence = 1 => e.previous = NoHash
          /\ \A f \in events : f.sequence = e.sequence + 1 => f.previous = e.hash

----------------------------------------------------------------------------
(* What may befall the stored table: a row changes, or one that has a        *)
(* successor is lost.  Rows lost from the end leave a shorter chain that      *)
(* verify_chain has nothing to compare with.                                 *)

AlterRow(e, payload) ==
    /\ payload # e.payload
    /\ events' = (events \ {e}) \cup {[e EXCEPT !.payload = payload]}
    /\ UNCHANGED <<pending, written>>

LoseRow(e) ==
    /\ ~Newest(e)
    /\ events' = events \ {e}
    /\ UNCHANGED <<pending, written>>

ANext ==
    \E t \in Tx :
        \/ \E payload \in Payload : AppendEvent(t, payload)
        \/ CommitEvent(t)
        \/ Rollback(t)

ASpec == AInit /\ [][ANext]_avars

\* The subject of an audited action is a new row, or a row that is locked, when its
\* event is appended: no two transactions in progress append the same.
PayloadsDiffer ==
    \A t, u \in Tx :
        (pending[t] # NoEvent /\ pending[u] # NoEvent /\ t # u) =>
            pending[t].payload # pending[u].payload

DamageNext ==
    \/ ANext /\ PayloadsDiffer'
    \/ \E e \in events : LoseRow(e) \/ \E payload \in Payload : AlterRow(e, payload)

DamageSpec == AInit /\ [][DamageNext]_avars

----------------------------------------------------------------------------
(* Properties                                                               *)

\* verify_chain never reports a table that holds what append has written,
\* however the transactions that appended to it overlapped, failed and retried.
ChainVerifies == events = written => verify_chain

\* A table that verify_chain accepts holds exactly what append committed: a
\* row that was altered or lost is reported, whatever is appended afterwards.  Two
\* transactions in progress with the same payload could undo it: the second would put
\* back, over a third row lost meanwhile, the row of the first that was lost.
AcceptedIsComplete == verify_chain => events = written

\* Every row that waits to be committed continues some committed row, which
\* need not be the newest any more.
APending ==
    \A t \in Tx :
        LET e == pending[t]
        IN  e # NoEvent =>
              /\ e.sequence \in Nat \ {0}
              /\ e.hash = Hash(e.sequence, e.previous, e.payload)
              /\ e.sequence = 1 => e.previous = NoHash
              /\ e.sequence > 1 =>
                    \E f \in events : f.sequence + 1 = e.sequence /\ f.hash = e.previous

\* The inductive invariant: the numbers of the committed rows have no gap, so
\* the only number a waiting row can have that is not taken is the next one.
AInv ==
    /\ pending = [t \in Tx |-> pending[t]]
    /\ IsFiniteSet(events)
    /\ \A n \in 1..Cardinality(events) : \E e \in events : e.sequence = n
    /\ APending
    /\ verify_chain

=============================================================================
