-------------------------- MODULE AuditChainProofs --------------------------
(***************************************************************************)
(* The audit chain verifies for any number of concurrent transactions and   *)
(* any length.                                                             *)
(***************************************************************************)
EXTENDS AuditChain, TLAPS, FiniteSetTheorems

\* An empty chain verifies.
LEMMA AInvInit == AInit => AInv
<1> SUFFICES ASSUME AInit PROVE AInv
    OBVIOUS
<1>1. IsFiniteSet({}) /\ Cardinality({}) = 0
    BY FS_EmptySet
<1>2. APending
    BY DEF AInit, APending
<1> QED BY <1>1, <1>2 DEF AInit, AInv, verify_chain

\* The numbers of the rows are numbers.
LEMMA SequenceType ==
    ASSUME AInv
    PROVE  /\ Cardinality(events) \in Nat
           /\ \A e \in events : e.sequence \in 1..Cardinality(events)
           /\ \A e \in events : e.sequence \in Nat
<1>1. Cardinality(events) \in Nat
    BY FS_CardinalityType DEF AInv
<1> QED BY <1>1 DEF AInv, verify_chain

\* The fields of an event that append makes.
LEMMA EventFields ==
    ASSUME NEW sequence \in Nat \ {0}, NEW previous, NEW payload
    PROVE  LET e == Event(sequence, previous, payload)
           IN  /\ e.sequence = sequence /\ e.previous = previous /\ e.payload = payload
               /\ e.hash = Hash(sequence, previous, payload)
BY DEF Event

\* A transaction reads the newest row and prepares its successor.
LEMMA AppendEventInv ==
    ASSUME AInv, NEW t \in Tx, NEW payload, AppendEvent(t, payload)
    PROVE  AInv'
<1>1. events' = events
    BY DEF AppendEvent
<1>2. PICK new : /\ pending' = [pending EXCEPT ![t] = new]
                 /\ new.sequence \in Nat \ {0}
                 /\ new.hash = Hash(new.sequence, new.previous, new.payload)
                 /\ new.sequence = 1 => new.previous = NoHash
                 /\ new.sequence > 1 =>
                      \E f \in events : f.sequence + 1 = new.sequence /\ f.hash = new.previous
  <2>1. CASE events = {} /\ pending' = [pending EXCEPT ![t] = Event(1, NoHash, payload)]
    <3>1. /\ Event(1, NoHash, payload).sequence = 1
          /\ Event(1, NoHash, payload).previous = NoHash
          /\ Event(1, NoHash, payload).payload = payload
          /\ Event(1, NoHash, payload).hash = Hash(1, NoHash, payload)
        BY EventFields
    <3>2. 1 \in Nat \ {0} /\ ~(1 > 1)
        OBVIOUS
    <3> QED BY <2>1, <3>1, <3>2
  <2>2. CASE \E e \in events : Newest(e) /\ pending' = [pending EXCEPT ![t] = Successor(e, payload)]
    <3>1. PICK e \in events : pending' = [pending EXCEPT ![t] = Successor(e, payload)]
        BY <2>2
    <3>2. e.sequence \in Nat /\ e.sequence \in 1..Cardinality(events)
        BY SequenceType
    <3>3. e.sequence + 1 \in Nat \ {0} /\ e.sequence + 1 # 1
        BY <3>2, SequenceType
    <3>4. /\ Successor(e, payload).sequence = e.sequence + 1
          /\ Successor(e, payload).previous = e.hash
          /\ Successor(e, payload).payload = payload
          /\ Successor(e, payload).hash = Hash(e.sequence + 1, e.hash, payload)
        BY <3>3, EventFields DEF Successor
    <3> QED BY <3>1, <3>3, <3>4
  <2> QED BY <2>1, <2>2 DEF AppendEvent
<1>3. APending'
    BY <1>1, <1>2 DEF AInv, APending
<1>4. verify_chain'
    BY <1>1 DEF AInv, verify_chain
<1>5. pending' = [u \in Tx |-> pending'[u]]
    BY <1>2 DEF AInv
<1> QED BY <1>1, <1>3, <1>4, <1>5 DEF AInv

\* A rollback leaves the rows as they are.
LEMMA RollbackInv ==
    ASSUME AInv, NEW t \in Tx, Rollback(t)
    PROVE  AInv'
<1>1. APending'
    BY DEF Rollback, AInv, APending
<1>2. pending' = [u \in Tx |-> pending'[u]]
    BY DEF Rollback, AInv
<1> QED BY <1>1, <1>2 DEF Rollback, AInv, verify_chain

\* A row whose number is free has the next number.
LEMMA CommittedIsNext ==
    ASSUME AInv, NEW t \in Tx, CommitEvent(t)
    PROVE  /\ pending[t].sequence = Cardinality(events) + 1
           /\ \A f \in events : f.sequence < pending[t].sequence
<1> DEFINE new == pending[t]
           n == Cardinality(events)
<1>1. /\ new # NoEvent
      /\ \A f \in events : f.sequence # new.sequence
    BY DEF CommitEvent, RowAdmissible
<1>2. /\ new.sequence \in Nat \ {0}
      /\ new.sequence > 1 => \E f \in events : f.sequence + 1 = new.sequence
    BY <1>1 DEF AInv, APending
<1> HIDE DEF new
<1>3. n \in Nat /\ \A e \in events : e.sequence \in 1..n /\ e.sequence \in Nat
    BY SequenceType
<1>4. \A k \in 1..n : \E e \in events : e.sequence = k
    BY DEF AInv
<1> HIDE DEF n
<1>5. new.sequence \notin 1..n
    BY <1>1, <1>4
<1>6. new.sequence <= n + 1
    BY <1>2, <1>3
<1>7. new.sequence = n + 1
    BY <1>2, <1>3, <1>5, <1>6
<1> QED BY <1>3, <1>7 DEF new, n

\* The row that is committed continues the last one.
LEMMA CommitEventInv ==
    ASSUME AInv, NEW t \in Tx, CommitEvent(t)
    PROVE  AInv'
<1> DEFINE new == pending[t]
           n == Cardinality(events)
<1>1. /\ new # NoEvent
      /\ \A f \in events : f.sequence # new.sequence
      /\ events' = events \cup {new}
      /\ pending' = [pending EXCEPT ![t] = NoEvent]
    BY DEF CommitEvent, RowAdmissible
<1>2. /\ new.sequence \in Nat \ {0}
      /\ new.hash = Hash(new.sequence, new.previous, new.payload)
      /\ new.sequence = 1 => new.previous = NoHash
      /\ new.sequence > 1 =>
           \E f \in events : f.sequence + 1 = new.sequence /\ f.hash = new.previous
    BY <1>1 DEF AInv, APending
<1> HIDE DEF new
<1>3. n \in Nat /\ \A e \in events : e.sequence \in 1..n /\ e.sequence \in Nat
    BY SequenceType
<1>4. new \notin events /\ IsFiniteSet(events)
    BY <1>1 DEF AInv
<1>5. IsFiniteSet(events') /\ Cardinality(events') = n + 1
    BY <1>1, <1>4, FS_AddElement
<1>6. \A k \in 1..n : \E e \in events : e.sequence = k
    BY DEF AInv
<1> HIDE DEF n
<1>7. new.sequence = n + 1
    BY CommittedIsNext DEF new, n
<1>8. APending'
    BY <1>1 DEF AInv, APending
<1>9. pending' = [u \in Tx |-> pending'[u]]
    BY <1>1 DEF AInv
<1>10. \A k \in 1..(n + 1) : \E e \in events' : e.sequence = k
    BY <1>1, <1>3, <1>6, <1>7
<1>11. verify_chain'
  <2>1. \A e \in events' : e.sequence \in 1..(n + 1)
      BY <1>1, <1>3, <1>7
  <2>2. \A e, f \in events' : e.sequence = f.sequence => e = f
      BY <1>1 DEF AInv, verify_chain
  <2>3. \A e \in events' : /\ e.hash = Hash(e.sequence, e.previous, e.payload)
                           /\ e.sequence = 1 => e.previous = NoHash
      BY <1>1, <1>2 DEF AInv, verify_chain
  <2>4. ASSUME NEW e \in events', NEW f \in events', f.sequence = e.sequence + 1
        PROVE  f.previous = e.hash
    <3>1. CASE e \in events /\ f \in events
        BY <2>4, <3>1 DEF AInv, verify_chain
    <3>2. CASE e = new
      <4>1. f.sequence = n + 2 /\ f.sequence \in 1..(n + 1)
          BY <1>3, <1>7, <2>1, <2>4, <3>2
      <4> QED BY <1>3, <4>1
    <3>3. CASE e \in events /\ f = new
      <4>1. PICK g \in events : g.sequence + 1 = new.sequence /\ g.hash = new.previous
          BY <1>2, <1>3, <2>4, <3>3
      <4>2. g.sequence = e.sequence
          BY <1>3, <2>4, <3>3, <4>1
      <4>3. g = e
          BY <3>3, <4>2 DEF AInv, verify_chain
      <4> QED BY <3>3, <4>1, <4>3
    <3> QED BY <1>1, <3>1, <3>2, <3>3
  <2> QED BY <1>5, <2>1, <2>2, <2>3, <2>4 DEF verify_chain
<1> QED BY <1>5, <1>8, <1>9, <1>10, <1>11 DEF AInv

\* However audited transactions overlap, fail and retry, the chain they write
\* verifies: the unlocked read of the newest row is made safe by the unique
\* sequence number alone.
THEOREM ChainAlwaysVerifies == ASpec => []ChainVerifies
<1>1. AInv /\ [ANext]_avars => AInv'
  <2> SUFFICES ASSUME AInv, [ANext]_avars PROVE AInv'
      OBVIOUS
  <2>1. CASE ANext
      BY <2>1, AppendEventInv, CommitEventInv, RollbackInv DEF ANext
  <2>2. CASE UNCHANGED avars
      BY <2>2 DEF avars, AInv, APending, verify_chain
  <2> QED BY <2>1, <2>2
<1>2. AInv => ChainVerifies
    BY DEF AInv, ChainVerifies
<1> QED BY <1>1, <1>2, AInvInit, PTL DEF ASpec

----------------------------------------------------------------------------
(* What verify_chain says of a table whose rows are altered or lost.          *)

Waiting == {pending[t] : t \in Tx} \ {NoEvent}

\* The rows committed at some time, or waiting.
Rows == written \cup Waiting

\* Nothing but the payload of a row in the table can differ from what was written; a
\* row that was written or waits continues one that was written.
RowsAreFaithful ==
    /\ pending = [t \in Tx |-> pending[t]]
    /\ IsFiniteSet(events)
    /\ \A e, f \in events : e.sequence = f.sequence => e = f
    /\ \A e \in events : \E w \in written :
          e = [sequence |-> w.sequence, previous |-> w.previous, payload |-> e.payload,
               hash |-> w.hash]
    /\ \A r \in Rows :
          /\ r.sequence \in Nat \ {0}
          /\ r = Event(r.sequence, r.previous, r.payload)
          /\ r.sequence > 1 =>
                \E w \in written : w.sequence + 1 = r.sequence /\ w.hash = r.previous

\* No row waits that was written, or that another transaction has.
WaitingIsNew == Waiting \cap written = {} /\ PayloadsDiffer

\* The table keeps its end, and a number written twice was lost and followed.
TheEndStays ==
    /\ \A w \in written : \E e \in events : e.sequence >= w.sequence
    /\ \A v, w \in written :
          (v.sequence = w.sequence /\ v # w) => \E e \in events : e.sequence > w.sequence

\* What continues a number that was written twice does not continue the row in the table
\* that took it second.
LossShows ==
    \A e \in events, w \in written, r \in Rows :
        (w.sequence = e.sequence /\ w.hash # e.hash /\ r.sequence = e.sequence + 1) =>
            r.previous # e.hash

DamageInv == RowsAreFaithful /\ WaitingIsNew /\ TheEndStays /\ LossShows

\* An empty table.
LEMMA DamageInvInit == AInit => DamageInv
<1> SUFFICES ASSUME AInit PROVE DamageInv
    OBVIOUS
<1>1. IsFiniteSet({})
    BY FS_EmptySet
<1>2. Waiting = {} /\ Rows = {} /\ events = {} /\ written = {}
    BY DEF AInit, Waiting, Rows
<1>3. PayloadsDiffer
    BY DEF AInit, PayloadsDiffer
<1> QED BY <1>1, <1>2, <1>3 DEF AInit, DamageInv, RowsAreFaithful, WaitingIsNew, TheEndStays,
          LossShows

\* The fields of a row in the table are those of a row that was written.
LEMMA RowInTable ==
    ASSUME RowsAreFaithful, NEW e \in events
    PROVE  /\ e.sequence \in Nat \ {0}
           /\ \E w \in written : /\ w.sequence = e.sequence /\ w.previous = e.previous
                                 /\ w.hash = e.hash
<1>1. PICK w \in written : e = [sequence |-> w.sequence, previous |-> w.previous,
                                payload |-> e.payload, hash |-> w.hash]
    BY DEF RowsAreFaithful
<1>2. w.sequence \in Nat \ {0}
    BY DEF RowsAreFaithful, Rows
<1>3. e.sequence = w.sequence /\ e.previous = w.previous /\ e.hash = w.hash
    BY <1>1
<1> QED BY <1>2, <1>3

\* A row that was written or waits is what append made of its fields, so two of them
\* with one hash are one.
LEMMA RowFields ==
    ASSUME RowsAreFaithful, NEW r \in Rows
    PROVE  /\ r.sequence \in Nat \ {0}
           /\ r.hash = Hash(r.sequence, r.previous, r.payload)
           /\ \A s \in Rows : r.hash = s.hash => r = s
<1>1. \A s \in Rows : /\ s.sequence \in Nat \ {0}
                      /\ s = Event(s.sequence, s.previous, s.payload)
    BY DEF RowsAreFaithful
<1>2. \A s \in Rows : s.hash = Hash(s.sequence, s.previous, s.payload)
    BY <1>1, EventFields
<1> QED BY <1>1, <1>2 DEF Hash

\* When the table and what was written stay, and the transactions have at most one more
\* row waiting, which is new and continues the end of the table.
LEMMA OneMoreWaits ==
    ASSUME DamageInv, UNCHANGED <<events, written>>, PayloadsDiffer',
           NEW new, pending' = [t \in Tx |-> pending'[t]],
           Waiting' \subseteq Waiting \cup {new},
           \/ new \in Waiting
           \/ /\ new.sequence \in Nat \ {0}
              /\ new = Event(new.sequence, new.previous, new.payload)
              /\ \/ events = {} /\ new.sequence = 1
                 \/ \E e \in events : /\ Newest(e) /\ new.sequence = e.sequence + 1
                                      /\ new.previous = e.hash
    PROVE  DamageInv'
<1>1. CASE new \in Waiting
  <2>1. Waiting' \subseteq Waiting /\ Rows' \subseteq Rows
      BY <1>1 DEF Rows
  <2> QED BY <2>1 DEF DamageInv, RowsAreFaithful, WaitingIsNew, TheEndStays, LossShows
<1>2. CASE new \notin Waiting
  <2>1. new.sequence \in Nat \ {0} /\ new = Event(new.sequence, new.previous, new.payload)
      BY <1>2
  <2>2. /\ \A w \in written : w.sequence < new.sequence
        /\ new.sequence > 1 =>
              \E w \in written : w.sequence + 1 = new.sequence /\ w.hash = new.previous
    <3>1. CASE events = {} /\ new.sequence = 1
        BY <3>1 DEF DamageInv, TheEndStays
    <3>2. CASE \E e \in events : /\ Newest(e) /\ new.sequence = e.sequence + 1
                                 /\ new.previous = e.hash
      <4>1. PICK e \in events : Newest(e) /\ new.sequence = e.sequence + 1 /\ new.previous = e.hash
          BY <3>2
      <4>2. e.sequence \in Nat /\ \A f \in events : f.sequence \in Nat
          BY RowInTable DEF DamageInv
      <4>3. \A w \in written : w.sequence \in Nat /\ w.sequence <= e.sequence
          BY <4>1, <4>2 DEF DamageInv, RowsAreFaithful, Rows, TheEndStays, Newest
      <4>4. PICK w \in written : w.sequence = e.sequence /\ w.hash = e.hash
          BY RowInTable DEF DamageInv
      <4> QED BY <4>1, <4>2, <4>3, <4>4
    <3> QED BY <1>2, <3>1, <3>2
  <2>3. Rows' \subseteq Rows \cup {new} /\ written' = written /\ events' = events
      BY DEF Rows
  <2>4. RowsAreFaithful'
      BY <2>1, <2>2, <2>3 DEF DamageInv, RowsAreFaithful
  <2>5. new \notin written
      BY <2>1, <2>2
  <2>6. WaitingIsNew'
      BY <2>5 DEF DamageInv, WaitingIsNew
  <2>7. LossShows'
    <3> SUFFICES ASSUME NEW e \in events, NEW w \in written, NEW r \in Rows',
                        w.sequence = e.sequence, w.hash # e.hash, r.sequence = e.sequence + 1
                 PROVE  r.previous # e.hash
        BY <2>3 DEF LossShows
    <3>1. CASE r \in Rows
        BY <3>1 DEF DamageInv, LossShows
    <3>2. CASE r = new
      <4>1. PICK v \in written : v.sequence = e.sequence /\ v.hash = e.hash
          BY RowInTable DEF DamageInv
      <4>2. PICK f \in events : f.sequence > e.sequence
          BY <4>1 DEF DamageInv, TheEndStays
      <4>3. e.sequence \in Nat /\ f.sequence \in Nat /\ events # {}
          BY RowInTable DEF DamageInv
      <4>4. PICK g \in events : Newest(g) /\ new.sequence = g.sequence + 1
          BY <1>2, <4>3
      <4>5. g.sequence \in Nat /\ f.sequence <= g.sequence
          BY <4>4, RowInTable DEF DamageInv, Newest
      <4> QED BY <3>2, <4>2, <4>3, <4>4, <4>5
    <3> QED BY <2>3, <3>1, <3>2
  <2> QED BY <2>3, <2>4, <2>6, <2>7 DEF DamageInv, TheEndStays
<1> QED BY <1>1, <1>2

\* A transaction appends to the newest row.
LEMMA AppendEventKeepsDamageInv ==
    ASSUME DamageInv, NEW t \in Tx, NEW payload, AppendEvent(t, payload), PayloadsDiffer'
    PROVE  DamageInv'
<1>1. UNCHANGED <<events, written>>
    BY DEF AppendEvent
<1>2. PICK new : /\ pending' = [pending EXCEPT ![t] = new]
                 /\ new.sequence \in Nat \ {0}
                 /\ new = Event(new.sequence, new.previous, new.payload)
                 /\ \/ events = {} /\ new.sequence = 1
                    \/ \E e \in events : /\ Newest(e) /\ new.sequence = e.sequence + 1
                                         /\ new.previous = e.hash
  <2>1. CASE events = {} /\ pending' = [pending EXCEPT ![t] = Event(1, NoHash, payload)]
    <3>1. PICK new : new = Event(1, NoHash, payload)
        OBVIOUS
    <3>2. new.sequence = 1 /\ new.previous = NoHash /\ new.payload = payload
        BY <3>1, EventFields
    <3>3. new = Event(new.sequence, new.previous, new.payload)
        BY <3>1, <3>2
    <3>4. new.sequence \in Nat \ {0} /\ pending' = [pending EXCEPT ![t] = new]
        BY <2>1, <3>1, <3>2
    <3> WITNESS new
    <3> QED BY <2>1, <3>2, <3>3, <3>4
  <2>2. CASE \E e \in events : Newest(e) /\ pending' = [pending EXCEPT ![t] = Successor(e, payload)]
    <3>1. PICK e \in events : Newest(e) /\ pending' = [pending EXCEPT ![t] = Successor(e, payload)]
        BY <2>2
    <3>2. e.sequence + 1 \in Nat \ {0}
        BY RowInTable DEF DamageInv
    <3>3. PICK new : new = Event(e.sequence + 1, e.hash, payload)
        OBVIOUS
    <3>4. /\ new.sequence = e.sequence + 1 /\ new.previous = e.hash
          /\ new.payload = payload
        BY <3>2, <3>3, EventFields
    <3>5. new = Event(new.sequence, new.previous, new.payload)
        BY <3>3, <3>4
    <3>6. pending' = [pending EXCEPT ![t] = new]
        BY <3>1, <3>3 DEF Successor
    <3> QED BY <3>1, <3>2, <3>4, <3>5, <3>6
  <2> QED BY <2>1, <2>2 DEF AppendEvent
<1>3. pending' = [u \in Tx |-> pending'[u]]
    BY <1>2 DEF DamageInv, RowsAreFaithful
<1>4. Waiting' \subseteq Waiting \cup {new}
    BY <1>2 DEF DamageInv, RowsAreFaithful, Waiting
<1> QED BY <1>1, <1>2, <1>3, <1>4, OneMoreWaits

\* A rollback leaves the table as it is.
LEMMA RollbackKeepsDamageInv ==
    ASSUME DamageInv, NEW t \in Tx, Rollback(t)
    PROVE  DamageInv'
<1>1. UNCHANGED <<events, written>> /\ pending[t] # NoEvent
      /\ pending' = [pending EXCEPT ![t] = NoEvent]
    BY DEF Rollback
<1>2. pending' = [u \in Tx |-> pending'[u]] /\ Waiting' \subseteq Waiting
    BY <1>1 DEF DamageInv, RowsAreFaithful, Waiting
<1>3. PayloadsDiffer'
    BY <1>1 DEF DamageInv, RowsAreFaithful, WaitingIsNew, PayloadsDiffer
<1>4. pending[t] \in Waiting
    BY <1>1 DEF Waiting
<1> QED BY <1>1, <1>2, <1>3, <1>4, OneMoreWaits

\* A row whose number is free is committed.
LEMMA CommitEventKeepsDamageInv ==
    ASSUME DamageInv, NEW t \in Tx, CommitEvent(t)
    PROVE  DamageInv'
<1> DEFINE new == pending[t]
<1>1. /\ new \in Waiting /\ new # NoEvent
      /\ \A f \in events : f.sequence # new.sequence
      /\ events' = events \cup {new}
      /\ written' = written \cup {new}
      /\ pending' = [pending EXCEPT ![t] = NoEvent]
    BY DEF CommitEvent, RowAdmissible, Waiting
<1>2. pending' = [u \in Tx |-> pending'[u]]
    BY <1>1 DEF DamageInv, RowsAreFaithful
<1>3. Waiting' \subseteq Waiting \ {new}
  <2> SUFFICES ASSUME NEW u \in Tx, pending'[u] # NoEvent
               PROVE  pending[u] = pending'[u] /\ pending[u] # new
      BY DEF Waiting
  <2>1. u # t /\ pending'[u] = pending[u]
      BY <1>1 DEF DamageInv, RowsAreFaithful
  <2> QED BY <1>1, <2>1 DEF DamageInv, WaitingIsNew, PayloadsDiffer
<1>4. PayloadsDiffer'
    BY <1>1 DEF DamageInv, RowsAreFaithful, WaitingIsNew, PayloadsDiffer
<1> HIDE DEF new
<1>5. Rows' \subseteq Rows /\ new \in Rows /\ written \subseteq Rows
    BY <1>1, <1>3 DEF Rows
<1>6. /\ new.sequence \in Nat \ {0}
      /\ new = Event(new.sequence, new.previous, new.payload)
    BY <1>5 DEF DamageInv, RowsAreFaithful
<1>7. new = [sequence |-> new.sequence, previous |-> new.previous, payload |-> new.payload,
             hash |-> new.hash]
    BY <1>6 DEF Event
<1>8. RowsAreFaithful'
  <2>1. IsFiniteSet(events')
      BY <1>1, FS_AddElement DEF DamageInv, RowsAreFaithful
  <2>2. \A e, f \in events' : e.sequence = f.sequence => e = f
      BY <1>1 DEF DamageInv, RowsAreFaithful
  <2>3. \A e \in events' : \E w \in written' :
          e = [sequence |-> w.sequence, previous |-> w.previous, payload |-> e.payload,
               hash |-> w.hash]
      BY <1>1, <1>7 DEF DamageInv, RowsAreFaithful
  <2>4. \A r \in Rows' :
          /\ r.sequence \in Nat \ {0}
          /\ r = Event(r.sequence, r.previous, r.payload)
          /\ r.sequence > 1 =>
                \E w \in written' : w.sequence + 1 = r.sequence /\ w.hash = r.previous
      BY <1>1, <1>5 DEF DamageInv, RowsAreFaithful
  <2> QED BY <1>2, <2>1, <2>2, <2>3, <2>4 DEF RowsAreFaithful
<1>9. WaitingIsNew'
    BY <1>1, <1>3, <1>4 DEF DamageInv, WaitingIsNew
<1>10. \A e \in events : e.sequence \in Nat
    BY RowInTable DEF DamageInv
<1>11. \A w \in written : w.sequence \in Nat
    BY <1>5 DEF DamageInv, RowsAreFaithful
<1>12. TheEndStays'
  <2>1. \A w \in written' : \E e \in events' : e.sequence >= w.sequence
      BY <1>1, <1>6 DEF DamageInv, TheEndStays
  <2>2. \A w \in written : w.sequence = new.sequence =>
            \E e \in events' : e.sequence > new.sequence
    <3> SUFFICES ASSUME NEW w \in written, w.sequence = new.sequence
                 PROVE  \E e \in events' : e.sequence > new.sequence
        OBVIOUS
    <3>1. PICK e \in events : e.sequence >= w.sequence
        BY DEF DamageInv, TheEndStays
    <3>2. e.sequence # new.sequence /\ e.sequence \in Nat
        BY <1>1, <1>10
    <3> QED BY <1>1, <1>6, <3>1, <3>2
  <2>3. \A v, w \in written : (v.sequence = w.sequence /\ v # w) =>
            \E e \in events' : e.sequence > w.sequence
      BY <1>1 DEF DamageInv, TheEndStays
  <2>4. \A v, w \in written' : (v.sequence = w.sequence /\ v # w) =>
            \E e \in events' : e.sequence > w.sequence
      BY <1>1, <2>2, <2>3
  <2> QED BY <2>1, <2>4 DEF TheEndStays
<1>13. LossShows'
  <2> SUFFICES ASSUME NEW e \in events', NEW w \in written', NEW r \in Rows',
                      w.sequence = e.sequence, w.hash # e.hash, r.sequence = e.sequence + 1
               PROVE  r.previous # e.hash
      BY DEF LossShows
  <2>1. CASE e \in events /\ w \in written
      BY <1>5, <2>1 DEF DamageInv, LossShows
  <2>2. CASE e \in events /\ w = new
      BY <1>1, <2>2
  <2>3. CASE e = new
    <3>1. e.sequence \in Nat \ {0} /\ r.sequence > 1 /\ r \in Rows
        BY <1>5, <1>6, <2>3
    <3>2. PICK v \in written : v.sequence + 1 = r.sequence /\ v.hash = r.previous
        BY <3>1 DEF DamageInv, RowsAreFaithful
    <3>3. v # new
        BY <1>1 DEF DamageInv, WaitingIsNew
    <3>4. v.hash # new.hash
        BY <1>5, <3>3, RowFields DEF DamageInv
    <3> QED BY <2>3, <3>2, <3>4
  <2> QED BY <1>1, <2>1, <2>2, <2>3
<1> QED BY <1>8, <1>9, <1>12, <1>13 DEF DamageInv

\* The payload of a row is changed.
LEMMA AlterRowKeepsDamageInv ==
    ASSUME DamageInv, NEW e \in events, NEW payload, AlterRow(e, payload)
    PROVE  DamageInv'
<1> DEFINE new == [e EXCEPT !.payload = payload]
<1>1. /\ events' = (events \ {e}) \cup {new}
      /\ pending' = pending /\ written' = written
    BY DEF AlterRow
<1>2. PICK v \in written : e = [sequence |-> v.sequence, previous |-> v.previous,
                                payload |-> e.payload, hash |-> v.hash]
    BY DEF DamageInv, RowsAreFaithful
<1>3. new = [sequence |-> v.sequence, previous |-> v.previous, payload |-> payload,
             hash |-> v.hash]
    BY <1>2
<1>4. /\ e.sequence = v.sequence /\ e.hash = v.hash
      /\ new.sequence = v.sequence /\ new.hash = v.hash /\ new.payload = payload
    BY <1>2, <1>3
<1> HIDE DEF new
<1>5. Waiting' = Waiting /\ Rows' = Rows /\ WaitingIsNew'
    BY <1>1 DEF Waiting, Rows, DamageInv, WaitingIsNew, PayloadsDiffer
<1>6. RowsAreFaithful'
  <2>1. IsFiniteSet(events')
      BY <1>1, FS_AddElement, FS_RemoveElement DEF DamageInv, RowsAreFaithful
  <2>2. \A f, g \in events' : f.sequence = g.sequence => f = g
      BY <1>1, <1>4 DEF DamageInv, RowsAreFaithful
  <2>3. \A f \in events' : \E w \in written' :
          f = [sequence |-> w.sequence, previous |-> w.previous, payload |-> f.payload,
               hash |-> w.hash]
      BY <1>1, <1>3, <1>4 DEF DamageInv, RowsAreFaithful
  <2> QED BY <1>1, <1>5, <2>1, <2>2, <2>3 DEF DamageInv, RowsAreFaithful
<1>7. \A f \in events : \E g \in events' : g.sequence = f.sequence /\ g.hash = f.hash
    BY <1>1, <1>4
<1>8. \A g \in events' : \E f \in events : g.sequence = f.sequence /\ g.hash = f.hash
    BY <1>1, <1>4
<1>9. TheEndStays'
    BY <1>1, <1>7 DEF DamageInv, TheEndStays
<1>10. LossShows'
    BY <1>1, <1>5, <1>8 DEF DamageInv, LossShows
<1> QED BY <1>5, <1>6, <1>9, <1>10 DEF DamageInv

\* A row with a successor is lost.
LEMMA LoseRowKeepsDamageInv ==
    ASSUME DamageInv, NEW e \in events, LoseRow(e)
    PROVE  DamageInv'
<1>1. events' = events \ {e} /\ pending' = pending /\ written' = written
    BY DEF LoseRow
<1>2. Waiting' = Waiting /\ Rows' = Rows /\ WaitingIsNew'
    BY <1>1 DEF Waiting, Rows, DamageInv, WaitingIsNew, PayloadsDiffer
<1>3. IsFiniteSet(events')
    BY <1>1, FS_RemoveElement DEF DamageInv, RowsAreFaithful
<1>4. RowsAreFaithful'
    BY <1>1, <1>2, <1>3 DEF DamageInv, RowsAreFaithful
<1>5. \A f \in events : f.sequence \in Nat
    BY RowInTable DEF DamageInv
<1>6. PICK g \in events : g.sequence > e.sequence /\ g # e
    BY <1>5 DEF LoseRow, Newest
<1>7. \A n \in Nat : (\E f \in events : f.sequence >= n) => \E f \in events' : f.sequence >= n
    BY <1>1, <1>5, <1>6
<1>8. \A n \in Nat : (\E f \in events : f.sequence > n) => \E f \in events' : f.sequence > n
    BY <1>1, <1>5, <1>6
<1>9. \A w \in written : w.sequence \in Nat
    BY DEF DamageInv, RowsAreFaithful, Rows
<1>10. TheEndStays'
    BY <1>1, <1>7, <1>8, <1>9 DEF DamageInv, TheEndStays
<1>11. LossShows'
    BY <1>1, <1>2 DEF DamageInv, LossShows
<1> QED BY <1>2, <1>4, <1>10, <1>11 DEF DamageInv

\* In a table that verifies every row is one that was written.
LEMMA VerifiedRowsWereWritten ==
    ASSUME RowsAreFaithful, verify_chain
    PROVE  events \subseteq written
<1> SUFFICES ASSUME NEW e \in events PROVE e \in written
    OBVIOUS
<1>1. PICK w \in written : e = [sequence |-> w.sequence, previous |-> w.previous,
                                payload |-> e.payload, hash |-> w.hash]
    BY DEF RowsAreFaithful
<1>2. e.sequence = w.sequence /\ e.previous = w.previous /\ e.hash = w.hash
    BY <1>1
<1>3. w.hash = Hash(w.sequence, w.previous, w.payload)
    BY RowFields DEF Rows
<1>4. e.hash = Hash(e.sequence, e.previous, e.payload)
    BY DEF verify_chain
<1>5. e.payload = w.payload
    BY <1>2, <1>3, <1>4 DEF Hash
<1>6. w = Event(w.sequence, w.previous, w.payload)
    BY DEF RowsAreFaithful, Rows
<1>7. w = e
    BY <1>1, <1>3, <1>5, <1>6 DEF Event
<1> QED BY <1>7

\* In a table that verifies the rows have the numbers from 1.
LEMMA VerifiedNumbersHaveNoGap ==
    ASSUME RowsAreFaithful, verify_chain
    PROVE  /\ Cardinality(events) \in Nat
           /\ \A n \in 1..Cardinality(events) : \E e \in events : e.sequence = n
<1> DEFINE n == Cardinality(events)
           number == [e \in events |-> e.sequence]
<1>1. n \in Nat
    BY FS_CardinalityType DEF RowsAreFaithful
<1>2. IsFiniteSet(1..n) /\ Cardinality(1..n) = n
    BY <1>1, FS_Interval
<1>3. /\ \A e \in events : e.sequence \in 1..n
      /\ \A e, f \in events : e.sequence = f.sequence => e = f
    BY DEF verify_chain
<1> HIDE DEF n
<1>4. number \in Injection(events, 1..n)
    BY <1>3 DEF Injection, IsInjective
<1>5. Cardinality(events) = Cardinality(1..n)
    BY <1>2 DEF n
<1> HIDE DEF number
<1>6. number \in Surjection(events, 1..n)
    BY <1>2, <1>4, <1>5, FS_Injection
<1>7. \A k \in 1..n : \E e \in events : number[e] = k
    BY <1>6 DEF Surjection
<1> QED BY <1>1, <1>7 DEF n, number

\* A table that verifies holds every row that was written: the row that would stand in
\* the place of a lost one is not the one its successor names.
LEMMA VerifiedTableIsComplete ==
    ASSUME DamageInv, verify_chain
    PROVE  written \subseteq events
<1> SUFFICES ASSUME NEW w \in written, w \notin events PROVE FALSE
    OBVIOUS
<1> DEFINE n == Cardinality(events)
<1>1. /\ n \in Nat
      /\ \A k \in 1..n : \E e \in events : e.sequence = k
      /\ \A e \in events : e.sequence \in 1..n
    BY VerifiedNumbersHaveNoGap DEF DamageInv, verify_chain
<1> HIDE DEF n
<1>2. w.sequence \in Nat \ {0} /\ w \in Rows
    BY RowFields DEF DamageInv, Rows
<1>3. PICK top \in events : top.sequence >= w.sequence
    BY DEF DamageInv, TheEndStays
<1>4. w.sequence \in 1..n
    BY <1>1, <1>2, <1>3
<1>5. PICK e \in events : e.sequence = w.sequence
    BY <1>1, <1>4
<1>6. events \subseteq written
    BY VerifiedRowsWereWritten DEF DamageInv
<1>7. e # w /\ e \in written
    BY <1>6
<1>8. PICK f \in events : f.sequence > w.sequence
    BY <1>5, <1>7 DEF DamageInv, TheEndStays
<1>9. w.sequence + 1 \in 1..n
    BY <1>1, <1>2, <1>8
<1>10. PICK next \in events : next.sequence = e.sequence + 1
    BY <1>1, <1>5, <1>9
<1>11. next.previous = e.hash
    BY <1>10 DEF verify_chain
<1>12. e \in Rows /\ next \in Rows
    BY <1>6 DEF Rows
<1>13. w.hash # e.hash
    BY <1>2, <1>7, <1>12, RowFields DEF DamageInv
<1> QED BY <1>5, <1>10, <1>11, <1>12, <1>13 DEF DamageInv, LossShows

\* Rows of the table may be altered and lost between any two steps of any number of
\* audited transactions; unless the loss is at the end, verify_chain reports it, now and
\* whatever is appended afterwards.
THEOREM AcceptedIsAlwaysComplete == DamageSpec => []AcceptedIsComplete
<1>1. DamageInv /\ [DamageNext]_avars => DamageInv'
  <2> SUFFICES ASSUME DamageInv, [DamageNext]_avars PROVE DamageInv'
      OBVIOUS
  <2>1. CASE ANext /\ PayloadsDiffer'
      BY <2>1, AppendEventKeepsDamageInv, CommitEventKeepsDamageInv, RollbackKeepsDamageInv
         DEF ANext
  <2>2. CASE \E e \in events : LoseRow(e) \/ \E payload \in Payload : AlterRow(e, payload)
      BY <2>2, LoseRowKeepsDamageInv, AlterRowKeepsDamageInv
  <2>3. CASE UNCHANGED avars
      BY <2>3 DEF avars, DamageInv, RowsAreFaithful, WaitingIsNew, PayloadsDiffer,
         TheEndStays, LossShows, Rows, Waiting
  <2> QED BY <2>1, <2>2, <2>3 DEF DamageNext
<1>2. DamageInv => AcceptedIsComplete
    BY VerifiedRowsWereWritten, VerifiedTableIsComplete DEF AcceptedIsComplete, DamageInv
<1> QED BY <1>1, <1>2, DamageInvInit, PTL DEF DamageSpec

=============================================================================
