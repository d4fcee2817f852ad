--------------------------- MODULE ProfilesProofs ---------------------------
(***************************************************************************)
(* The audit chain replays the profiles for any number of requests, employees   *)
(* and capacities.                                                            *)
(***************************************************************************)
EXTENDS Profiles, AuditChainProofs

Row == [version : Nat \ {0}, capacity : Capacity]

RequestRecord ==
    {Idle}
    \cup [phase : {"create", "created"}, employee : Employee, expected : {0},
          capacity : Capacity]
    \cup [phase : {"update"}, employee : Employee, expected : Nat \ {0},
          capacity : Capacity, guess : BOOLEAN]
    \cup [phase : {"read", "updated"}, employee : Employee, expected : Nat \ {0},
          capacity : Capacity, guess : BOOLEAN, prior : Capacity]
    \cup [phase : {"committed"}, employee : Employee, version : Nat \ {0}]

ChangeRecord ==
    [action : {"created"}, employee : Employee, version : {1}]
    \cup [action : {"updated"}, employee : Employee, version : Nat \ {0, 1},
          capacity : Capacity, prior : Capacity]

\* Rows, requests and events hold what their tables and calls allow.
ProfilesTypeOK ==
    /\ profiles \in [Employee -> {NoProfile} \cup Row]
    /\ request \in [Tx -> RequestRecord]
    /\ \A v \in events : v.payload \in ChangeRecord
    /\ capacities \in [Employee -> Seq(Capacity)]

\* The history ends with the capacity the row has.
CapacitiesAreOfRows ==
    \A e \in Employee :
        /\ Len(capacities[e]) = profiles[e].version
        /\ profiles[e].version > 0 =>
              capacities[e][profiles[e].version] = profiles[e].capacity

\* One transaction holds a row, and what it found there is there until it commits.
RowsAreHeld ==
    \A t \in Tx : request[t].phase \in {"created", "updated"} =>
        /\ profiles[request[t].employee].version = request[t].expected
        /\ \A u \in Tx : Holds(u, request[t].employee) => u = t

\* An event that waits is that of its own request.
PendingIsOfRequest ==
    \A t \in Tx : pending[t] # NoEvent =>
        /\ request[t].phase \in {"created", "updated"}
        /\ pending[t].payload = Change(request[t])

\* An ETag that was answered is of a version the row has reached.
AnswersAreOfRows ==
    /\ \A e \in Employee, v \in Nat :
          <<e, v>> \in answered => v <= profiles[e].version
    /\ \A t \in Tx :
          request[t].phase = "committed" =>
              request[t].version <= profiles[request[t].employee].version

\* A caller that does not guess has read the capacity its change replaces, unless it will
\* be refused.
PriorIsRead ==
    \A t \in Tx :
        LET r == request[t]
            row == profiles[r.employee]
        IN  r.phase \in {"update", "read", "updated"} /\ ~r.guess =>
                /\ r.expected <= row.version
                /\ r.phase # "update" /\ r.expected = row.version => r.prior = row.capacity

\* The inductive invariant.
ProfilesInv ==
    /\ AInv /\ ProfilesTypeOK /\ RowsAreHeld /\ PendingIsOfRequest
    /\ AnswersAreOfRows /\ PriorIsRead /\ CapacitiesAreOfRows
    /\ TrailMatchesProfiles /\ PriorIsTrue

----------------------------------------------------------------------------

LEMMA ProfilesInitInv == ProfilesInit => ProfilesInv
<1> SUFFICES ASSUME ProfilesInit PROVE ProfilesInv
    OBVIOUS
<1>1. AInv
    BY AInvInit DEF ProfilesInit
<1>2. /\ events = {} /\ answered = {} /\ \A t \in Tx : pending[t] = NoEvent
      /\ \A t \in Tx : request[t].phase = "idle"
      /\ \A e \in Employee : profiles[e].version = 0
    BY DEF ProfilesInit, AInit, Idle, NoProfile
<1>3. ProfilesTypeOK
    BY <1>2 DEF ProfilesInit, ProfilesTypeOK, RequestRecord
<1>4. \A e \in Employee : ChangesOf(e) = {} /\ UpdatesOf(e) = {} /\ capacities[e] = <<>>
    BY <1>2 DEF ProfilesInit, ChangesOf, UpdatesOf
<1>5. PriorIsTrue /\ CapacitiesAreOfRows
  <2>1. Len(<<>>) = 0
      OBVIOUS
  <2> QED BY <1>2, <1>4, <2>1 DEF PriorIsTrue, CapacitiesAreOfRows
<1>6. TrailMatchesProfiles
    BY <1>2, <1>4 DEF TrailMatchesProfiles
<1> QED BY <1>1, <1>2, <1>3, <1>5, <1>6 DEF ProfilesInv, RowsAreHeld, PendingIsOfRequest,
                                     AnswersAreOfRows, PriorIsRead

\* A row's version is a number, 0 without a row.
LEMMA Versions ==
    ASSUME ProfilesTypeOK, NEW e \in Employee
    PROVE  /\ profiles[e].version \in Nat
           /\ profiles[e] = NoProfile <=> profiles[e].version = 0
           /\ profiles[e] # NoProfile => profiles[e] \in Row /\ profiles[e].capacity \in Capacity
BY DEF ProfilesTypeOK, NoProfile, Row

\* What a request is in each of its phases.
LEMMA RequestPhases ==
    ASSUME ProfilesTypeOK, NEW t \in Tx
    PROVE  LET r == request[t]
           IN  /\ r \in RequestRecord
               /\ r.phase # "idle" => r.employee \in Employee
               /\ r.phase \in {"create", "created"} =>
                     r \in [phase : {"create", "created"}, employee : Employee,
                            expected : {0}, capacity : Capacity]
               /\ r.phase = "update" =>
                     r \in [phase : {"update"}, employee : Employee, expected : Nat \ {0},
                            capacity : Capacity, guess : BOOLEAN]
               /\ r.phase \in {"read", "updated"} =>
                     r \in [phase : {"read", "updated"}, employee : Employee,
                            expected : Nat \ {0}, capacity : Capacity, guess : BOOLEAN,
                            prior : Capacity]
               /\ r.phase = "committed" =>
                     r \in [phase : {"committed"}, employee : Employee, version : Nat \ {0}]
BY DEF ProfilesTypeOK, RequestRecord, Idle

----------------------------------------------------------------------------
(* Steps of one request that leave the rows and the chain alone.               *)

\* A request goes on to r: to hold a row only when it is free and as expected, and to have
\* read its prior capacity only when that is what the row says.
LEMMA RequestPreserves ==
    ASSUME ProfilesInv, NEW t \in Tx, NEW r \in RequestRecord,
           request' = [request EXCEPT ![t] = r],
           UNCHANGED <<profiles, guesses, capacities, events>>, AInv',
           \A u \in Tx : pending'[u] \in {pending[u], NoEvent},
           pending'[t] = NoEvent \/ (UNCHANGED pending /\ r = request[t]),
           r.phase \in {"created", "updated"} =>
               /\ profiles[r.employee].version = r.expected
               /\ RowIsFree(t, r.employee),
           r.phase = "committed" => r.version <= profiles[r.employee].version,
           r.phase \in {"update", "read", "updated"} /\ ~r.guess =>
               /\ r.expected <= profiles[r.employee].version
               /\ r.phase # "update" /\ r.expected = profiles[r.employee].version =>
                     r.prior = profiles[r.employee].capacity,
           \A e \in Employee, v \in Nat :
               <<e, v>> \in answered' => v <= profiles[e].version
    PROVE  ProfilesInv'
<1> USE DEF ProfilesInv
<1>1. request'[t] = r /\ \A u \in Tx : u # t => request'[u] = request[u]
    BY DEF ProfilesTypeOK
<1>2. ProfilesTypeOK'
    BY DEF ProfilesTypeOK
<1>3. RowsAreHeld'
    BY <1>1 DEF RowsAreHeld, RowIsFree, Holds
<1>4. PendingIsOfRequest'
  <2> SUFFICES ASSUME NEW u \in Tx, pending'[u] # NoEvent
               PROVE  /\ request'[u].phase \in {"created", "updated"}
                      /\ pending'[u].payload = Change(request'[u])
      BY DEF PendingIsOfRequest, Change
  <2>1. pending'[u] = pending[u] /\ request'[u] = request[u]
      BY <1>1
  <2> QED BY <2>1 DEF PendingIsOfRequest
<1>5. AnswersAreOfRows'
    BY <1>1 DEF AnswersAreOfRows
<1>6. PriorIsRead'
    BY <1>1 DEF PriorIsRead
<1>7. TrailMatchesProfiles' /\ PriorIsTrue' /\ CapacitiesAreOfRows'
    BY DEF TrailMatchesProfiles, PriorIsTrue, ChangesOf, UpdatesOf,
       CapacitiesAreOfRows
<1> QED BY <1>2, <1>3, <1>4, <1>5, <1>6, <1>7

\* A request that has not written its row has no event.
LEMMA NoPending ==
    ASSUME ProfilesInv, NEW t \in Tx, request[t].phase \notin {"created", "updated"}
    PROVE  pending[t] = NoEvent
BY DEF ProfilesInv, PendingIsOfRequest

\* The chain of a step that does not touch it.
LEMMA ChainStays ==
    ASSUME AInv, UNCHANGED avars
    PROVE  AInv'
BY DEF avars, AInv, APending, verify_chain

\* A refused request, an answer and a lost one.
LEMMA EndPreserves ==
    ASSUME ProfilesInv, NEW t \in Tx,
           request[t].phase \notin {"created", "updated"},
           request' = [request EXCEPT ![t] = Idle],
           UNCHANGED <<profiles, guesses, capacities, avars>>,
           \/ UNCHANGED answered
           \/ /\ request[t].phase = "committed"
              /\ answered' = answered \cup {<<request[t].employee, request[t].version>>}
    PROVE  ProfilesInv'
<1>1. Idle \in RequestRecord /\ Idle.phase = "idle"
    BY DEF RequestRecord, Idle
<1>2. pending'[t] = NoEvent /\ UNCHANGED <<events, pending>> /\ AInv'
    BY NoPending, ChainStays DEF avars, ProfilesInv
<1>3. \A e \in Employee, v \in Nat : <<e, v>> \in answered' => v <= profiles[e].version
    BY DEF ProfilesInv, AnswersAreOfRows
<1> QED BY <1>1, <1>2, <1>3, RequestPreserves

\* The answers so far are of versions the rows have reached.
LEMMA AnswersStay ==
    ASSUME ProfilesInv, UNCHANGED answered
    PROVE  \A e \in Employee, v \in Nat : <<e, v>> \in answered' => v <= profiles[e].version
BY DEF ProfilesInv, AnswersAreOfRows

\* POST /profiles.
LEMMA SubmitCreatePreserves ==
    ASSUME ProfilesInv, NEW t \in Tx, NEW e \in Employee, NEW c \in Capacity,
           SubmitCreate(t, e, c)
    PROVE  ProfilesInv'
<1> DEFINE r == [phase |-> "create", employee |-> e, expected |-> 0, capacity |-> c]
<1>1. /\ request[t].phase = "idle"
      /\ request' = [request EXCEPT ![t] = r]
      /\ UNCHANGED <<profiles, answered, guesses, capacities, avars>>
    BY DEF SubmitCreate, Idle
<1>2. r \in RequestRecord /\ r.phase = "create"
    BY DEF RequestRecord
<1>3. pending'[t] = NoEvent /\ UNCHANGED <<events, pending>> /\ AInv'
    BY <1>1, NoPending, ChainStays DEF avars, ProfilesInv
<1> HIDE DEF r
<1> QED BY <1>1, <1>2, <1>3, AnswersStay, RequestPreserves

\* PATCH /profiles/{employee_id}/capacity: what is not a guess was answered before.
LEMMA SubmitUpdatePreserves ==
    ASSUME ProfilesInv, NEW t \in Tx, NEW e \in Employee, NEW c \in Capacity,
           NEW v \in 1..MaxSeq, SubmitUpdate(t, e, v, c)
    PROVE  ProfilesInv'
<1> DEFINE g == <<e, v>> \notin answered
           r == [phase |-> "update", employee |-> e, expected |-> v, capacity |-> c,
                 guess |-> g]
<1>1. /\ request[t].phase = "idle"
      /\ request' = [request EXCEPT ![t] = r]
      /\ UNCHANGED <<profiles, answered, guesses, capacities, avars>>
    BY DEF SubmitUpdate, Idle
<1>2. v \in Nat \ {0}
    BY MaxSeqAssumption
<1>3. ~g => v <= profiles[e].version
    BY <1>2 DEF ProfilesInv, AnswersAreOfRows
<1>4. g \in BOOLEAN
    OBVIOUS
<1> HIDE DEF g
<1>5. /\ r \in RequestRecord /\ r.phase = "update" /\ r.employee = e
      /\ r.expected = v /\ r.guess = g
    BY <1>2, <1>4 DEF RequestRecord
<1>6. pending'[t] = NoEvent /\ UNCHANGED <<events, pending>> /\ AInv'
    BY <1>1, NoPending, ChainStays DEF avars, ProfilesInv
<1> HIDE DEF r
<1> QED BY <1>1, <1>3, <1>5, <1>6, AnswersStay, RequestPreserves

----------------------------------------------------------------------------
(* The steps before the commit.                                              *)

\* The flush of create, of a row nobody holds.
LEMMA CreateRowPreserves ==
    ASSUME ProfilesInv, NEW t \in Tx, CreateRow(t)
    PROVE  ProfilesInv'
<1> DEFINE r == [request[t] EXCEPT !.phase = "created"]
<1>1. request[t].phase = "create"
    BY DEF CreateRow
<1>2. CASE Refuse(t)
    BY <1>1, <1>2, EndPreserves DEF Refuse
<1>3. CASE /\ profiles[request[t].employee] = NoProfile
           /\ request' = [request EXCEPT ![t].phase = "created"]
           /\ UNCHANGED <<profiles, answered, guesses, capacities, avars>>
  <2>1. request[t] \in [phase : {"create", "created"}, employee : Employee,
                        expected : {0}, capacity : Capacity]
      BY <1>1, RequestPhases DEF ProfilesInv
  <2>2. /\ r \in RequestRecord /\ r.phase = "created" /\ r.employee = request[t].employee
        /\ r.expected = 0
      BY <2>1 DEF RequestRecord
  <2>3. profiles[r.employee].version = 0 /\ RowIsFree(t, r.employee)
      BY <1>3, <2>2 DEF CreateRow, NoProfile
  <2>4. request' = [request EXCEPT ![t] = r]
      BY <1>3 DEF ProfilesInv, ProfilesTypeOK
  <2>5. pending'[t] = NoEvent /\ UNCHANGED <<events, pending>> /\ AInv'
      BY <1>1, <1>3, NoPending, ChainStays DEF avars, ProfilesInv
  <2> HIDE DEF r
  <2> QED BY <1>3, <2>2, <2>3, <2>4, <2>5, AnswersStay, RequestPreserves
<1> QED BY <1>2, <1>3 DEF CreateRow

\* The read of the prior capacity: what a caller who does not guess has read is stale only
\* if the version it expects is too.
LEMMA ReadProfilePreserves ==
    ASSUME ProfilesInv, NEW t \in Tx, ReadProfile(t)
    PROVE  ProfilesInv'
<1> DEFINE q == request[t]
           prior == profiles[q.employee].capacity
           r == [phase |-> "read", employee |-> q.employee, expected |-> q.expected,
                 capacity |-> q.capacity, guess |-> q.guess, prior |-> prior]
<1>1. q.phase = "update"
    BY DEF ReadProfile
<1>2. CASE Refuse(t)
    BY <1>1, <1>2, EndPreserves DEF Refuse
<1>3. CASE /\ profiles[q.employee] # NoProfile
           /\ request' = [request EXCEPT ![t] = r]
           /\ UNCHANGED <<profiles, answered, guesses, capacities, avars>>
  <2>1. q \in [phase : {"update"}, employee : Employee, expected : Nat \ {0},
               capacity : Capacity, guess : BOOLEAN]
      BY <1>1, RequestPhases DEF ProfilesInv
  <2>2. prior \in Capacity
      BY <1>3, <2>1, Versions DEF ProfilesInv
  <2>3. ~q.guess => q.expected <= profiles[q.employee].version
      BY <1>1 DEF ProfilesInv, PriorIsRead
  <2>4. pending'[t] = NoEvent /\ UNCHANGED <<events, pending>> /\ AInv'
      BY <1>1, <1>3, NoPending, ChainStays DEF avars, ProfilesInv
  <2>5. /\ r \in RequestRecord /\ r.phase = "read" /\ r.employee = q.employee
        /\ r.expected = q.expected /\ r.guess = q.guess
        /\ r.prior = profiles[q.employee].capacity
      BY <2>1, <2>2 DEF RequestRecord
  <2> HIDE DEF r
  <2> QED BY <1>3, <2>3, <2>4, <2>5, AnswersStay, RequestPreserves
<1> QED BY <1>2, <1>3 DEF ReadProfile

\* The conditional UPDATE, once the row is free.
LEMMA UpdateRowPreserves ==
    ASSUME ProfilesInv, NEW t \in Tx, UpdateRow(t)
    PROVE  ProfilesInv'
<1> DEFINE q == request[t]
           r == [q EXCEPT !.phase = "updated"]
<1>1. q.phase = "read"
    BY DEF UpdateRow
<1>2. CASE Refuse(t)
    BY <1>1, <1>2, EndPreserves DEF Refuse
<1>3. CASE /\ VersionMatches(profiles[q.employee], q.expected)
           /\ request' = [request EXCEPT ![t].phase = "updated"]
           /\ UNCHANGED <<profiles, answered, guesses, capacities, avars>>
  <2>1. q \in [phase : {"read", "updated"}, employee : Employee, expected : Nat \ {0},
               capacity : Capacity, guess : BOOLEAN, prior : Capacity]
      BY <1>1, RequestPhases DEF ProfilesInv
  <2>2. /\ r \in RequestRecord /\ r.phase = "updated" /\ r.employee = q.employee
        /\ r.expected = q.expected /\ r.guess = q.guess /\ r.prior = q.prior
      BY <2>1 DEF RequestRecord
  <2>3. profiles[r.employee].version = r.expected /\ RowIsFree(t, r.employee)
      BY <1>3, <2>2 DEF UpdateRow, VersionMatches
  <2>4. request' = [request EXCEPT ![t] = r]
      BY <1>3 DEF ProfilesInv, ProfilesTypeOK
  <2>5. pending'[t] = NoEvent /\ UNCHANGED <<events, pending>> /\ AInv'
      BY <1>1, <1>3, NoPending, ChainStays DEF avars, ProfilesInv
  <2>6. ~q.guess => /\ q.expected <= profiles[q.employee].version
                    /\ q.expected = profiles[q.employee].version =>
                          q.prior = profiles[q.employee].capacity
      BY <1>1 DEF ProfilesInv, PriorIsRead
  <2> HIDE DEF r
  <2> QED BY <1>3, <2>2, <2>3, <2>4, <2>5, <2>6, AnswersStay, RequestPreserves
<1> QED BY <1>2, <1>3 DEF UpdateRow

\* What the event of a request that holds its row says.
LEMMA ChangeType ==
    ASSUME ProfilesInv, NEW t \in Tx, request[t].phase \in {"created", "updated"}
    PROVE  LET r == request[t]
           IN  /\ Change(r) \in ChangeRecord
               /\ Change(r).employee = r.employee /\ Change(r).version = r.expected + 1
               /\ Change(r).action = r.phase
               /\ r.phase = "updated" =>
                     /\ Change(r).capacity = r.capacity /\ Change(r).prior = r.prior
                     /\ r.expected > 0
               /\ r.phase = "created" => r.expected = 0
               /\ r.expected \in Nat /\ r.employee \in Employee /\ r.capacity \in Capacity
<1> DEFINE r == request[t]
           version == r.expected + 1
<1>1. CASE r.phase = "created"
  <2>1. r \in [phase : {"create", "created"}, employee : Employee,
               expected : {0}, capacity : Capacity]
      BY <1>1, RequestPhases DEF ProfilesInv
  <2> QED BY <1>1, <2>1 DEF Change, CreatedState, UpdatedState, ChangeRecord
<1>2. CASE r.phase = "updated"
  <2>1. r \in [phase : {"read", "updated"}, employee : Employee, expected : Nat \ {0},
               capacity : Capacity, guess : BOOLEAN, prior : Capacity]
      BY <1>2, RequestPhases DEF ProfilesInv
  <2>2. version \in Nat \ {0, 1}
      BY <1>2, <2>1
  <2> QED BY <1>2, <2>1, <2>2 DEF Change, CreatedState, UpdatedState, ChangeRecord
<1> QED BY <1>1, <1>2

\* The event is appended after the row was written.
LEMMA AuditChangePreserves ==
    ASSUME ProfilesInv, NEW t \in Tx, AuditChange(t)
    PROVE  ProfilesInv'
<1>1. /\ request[t].phase \in {"created", "updated"}
      /\ AppendEvent(t, Change(request[t])) /\ UNCHANGED pvars
    BY DEF AuditChange
<1>2. AInv' /\ UNCHANGED events
    BY <1>1, AppendEventInv DEF ProfilesInv, AppendEvent
<1>3. /\ \A u \in Tx \ {t} : pending'[u] = pending[u]
      /\ pending'[t].payload = Change(request[t])
    BY <1>1 DEF ProfilesInv, AInv, AppendEvent, Event, Successor
<1>4. PendingIsOfRequest'
  <2> SUFFICES ASSUME NEW u \in Tx, pending'[u] # NoEvent
               PROVE  /\ request[u].phase \in {"created", "updated"}
                      /\ pending'[u].payload = Change(request[u])
      BY <1>1 DEF PendingIsOfRequest, pvars, Change
  <2> QED BY <1>1, <1>3 DEF ProfilesInv, PendingIsOfRequest
<1>5. UNCHANGED <<profiles, request, answered, guesses, capacities, events>>
    BY <1>1, <1>2 DEF pvars
<1> QED BY <1>2, <1>4, <1>5 DEF ProfilesInv, ProfilesTypeOK, RowsAreHeld, Holds,
       AnswersAreOfRows, PriorIsRead, TrailMatchesProfiles, PriorIsTrue, ChangesOf, UpdatesOf,
       CapacitiesAreOfRows

\* The transaction fails, and its row and event with it.
LEMMA ChangeFailsPreserves ==
    ASSUME ProfilesInv, NEW t \in Tx, ChangeFails(t)
    PROVE  ProfilesInv'
<1>1. Idle \in RequestRecord /\ Idle.phase = "idle"
    BY DEF RequestRecord, Idle
<1>2. AInv' /\ UNCHANGED events
    BY RollbackInv DEF ChangeFails, ProfilesInv, Rollback
<1>3. /\ pending'[t] = NoEvent
      /\ \A u \in Tx : pending'[u] \in {pending[u], NoEvent}
    BY DEF ChangeFails, Rollback, ProfilesInv, AInv
<1>4. request' = [request EXCEPT ![t] = Idle] /\ UNCHANGED <<profiles, answered, guesses, capacities>>
    BY DEF ChangeFails
<1> QED BY <1>1, <1>2, <1>3, <1>4, AnswersStay, RequestPreserves

----------------------------------------------------------------------------
(* The commit.                                                               *)

\* The row, the event and the request of a change are committed together.
LEMMA CommitChangePreserves ==
    ASSUME ProfilesInv, NEW t \in Tx, CommitChange(t)
    PROVE  ProfilesInv'
<1>0. PICK e \in Employee : e = request[t].employee
    BY ChangeType DEF CommitChange, CommitEvent, ProfilesInv, PendingIsOfRequest
<1> USE <1>0
<1> DEFINE r == request[t]
           n == r.expected + 1
           event == pending[t]
           done == [phase |-> "committed", employee |-> e, version |-> ChangedRow(r).version]
<1>1. /\ pending[t] # NoEvent /\ events' = events \cup {event}
      /\ pending' = [pending EXCEPT ![t] = NoEvent]
      /\ profiles' = [profiles EXCEPT ![e] = ChangedRow(r)]
      /\ request' = [request EXCEPT ![t] = done]
      /\ guesses' = IF r.phase = "updated" /\ r.guess
                    THEN guesses \cup {<<e, n>>} ELSE guesses
      /\ capacities' = [capacities EXCEPT ![e] = Append(@, r.capacity)]
      /\ UNCHANGED answered
    BY DEF CommitChange, CommitEvent
<1>2. r.phase \in {"created", "updated"} /\ event.payload = Change(r)
    BY <1>1 DEF ProfilesInv, PendingIsOfRequest
<1>3. /\ e \in Employee /\ r.expected \in Nat /\ n \in Nat \ {0} /\ r.capacity \in Capacity
      /\ event.payload \in ChangeRecord /\ event.payload.employee = e
      /\ event.payload.version = n /\ event.payload.action = r.phase
      /\ r.phase = "updated" =>
            event.payload.capacity = r.capacity /\ event.payload.prior = r.prior
    BY <1>2, ChangeType
<1>4. profiles[e].version = r.expected /\ r.phase = "created" => r.expected = 0
    BY <1>2, ChangeType DEF ProfilesInv, RowsAreHeld
<1>5. ChangedRow(r) = [version |-> n, capacity |-> r.capacity] /\ ChangedRow(r) \in Row
    BY <1>2, <1>3, <1>4, ChangeType DEF ProfilesInv, RowsAreHeld, ChangedRow, ProfileRow, Row
<1>6. /\ done \in RequestRecord /\ done.phase = "committed" /\ done.employee = e
      /\ done.version = n
    BY <1>3, <1>5 DEF RequestRecord
<1>7. profiles[e].version = r.expected
    BY <1>2 DEF ProfilesInv, RowsAreHeld
<1>8. /\ profiles'[e].version = n /\ profiles'[e].capacity = r.capacity
      /\ \A f \in Employee : f # e => profiles'[f] = profiles[f]
      /\ profiles' \in [Employee -> {NoProfile} \cup Row]
    BY <1>1, <1>3, <1>5 DEF ProfilesInv, ProfilesTypeOK
<1>9. AInv' /\ \A f \in events : f.sequence < event.sequence /\ f.sequence \in Nat
    BY CommitEventInv, CommittedIsNext, SequenceType DEF CommitChange, ProfilesInv
<1>10. event.sequence \in Nat
    BY <1>1 DEF ProfilesInv, AInv, APending
<1> HIDE DEF done, event
<1>11. /\ request'[t] = done /\ request' \in [Tx -> RequestRecord]
       /\ \A u \in Tx : u # t => request'[u] = request[u]
    BY <1>1, <1>6 DEF ProfilesInv, ProfilesTypeOK
<1>12. /\ pending'[t] = NoEvent
       /\ \A u \in Tx : u # t => pending'[u] = pending[u]
    BY <1>1 DEF ProfilesInv, AInv
<1>13. /\ capacities' \in [Employee -> Seq(Capacity)]
       /\ capacities'[e] = Append(capacities[e], r.capacity)
       /\ \A f \in Employee : f # e => capacities'[f] = capacities[f]
    BY <1>1, <1>3 DEF ProfilesInv, ProfilesTypeOK
<1>14. /\ Len(capacities'[e]) = n /\ capacities'[e][n] = r.capacity
       /\ \A v \in 1..r.expected : capacities'[e][v] = capacities[e][v]
       /\ r.expected > 0 => capacities[e][r.expected] = profiles[e].capacity
  <2>1. capacities[e] \in Seq(Capacity) /\ Len(capacities[e]) = r.expected
      BY <1>3, <1>7 DEF ProfilesInv, ProfilesTypeOK, CapacitiesAreOfRows
  <2>2. /\ Len(Append(capacities[e], r.capacity)) = r.expected + 1
        /\ Append(capacities[e], r.capacity)[r.expected + 1] = r.capacity
        /\ \A v \in 1..r.expected : Append(capacities[e], r.capacity)[v] = capacities[e][v]
      BY <1>3, <2>1
  <2>3. r.expected > 0 => capacities[e][r.expected] = profiles[e].capacity
      BY <1>3, <1>7 DEF ProfilesInv, CapacitiesAreOfRows
  <2> QED BY <1>13, <2>2, <2>3
<1>15. CapacitiesAreOfRows'
    BY <1>8, <1>13, <1>14 DEF ProfilesInv, CapacitiesAreOfRows
<1>16. ProfilesTypeOK'
    BY <1>1, <1>3, <1>8, <1>11, <1>13 DEF ProfilesInv, ProfilesTypeOK
<1>17. \A u \in Tx : u # t /\ request[u].phase \in {"created", "updated"} =>
           request[u].employee # e /\ request[u].employee \in Employee
    BY <1>2, RequestPhases DEF ProfilesInv, RowsAreHeld, Holds
<1>18. RowsAreHeld'
    BY <1>6, <1>8, <1>11, <1>17 DEF ProfilesInv, RowsAreHeld, Holds
<1>19. PendingIsOfRequest'
  <2> SUFFICES ASSUME NEW u \in Tx, pending'[u] # NoEvent
               PROVE  /\ request'[u].phase \in {"created", "updated"}
                      /\ pending'[u].payload = Change(request'[u])
      BY DEF PendingIsOfRequest, Change
  <2>1. u # t /\ pending'[u] = pending[u] /\ request'[u] = request[u]
      BY <1>11, <1>12
  <2> QED BY <2>1 DEF ProfilesInv, PendingIsOfRequest
<1>20. \A f \in Employee : profiles[f].version \in Nat /\ profiles[f].version <= profiles'[f].version
    BY <1>3, <1>7, <1>8, Versions DEF ProfilesInv
<1>21. AnswersAreOfRows'
  <2>1. \A f \in Employee, v \in Nat :
           <<f, v>> \in answered' => v <= profiles'[f].version
      BY <1>1, <1>8, <1>20, Versions, <1>3 DEF ProfilesInv, AnswersAreOfRows
  <2>2. ASSUME NEW u \in Tx, request'[u].phase = "committed"
        PROVE  request'[u].version <= profiles'[request'[u].employee].version
    <3>1. CASE u = t
        BY <1>3, <1>6, <1>8, <1>11, <3>1
    <3>2. CASE u # t
      <4>1. request'[u] = request[u]
          BY <1>11, <3>2
      <4>2. request[u] \in [phase : {"committed"}, employee : Employee, version : Nat \ {0}]
          BY <2>2, <4>1, RequestPhases DEF ProfilesInv
      <4>3. request[u].version <= profiles[request[u].employee].version
          BY <2>2, <4>1 DEF ProfilesInv, AnswersAreOfRows
      <4>4. request[u].employee \in Employee /\ request[u].version \in Nat
          BY <4>2
      <4>5. profiles'[request[u].employee].version \in Nat
          BY <1>3, <1>8, <1>20, <4>4
      <4> QED BY <1>20, <4>1, <4>3, <4>4, <4>5
    <3> QED BY <3>1, <3>2
  <2> QED BY <2>1, <2>2 DEF AnswersAreOfRows
<1>22. PriorIsRead'
  <2> SUFFICES ASSUME NEW u \in Tx,
                      request'[u].phase \in {"update", "read", "updated"}, ~request'[u].guess
               PROVE  /\ request'[u].expected <= profiles'[request'[u].employee].version
                      /\ /\ request'[u].phase # "update"
                         /\ request'[u].expected = profiles'[request'[u].employee].version
                         => request'[u].prior = profiles'[request'[u].employee].capacity
      BY DEF PriorIsRead
  <2>1. u # t /\ request'[u] = request[u]
      BY <1>6, <1>11
  <2>2. request[u].employee \in Employee /\ request[u].expected \in Nat
      BY <2>1, RequestPhases DEF ProfilesInv
  <2>3. /\ request[u].expected <= profiles[request[u].employee].version
        /\ /\ request[u].phase # "update"
           /\ request[u].expected = profiles[request[u].employee].version
           => request[u].prior = profiles[request[u].employee].capacity
      BY <2>1 DEF ProfilesInv, PriorIsRead
  <2>4. CASE request[u].employee # e
      BY <1>8, <2>1, <2>2, <2>3, <2>4
  <2>5. CASE request[u].employee = e
      BY <1>3, <1>7, <1>8, <2>1, <2>2, <2>3, <2>5
  <2> QED BY <2>4, <2>5
<1>23. \A f \in Employee : \A v \in ChangesOf(f) :
          /\ v \in events /\ v.payload.employee = f /\ v.sequence \in Nat
          /\ v.payload.version \in 1..profiles[f].version
    BY <1>9 DEF ProfilesInv, TrailMatchesProfiles, ChangesOf
<1>24. /\ \A f \in Employee : f # e => ChangesOf(f)' = ChangesOf(f)
       /\ ChangesOf(e)' = ChangesOf(e) \cup {event}
    BY <1>1, <1>3 DEF ChangesOf
<1>25. /\ \A f \in Employee : f # e => UpdatesOf(f)' = UpdatesOf(f)
       /\ r.phase = "created" => UpdatesOf(e)' = UpdatesOf(e)
       /\ r.phase = "updated" => UpdatesOf(e)' = UpdatesOf(e) \cup {event}
    BY <1>2, <1>3, <1>24 DEF UpdatesOf
<1>26. \A f \in Employee : \A v \in UpdatesOf(f) :
          /\ v \in ChangesOf(f) /\ v.payload.version \in 1..profiles[f].version
          /\ v.payload.version > 1
    BY <1>20, <1>23 DEF ProfilesInv, TrailMatchesProfiles, UpdatesOf
<1>27. TrailMatchesProfiles'
  <2>1. ASSUME NEW f \in Employee, f # e
        PROVE  /\ {v.payload.version : v \in ChangesOf(f)'} = 1..profiles'[f].version
               /\ \A v, w \in ChangesOf(f)' :
                     v.sequence < w.sequence => v.payload.version < w.payload.version
               /\ \A v \in ChangesOf(f)' : v.payload.version = 1 <=> v \notin UpdatesOf(f)'
               /\ \A v \in UpdatesOf(f)' :
                     v.payload.capacity = capacities'[f][v.payload.version]
      BY <1>8, <1>24, <1>13, <1>25, <2>1 DEF ProfilesInv, TrailMatchesProfiles
  <2>2. {v.payload.version : v \in ChangesOf(e)'} = 1..n
    <3>1. {v.payload.version : v \in ChangesOf(e)} = 1..r.expected
        BY <1>3, <1>7 DEF ProfilesInv, TrailMatchesProfiles
    <3>2. {v.payload.version : v \in ChangesOf(e) \cup {event}}
             = {v.payload.version : v \in ChangesOf(e)} \cup {n}
        BY <1>3
    <3>3. 1..n = (1..r.expected) \cup {n}
        BY <1>3
    <3> QED BY <1>24, <3>1, <3>2, <3>3
  <2>3. \A v, w \in ChangesOf(e)' :
           v.sequence < w.sequence => v.payload.version < w.payload.version
    <3> SUFFICES ASSUME NEW v \in ChangesOf(e) \cup {event},
                        NEW w \in ChangesOf(e) \cup {event}, v.sequence < w.sequence
                 PROVE  v.payload.version < w.payload.version
        BY <1>24
    <3>1. CASE v \in ChangesOf(e) /\ w \in ChangesOf(e)
        BY <1>3, <3>1 DEF ProfilesInv, TrailMatchesProfiles
    <3>2. CASE v \in ChangesOf(e) /\ w = event
        BY <1>3, <1>7, <1>23, <3>2
    <3>3. CASE v = event
        BY <1>9, <1>10, <1>23, <3>3
    <3> QED BY <3>1, <3>2, <3>3
  <2>4. ASSUME NEW v \in ChangesOf(e)'
        PROVE  v.payload.version = 1 <=> v \notin UpdatesOf(e)'
    <3>1. CASE v = event
      <4>1. v \in UpdatesOf(e)' <=> r.phase = "updated"
          BY <1>2, <1>3, <3>1, <2>4 DEF UpdatesOf
      <4>2. n = 1 <=> r.phase = "created"
          BY <1>2, <1>3, ChangeType
      <4> QED BY <1>2, <1>3, <3>1, <4>1, <4>2
    <3>2. CASE v # event
      <4>1. v \in ChangesOf(e) /\ (v \in UpdatesOf(e)' <=> v \in UpdatesOf(e))
          BY <1>2, <1>24, <1>25, <3>2
      <4> QED BY <1>3, <4>1 DEF ProfilesInv, TrailMatchesProfiles
    <3> QED BY <3>1, <3>2
  <2>5. ASSUME NEW v \in UpdatesOf(e)'
        PROVE  v.payload.capacity = capacities'[e][v.payload.version]
    <3>1. CASE v \in UpdatesOf(e)
        BY <1>3, <1>7, <1>14, <1>26, <3>1 DEF ProfilesInv, TrailMatchesProfiles
    <3>2. CASE v = event /\ r.phase = "updated"
        BY <1>3, <1>14, <3>2
    <3> QED BY <1>2, <1>25, <3>1, <3>2
  <2> QED BY <1>8, <2>1, <2>2, <2>3, <2>4, <2>5 DEF TrailMatchesProfiles
<1>28. PriorIsTrue'
  <2> SUFFICES ASSUME NEW f \in Employee, NEW v \in UpdatesOf(f)',
                      <<f, v.payload.version>> \notin guesses'
               PROVE  v.payload.prior = capacities'[f][v.payload.version - 1]
      BY DEF PriorIsTrue
  <2>1. <<f, v.payload.version>> \notin guesses
      BY <1>1
  <2>2. CASE v \in UpdatesOf(f)
    <3>1. /\ v.payload.prior = capacities[f][v.payload.version - 1]
          /\ v.payload.version - 1 \in 1..profiles[f].version
        BY <1>20, <1>26, <2>1, <2>2 DEF ProfilesInv, PriorIsTrue
    <3> QED BY <1>7, <1>13, <1>14, <3>1
  <2>3. CASE v = event /\ f = e /\ r.phase = "updated"
    <3>1. ~r.guess
        BY <1>1, <1>3, <2>3
    <3>2. r.prior = profiles[e].capacity
        BY <1>7, <2>3, <3>1 DEF ProfilesInv, PriorIsRead
    <3>3. r.expected > 0 /\ r.expected \in 1..r.expected /\ n - 1 = r.expected
        BY <1>2, <1>3, <2>3, ChangeType
    <3> QED BY <1>3, <1>14, <2>3, <3>2, <3>3
  <2> QED BY <1>2, <1>25, <2>2, <2>3
<1> QED BY <1>9, <1>16, <1>18, <1>19, <1>21, <1>22, <1>27, <1>15, <1>28 DEF ProfilesInv

----------------------------------------------------------------------------

\* Whatever a request does next, the invariant survives.
LEMMA ProfilesNextInv ==
    ProfilesInv /\ [ProfilesNext]_<<pvars, avars>> => ProfilesInv'
<1> SUFFICES ASSUME ProfilesInv, [ProfilesNext]_<<pvars, avars>> PROVE ProfilesInv'
    OBVIOUS
<1>1. CASE UNCHANGED <<pvars, avars>>
  <2>1. AInv'
      BY <1>1, ChainStays DEF ProfilesInv
  <2> QED BY <1>1, <2>1 DEF pvars, avars, ProfilesInv, ProfilesTypeOK, RowsAreHeld, Holds,
             PendingIsOfRequest, Change, AnswersAreOfRows, PriorIsRead,
             TrailMatchesProfiles, PriorIsTrue, ChangesOf, UpdatesOf,
       CapacitiesAreOfRows
<1>2. ASSUME NEW t \in Tx, NEW e \in Employee, NEW c \in Capacity, SubmitCreate(t, e, c)
      PROVE  ProfilesInv'
    BY <1>2, SubmitCreatePreserves
<1>3. ASSUME NEW t \in Tx, NEW e \in Employee, NEW c \in Capacity, NEW v \in 1..MaxSeq,
             SubmitUpdate(t, e, v, c)
      PROVE  ProfilesInv'
    BY <1>3, SubmitUpdatePreserves
<1>4. ASSUME NEW t \in Tx,
             \/ CreateRow(t) \/ ReadProfile(t) \/ UpdateRow(t)
             \/ AuditChange(t) \/ CommitChange(t) \/ ChangeFails(t)
      PROVE  ProfilesInv'
    BY <1>4, CreateRowPreserves, ReadProfilePreserves, UpdateRowPreserves,
       AuditChangePreserves, CommitChangePreserves, ChangeFailsPreserves
<1>5. ASSUME NEW t \in Tx, Answer(t) \/ AnswerLost(t) PROVE ProfilesInv'
    BY <1>5, EndPreserves DEF Answer, AnswerLost
<1> QED BY <1>1, <1>2, <1>3, <1>4, <1>5 DEF ProfilesNext

\* Every reachable state of the profiles and of their chain satisfies the inductive
\* invariant.
THEOREM ProfilesInvariant == ProfilesSpec => []ProfilesInv
<1> QED BY ProfilesInitInv, ProfilesNextInv, PTL DEF ProfilesSpec

\* update_capacity_audited and create keep the rows and the chain in one transaction: the
\* chain replays every profile and tells of each change what it replaced, for any number
\* of overlapping, failing and repeated requests.
THEOREM ChangesAreAlwaysAudited == ProfilesSpec => []ChangesAreAudited
<1>1. ProfilesInv => ChangesAreAudited
    BY DEF ProfilesInv, ChangesAreAudited
<1> QED BY <1>1, ProfilesInvariant, PTL

\* The chain of the profile changes verifies too.
THEOREM ProfileChainVerifies == ProfilesSpec => []ChainVerifies
<1>1. ProfilesInv => ChainVerifies
    BY DEF ProfilesInv, AInv, ChainVerifies
<1> QED BY <1>1, ProfilesInvariant, PTL

=============================================================================
