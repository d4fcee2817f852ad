------------------------------ MODULE Profiles ------------------------------
(***************************************************************************)
(* Workforce profiles: ProfileRepository in packages/persistence/...        *)
(* /repositories.py, the create_profile and update_profile_capacity tools   *)
(* of the Workforce MCP server and the profile routes of the Agent API.     *)
(*                                                                         *)
(* A change is one database transaction: a read of the profile without a    *)
(* lock, the conditional UPDATE (whose row lock lasts until the commit), an  *)
(* event appended to the audit chain, the commit.  The caller gives up after *)
(* ten seconds, whatever became of the transaction.  Tx are the requests.    *)
(***************************************************************************)
EXTENDS AuditChain, Sequences

CONSTANTS Employee, Capacity

VARIABLES profiles,  \* profiles[e]: the version and capacity of the row, 0 if none
          request,   \* request[t]: the request that transaction t serves
          answered,  \* the <<employee, version>> pairs sent back as ETags
          guesses,   \* history: changes whose If-Match no answer had given
          capacities \* history: capacities[e][v], the capacity the row had at version v

pvars == <<profiles, request, answered, guesses, capacities>>

NoProfile == [version |-> 0]
Idle == [phase |-> "idle"]

ProfileRow(version, capacity) == [version |-> version, capacity |-> capacity]

ProfilesInit ==
    /\ AInit
    /\ profiles = [e \in Employee |-> NoProfile]
    /\ request = [t \in Tx |-> Idle]
    /\ answered = {}
    /\ guesses = {}
    /\ capacities = [e \in Employee |-> <<>>]

----------------------------------------------------------------------------

\* POST /profiles.
SubmitCreate(t, e, c) ==
    /\ request[t] = Idle
    /\ request' = [request EXCEPT ![t] =
         [phase |-> "create", employee |-> e, expected |-> 0, capacity |-> c]]
    /\ UNCHANGED <<profiles, answered, guesses, capacities, avars>>

\* PATCH /profiles/{employee_id}/capacity.  No route reads a profile, so an
\* If-Match is an ETag answered before or a guess.
SubmitUpdate(t, e, v, c) ==
    /\ request[t] = Idle
    /\ request' = [request EXCEPT ![t] =
         [phase |-> "update", employee |-> e, expected |-> v, capacity |-> c,
          guess |-> <<e, v>> \notin answered]]
    /\ UNCHANGED <<profiles, answered, guesses, capacities, avars>>

Holds(t, e) == request[t].phase \in {"created", "updated"} /\ request[t].employee = e

\* Another transaction's uncommitted row makes an INSERT or UPDATE of it wait.
RowIsFree(t, e) == \A u \in Tx \ {t} : ~Holds(u, e)

Refuse(t) ==
    /\ request' = [request EXCEPT ![t] = Idle]
    /\ UNCHANGED <<profiles, answered, guesses, capacities, avars>>

\* ProfileRepository.create: the flush inserts version 1, or hits
\* uq_profiles_env_employee.
CreateRow(t) ==
    LET r == request[t] IN
    /\ r.phase = "create"
    /\ RowIsFree(t, r.employee)
    /\ IF profiles[r.employee] = NoProfile
       THEN /\ request' = [request EXCEPT ![t].phase = "created"]
            /\ UNCHANGED <<profiles, answered, guesses, capacities, avars>>
       ELSE Refuse(t)

\* update_capacity_audited reads the row for its prior capacity; no row, no update.
ReadProfile(t) ==
    LET r == request[t] IN
    /\ r.phase = "update"
    /\ IF profiles[r.employee] = NoProfile
       THEN Refuse(t)
       ELSE /\ request' = [request EXCEPT ![t] =
                 [phase |-> "read", employee |-> r.employee, expected |-> r.expected,
                  capacity |-> r.capacity, guess |-> r.guess,
                  prior |-> profiles[r.employee].capacity]]
            /\ UNCHANGED <<profiles, answered, guesses, capacities, avars>>

VersionMatches_NotOlder(row, expected) == expected <= row.version

VersionMatches(row, expected) == row.version = expected

\* update_capacity: the UPDATE is evaluated on the row as it is once it is free.
UpdateRow(t) ==
    LET r == request[t] IN
    /\ r.phase = "read"
    /\ RowIsFree(t, r.employee)
    /\ IF VersionMatches(profiles[r.employee], r.expected)
       THEN /\ request' = [request EXCEPT ![t].phase = "updated"]
            /\ UNCHANGED <<profiles, answered, guesses, capacities, avars>>
       ELSE Refuse(t)

\* The event of a creation names version 1 and nothing else of the profile.
CreatedState(r) == [action |-> "created", employee |-> r.employee, version |-> 1]

\* That of an update names the capacity before and after.
UpdatedState(r) ==
    [action |-> "updated", employee |-> r.employee, version |-> r.expected + 1,
     capacity |-> r.capacity, prior |-> r.prior]

Change(r) == IF r.phase = "created" THEN CreatedState(r) ELSE UpdatedState(r)

AuditChange(t) ==
    /\ request[t].phase \in {"created", "updated"}
    /\ AppendEvent(t, Change(request[t]))
    /\ UNCHANGED pvars

\* The row an update leaves: version + 1, in SQL.
ChangedRow(r) ==
    ProfileRow(IF r.phase = "created" THEN 1 ELSE profiles[r.employee].version + 1,
               r.capacity)

\* The tool returns out of the transaction.
CommitChange(t) ==
    LET r == request[t] IN
    /\ CommitEvent(t)
    /\ profiles' = [profiles EXCEPT ![r.employee] = ChangedRow(r)]
    /\ capacities' = [capacities EXCEPT ![r.employee] = Append(@, r.capacity)]
    /\ guesses' = IF r.phase = "updated" /\ r.guess
                  THEN guesses \cup {<<r.employee, r.expected + 1>>} ELSE guesses
    /\ request' = [request EXCEPT ![t] =
         [phase |-> "committed", employee |-> r.employee, version |-> ChangedRow(r).version]]
    /\ UNCHANGED answered

\* A taken sequence number or any other error undoes the row and the event.
ChangeFails(t) ==
    /\ request[t].phase \in {"created", "updated"}
    /\ Rollback(t)
    /\ request' = [request EXCEPT ![t] = Idle]
    /\ UNCHANGED <<profiles, answered, guesses, capacities>>

Answer(t) ==
    LET r == request[t] IN
    /\ r.phase = "committed"
    /\ answered' = answered \cup {<<r.employee, r.version>>}
    /\ request' = [request EXCEPT ![t] = Idle]
    /\ UNCHANGED <<profiles, guesses, capacities, avars>>

\* The client of the MCP server has timed out: the change stands unanswered.
AnswerLost(t) ==
    /\ request[t].phase = "committed"
    /\ request' = [request EXCEPT ![t] = Idle]
    /\ UNCHANGED <<profiles, answered, guesses, capacities, avars>>

ProfilesNext ==
    \E t \in Tx :
        \/ \E e \in Employee, c \in Capacity :
              \/ SubmitCreate(t, e, c)
              \/ \E v \in 1..MaxSeq : SubmitUpdate(t, e, v, c)
        \/ CreateRow(t) \/ ReadProfile(t) \/ UpdateRow(t)
        \/ AuditChange(t) \/ CommitChange(t) \/ ChangeFails(t)
        \/ Answer(t) \/ AnswerLost(t)

ProfilesSpec == ProfilesInit /\ [][ProfilesNext]_<<pvars, avars>>

----------------------------------------------------------------------------
(* Properties.                                                              *)

ChangesOf(e) == {v \in events : v.payload.employee = e}

UpdatesOf(e) == {v \in ChangesOf(e) : v.payload.action = "updated"}

\* The audit chain follows every profile: one event for each version of its row, in
\* the order of the versions, the first of them its creation, and each update with the
\* capacity the row had at that version, however requests overlap, are retried after a
\* lost answer or are refused.
TrailMatchesProfiles ==
    \A e \in Employee :
        /\ {v.payload.version : v \in ChangesOf(e)} = 1..profiles[e].version
        /\ \A v, w \in ChangesOf(e) :
              v.sequence < w.sequence => v.payload.version < w.payload.version
        /\ \A v \in ChangesOf(e) : v.payload.version = 1 <=> v \notin UpdatesOf(e)
        /\ \A v \in UpdatesOf(e) :
              v.payload.capacity = capacities[e][v.payload.version]

\* The prior capacity of an update's event is the one the row had at the version before
\* (the one it was created with, which profile.created does not say, of the first
\* update), when the caller sent an ETag it had been given.  A caller that guesses the
\* version a change in flight will have can get the capacity before that change
\* recorded: the prior state is read before the UPDATE waits for the row.
PriorIsTrue ==
    \A e \in Employee : \A v \in UpdatesOf(e) :
        <<e, v.payload.version>> \notin guesses =>
            v.payload.prior = capacities[e][v.payload.version - 1]

\* create and update_capacity_audited keep the profiles and the audit chain in one
\* transaction: the chain follows the profiles and tells of each update what it replaced.
ChangesAreAudited == TrailMatchesProfiles /\ PriorIsTrue

=============================================================================
