--------------------------- MODULE AccessControl ----------------------------
(***************************************************************************)
(* Who may use the API: auth/api_keys.py, get_investigator of                 *)
(* routes/investigations.py with its cache, and get_administrator of           *)
(* routes/profiles.py.                                                       *)
(*                                                                         *)
(* A request reads the keys in a transaction and is decided once that has        *)
(* committed; while the database cannot be reached, reads are let in on what      *)
(* the cache remembers of an earlier request.  One key; others do not touch it.   *)
(***************************************************************************)
EXTENDS Integers, FiniteSets

CONSTANTS Projects,
          Slots,    \* requests handled at the same time
          CacheTicks, \* AUTH_CACHE_TTL_SECONDS
          MaxLag    \* bound: ticks a transaction takes

ASSUME AccessAssumption == CacheTicks \in Nat /\ MaxLag \in Nat

\* The key is [revoked, scopes, administrator]; a request [project, kind], where kind is
\* "read" (what _eligible_cached_read lets in), "write" or "administer".
VARIABLES key,
          database, \* whether it can be reached
          cache,    \* _AUTH_CACHE: [left, scopes]; left is 0 when there is none
          requests,
          since     \* history: ticks since the key was last good for each project

kvars == <<key, database, cache, requests, since>>

ReadySlot == [phase |-> "ready"]

Good(k, project) == ~k.revoked /\ project \in k.scopes

AccessInit ==
    /\ key \in [revoked : {FALSE}, scopes : SUBSET Projects \ {{}}, administrator : BOOLEAN]
    /\ database = TRUE
    /\ cache = [left |-> 0, scopes |-> {}]
    /\ requests = [r \in Slots |-> ReadySlot]
    /\ since = [p \in Projects |-> IF p \in key.scopes THEN 0 ELSE CacheTicks + MaxLag + 1]

\* The transaction reads the keys as they are.
ReadKeys(r, project, kind) ==
    /\ requests[r].phase # "read" /\ database
    /\ requests' = [requests EXCEPT
                      ![r] = [phase |-> "read", project |-> project, kind |-> kind,
                              row |-> key, lag |-> 0]]
    /\ UNCHANGED <<key, database, cache, since>>

\* The outcome of a request and, if it is let in, how stale what it was let in by is.
Decided(r, project, status) ==
    requests' = [requests EXCEPT
        ![r] = [phase |-> "done", status |-> status,
                stale |-> IF status = "refused" THEN 0 ELSE since[project]]]

authenticate(request) ==
    /\ Good(request.row, request.project)
    /\ request.kind = "administer" => request.row.administrator

\* The transaction has committed.  A refusal leaves the cache as it is.
Authenticate(r) ==
    LET request == requests[r]
        passes == authenticate(request)
    IN /\ request.phase = "read" /\ database
       /\ Decided(r, request.project, IF passes THEN "let in" ELSE "refused")
       /\ cache' = IF passes /\ request.kind # "administer"
                   THEN [left |-> CacheTicks, scopes |-> request.row.scopes] ELSE cache
       /\ UNCHANGED <<key, database, since>>

CacheGood_Forever(project) == project \in cache.scopes

CacheGood(project) == cache.left > 0 /\ project \in cache.scopes

\* The database fails: before the keys are read, or before the transaction commits.
\* A read is let in by the cache; there is none for an administrator.
DatabaseFails(r, project, kind) ==
    /\ ~database
    /\ requests[r].phase = "read" => requests[r].project = project /\ requests[r].kind = kind
    /\ Decided(r, project, IF kind = "read" /\ CacheGood(project) THEN "remembered"
                           ELSE "refused")
    /\ UNCHANGED <<key, database, cache, since>>

\* Somebody revokes the key or narrows its scopes.
KeyChanges ==
    /\ \/ key' = [key EXCEPT !.revoked = TRUE]
       \/ \E p \in key.scopes : key' = [key EXCEPT !.scopes = @ \ {p}]
    /\ key' # key
    /\ UNCHANGED <<database, cache, requests, since>>

DatabaseGoesUpOrDown ==
    /\ database' = ~database
    /\ UNCHANGED <<key, cache, requests, since>>

\* Time passes; a transaction takes at most MaxLag ticks.
AccessTick ==
    /\ \A r \in Slots : requests[r].phase = "read" => requests[r].lag < MaxLag
    /\ cache' = [cache EXCEPT !.left = IF @ > 0 THEN @ - 1 ELSE 0]
    /\ requests' = [r \in Slots |-> IF requests[r].phase = "read"
                                    THEN [requests[r] EXCEPT !.lag = @ + 1] ELSE requests[r]]
    /\ since' = [p \in Projects |-> IF Good(key, p) THEN 0
                                    ELSE IF since[p] > CacheTicks + MaxLag THEN since[p]
                                    ELSE since[p] + 1]
    /\ UNCHANGED <<key, database>>

AccessNext ==
    \/ \E r \in Slots : \/ Authenticate(r)
                        \/ \E p \in Projects, kind \in {"read", "write", "administer"} :
                              ReadKeys(r, p, kind) \/ DatabaseFails(r, p, kind)
    \/ KeyChanges \/ DatabaseGoesUpOrDown \/ AccessTick

AccessSpec == AccessInit /\ [][AccessNext]_kvars

----------------------------------------------------------------------------
(* Properties.                                                              *)

\* Whoever is let in held a key that was good for the project not longer ago than a
\* transaction takes or, when the cache remembered it, that and the life of the entry:
\* a request that read the keys before they changed may still write its entry after
\* another was refused, but it cannot do so later.
AccessIsRecent ==
    \A r \in Slots : requests[r].phase = "done" =>
        /\ requests[r].status = "let in" => requests[r].stale <= MaxLag
        /\ requests[r].status = "remembered" => requests[r].stale <= CacheTicks + MaxLag
=============================================================================
