---------------------------- MODULE RateLimiter -----------------------------
(***************************************************************************)
(* The in-memory rate limiter of the API: agent_api/security/limits.py.        *)
(*                                                                         *)
(* A window per client and group of routes, of a fixed length from its first     *)
(* request.  Old windows are removed only when there are too many of them.       *)
(***************************************************************************)
EXTENDS Ages

CONSTANTS Clients,      \* keys of a group of routes, a method and an identity
          Allowed,      \* policy.requests
          WindowTicks,  \* policy.window_seconds, which is 60 in every policy
          MaxWindows    \* 10,000: windows beyond which old ones are removed

ASSUME RateLimiterAssumption ==
    Allowed \in Nat \ {0} /\ WindowTicks \in Nat \ {0} /\ MaxWindows \in Nat

VARIABLES windows,  \* _windows: [age, count] of each client that has one
          admitted  \* history: ticks since each request admitted in the last window

lvars == <<windows, admitted>>

LimiterInit ==
    /\ windows = [c \in {} |-> {}]
    /\ admitted = [c \in Clients |-> <<>>]

Younger_None(ws) == [c \in {} |-> {}]

\* The windows younger than 60 seconds.
Younger(ws) == [c \in {d \in DOMAIN ws : ws[d].age < WindowTicks} |-> ws[c]]

Tidied(ws) == IF Cardinality(DOMAIN ws) > MaxWindows THEN Younger(ws) ELSE ws

\* The window a request of c falls in.
WindowOf(ws, c) ==
    IF c \in DOMAIN ws /\ ws[c].age < WindowTicks THEN ws[c] ELSE [age |-> 0, count |-> 0]

allow(c) ==
    LET ws == Tidied(windows)
        w == WindowOf(ws, c)
    IN /\ w.count < Allowed
       /\ windows' = [d \in DOMAIN ws \cup {c} |->
                        IF d = c THEN [w EXCEPT !.count = @ + 1] ELSE ws[d]]
       /\ admitted' = [admitted EXCEPT ![c] = Append(@, 0)]

\* RATE_LIMITED: only the removal stays.
Limit(c) ==
    LET ws == Tidied(windows)
    IN /\ WindowOf(ws, c).count >= Allowed
       /\ windows' = ws
       /\ UNCHANGED admitted

Second ==
    /\ windows' = [c \in DOMAIN windows |->
                     [windows[c] EXCEPT !.age = IF @ < WindowTicks THEN @ + 1 ELSE @]]
    /\ admitted' = [c \in Clients |-> Aged(admitted[c], WindowTicks)]

LimiterNext == Second \/ \E c \in Clients : allow(c) \/ Limit(c)

LimiterSpec == LimiterInit /\ [][LimiterNext]_lvars

----------------------------------------------------------------------------
(* Properties.                                                              *)

\* In any 60 seconds, wherever they begin, a client gets at most twice the requests of
\* its policy, and never more than them in one window: removing windows when there are
\* too many never gives back requests that count.
RequestsAreLimited ==
    \A c \in Clients :
        /\ Len(admitted[c]) <= 2 * Allowed
        /\ c \in DOMAIN windows =>
              Cardinality({n \in DOMAIN admitted[c] : admitted[c][n] <= windows[c].age})
                  <= Allowed

=============================================================================
