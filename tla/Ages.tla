-------------------------------- MODULE Ages --------------------------------
(***************************************************************************)
(* Ages of past events, in ticks and oldest first: the history by which the  *)
(* properties of RateLimiter and JiraReads say what happened within a time.    *)
(***************************************************************************)
EXTENDS Integers, Sequences, FiniteSets

OldestFirst(ages) == \A m, n \in DOMAIN ages : m <= n => ages[m] >= ages[n]

\* The ages a tick later, without those that have reached the limit.
Aged(ages, limit) ==
    LET older == [n \in DOMAIN ages |-> ages[n] + 1]
        gone == Cardinality({n \in DOMAIN ages : older[n] >= limit})
    IN SubSeq(older, gone + 1, Len(ages))

=============================================================================
