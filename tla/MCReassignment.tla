--------------------------- MODULE MCReassignment ---------------------------
(* Instances of Reassignment for TLC. *)
EXTENDS Reassignment, TLC

CONSTANTS i1, ann, bob, cal, f1, f2

\* One issue held by ann; two simulations propose bob and cal for it.
ToBob == [task |-> i1, current |-> ann, proposed |-> bob, candidates |-> {bob, cal},
          confidence |-> "high", fingerprint |-> f1]
ToCal == [ToBob EXCEPT !.proposed = cal, !.confidence = "medium"]

OneData == {ToBob}
TwoData == {ToBob, ToCal}

\* Two approved proposals for the one issue, one for bob and one for cal: a state
\* every behaviour that creates and approves both reaches.
BothApproved ==
    /\ stored = [s \in SimId |-> ToBob]
    /\ state = [p \in Proposal |-> EXECUTING]
    /\ version = [p \in Proposal |-> DecidedVersion(1)]
    /\ sim \in {g \in [Proposal -> TwoData] : \A p, q \in Proposal : g[p] = g[q] => p = q}
    /\ ttl = [p \in Proposal |-> 0]
    /\ evidence = [i \in Issue |-> f1]
    /\ decisions \in
         {{[key |-> k[p], proposal |-> p, decision |-> "approve",
            actor |-> CHOOSE m \in Decider : TRUE] : p \in Proposal} :
          k \in {h \in [Proposal -> DecisionKey] : \A p, q \in Proposal : h[p] = h[q] => p = q}}
    /\ deciding = [m \in Decider |-> NoCommand]
    /\ trail = [p \in Proposal |-> <<<<Absent, PENDING>>, <<PENDING, EXECUTING>>>>]
    /\ EInit

\* From there only the two executions touch the issue.
PairSpec == BothApproved /\ [][SagaStep]_vars

PairFairSpec == PairSpec /\ Fairness

Symmetric == Permutations(Caller) \cup Permutations(Reconciler)
                \cup Permutations(Decider) \cup Permutations(Proposal)
                \cup Permutations(DecisionKey)

=============================================================================
