---------------------------- MODULE MCProposals ----------------------------
(* An instance of Proposals for TLC. *)
EXTENDS Proposals, TLC

CONSTANTS i1, a, b, f1

\* A simulation that can be stored and two that validate_candidate refuses.
Sound  == [task |-> i1, current |-> a, proposed |-> b, candidates |-> {b},
           confidence |-> "medium", fingerprint |-> f1]
Guess  == [Sound EXCEPT !.confidence = "low"]
NoMove == [Sound EXCEPT !.proposed = a, !.candidates = {a}]

Data == {Sound, Guess, NoMove}

Symmetric == Permutations(Proposal) \cup Permutations(Decider)
                \cup Permutations(DecisionKey)

=============================================================================
