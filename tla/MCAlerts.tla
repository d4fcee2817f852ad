------------------------------ MODULE MCAlerts ------------------------------
(* An instance of Alerts for TLC. *)
EXTENDS Alerts, TLC

CONSTANTS f1, f2

\* Two fingerprints; the level of one of them changes with the scoring version.
SomeEvidence ==
    {[level |-> NoLevel, fingerprint |-> f1], [level |-> LOW, fingerprint |-> f1],
     [level |-> MEDIUM, fingerprint |-> f1], [level |-> HIGH, fingerprint |-> f1],
     [level |-> HIGH, fingerprint |-> f2], [level |-> CRITICAL, fingerprint |-> f2]}

Symmetric == Permutations(Manager)

=============================================================================
