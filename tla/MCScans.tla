------------------------------- MODULE MCScans ------------------------------
(***************************************************************************)
(* An instance for TLC of scans and of the delivery of the notifications they  *)
(* ask for.  Between them is the outbox, which nothing in the repository reads   *)
(* in a loop of its own: a behaviour takes the steps of the scans, or of the     *)
(* delivery of an alert, or of that of a notice of an uncertain execution.      *)
(***************************************************************************)
EXTENDS Scans, Notifications

CONSTANTS f1, f2

VARIABLE part

TwoEmployees == <<"ann", "bob">>

SomeEvidence == {[level |-> LOW, fingerprint |-> f1], [level |-> HIGH, fingerprint |-> f2]}

\* The events whose notifications a behaviour is about.
Concerned == IF part = "alerts" THEN AlertEvent
               ELSE IF part = "notices" THEN UncertainEvent ELSE {}

ScanVars == <<avars, svars>>

BothInit == part \in {"scans", "alerts", "notices"} /\ SInit /\ NInit

BothNext ==
    /\ UNCHANGED part
    /\ \/ part = "scans" /\ SNext /\ UNCHANGED nvars
       \/ part # "scans" /\ NStep(Concerned) /\ UNCHANGED ScanVars

BothSpec ==
    /\ BothInit /\ [][BothNext]_<<ScanVars, nvars, part>>
    /\ SFairness
    /\ DeliveryFairness /\ \A e \in OutboxEvent : WF_nvars(e \in Concerned /\ StartPublish(e))

=============================================================================
