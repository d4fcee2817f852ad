------------------------------ MODULE MCStores ------------------------------
(***************************************************************************)
(* An instance for TLC of the tables that share no row: profiles (on the     *)
(* audit chain), the audit chain itself, the progress history, evidence      *)
(* snapshots, comment evidence and reports; and of what the API, the scoring   *)
(* tools and the browser keep by themselves: keys, request windows, scores,     *)
(* the chat.  Their steps are independent, so a behaviour takes those of one     *)
(* part only.                                                                  *)
(***************************************************************************)
EXTENDS Profiles, Progress, EvidenceStore, CommentEvidence, Reports, Scoring,
        AccessControl, RateLimiter, ChatClient, TLC

CONSTANTS none, ann, zed, away, held, secret, b1, b2, x, y, z

VARIABLE part

\* A task as it starts, with time logged on it, and finished but blocked.
Started == [status |-> "open", remaining |-> 2, spent |-> none, blocked |-> FALSE,
            blockers |-> {}, other |-> 1]
Logged == [Started EXCEPT !.remaining = 1, !.spent = 1, !.other = 2]
Closed == [Started EXCEPT !.status = "done", !.blocked = TRUE]

TaskStates == {Started, Logged, Closed}
DoneStatuses == {"done"}

\* Audited actions on other subjects: proposals, alerts.
OtherSubjects == {[employee |-> x], [employee |-> y], [employee |-> z]}

\* What ann and an unknown author may say: that ann is away, that she is held up, both,
\* or something hypothetical.
Says(author, matches, disqualified) ==
    [author |-> author, matches |-> matches, disqualified |-> disqualified,
     window |-> away \in matches]

CommentTexts ==
    {Says(ann, {away}, FALSE), Says(ann, {held}, FALSE), Says(ann, {away, held}, FALSE),
     Says(ann, {held}, TRUE), Says(zed, {away}, FALSE)}

----------------------------------------------------------------------------

auditVars == <<pvars, avars>>

\* What a score weighs, one of which lowers it where that is allowed; and another
\* configuration of each family.
ScoreFactors == {"utilization", "support"}
Weights(n) == [f \in ScoreFactors |-> IF f = "support" THEN n ELSE 100 - n]
Caps(n) == [f \in ScoreFactors |-> IF f = "support" THEN n ELSE 2]
ScoreRules ==
    [version \in {"v1", "v2", "fit1", "fit2"} |->
        LET first == version \in {"v1", "fit1"}
            overload == version \in {"v1", "v2"} IN
        [overload |-> overload,
         weights |-> Weights(IF first THEN 25 ELSE 40),
         caps |-> Caps(IF first THEN 1 ELSE 3),
         protective |-> IF version = "fit1" THEN {"support"} ELSE {},
         mandatory |-> IF overload THEN {"utilization"} ELSE {}]]

serviceVars == <<ovars, kvars, lvars, chatVars>>

tableVars == <<auditVars, rvars, evars, cvars, gvars>>

svars == <<tableVars, serviceVars, part>>

Part == {"audit", "profiles", "progress", "evidence", "comments", "reports",
         "scores", "access", "limits", "chat"}

SInit ==
    /\ part \in Part
    /\ ProfilesInit /\ ProgressInit /\ EvidenceInit /\ CommentInit /\ ReportsInit
    /\ ScoringInit /\ AccessInit /\ LimiterInit /\ ClientInit
    \* the one initial state of the parts that do not step
    /\ part # "evidence" => truth[1] = CHOOSE m \in Material : TRUE
    /\ part # "comments" => comment.text = Says(ann, {away}, FALSE)
    /\ part # "scores" => rules = "v1"
    /\ selected = "p"
    /\ key.scopes = {"p1"} /\ key.administrator
    /\ \A i \in Issue : jira[i] = <<Started>>

SNext ==
    \/ /\ UNCHANGED <<serviceVars, part>>
       /\ \/ part = "audit" /\ DamageNext /\ UNCHANGED <<pvars, rvars, evars, cvars, gvars>>
          \/ part = "profiles" /\ ProfilesNext /\ UNCHANGED <<rvars, evars, cvars, gvars>>
          \/ part = "progress" /\ ProgressNext /\ UNCHANGED <<auditVars, evars, cvars, gvars>>
          \/ part = "evidence" /\ EvidenceNext /\ UNCHANGED <<auditVars, rvars, cvars, gvars>>
          \/ part = "comments" /\ CommentNext /\ UNCHANGED <<auditVars, rvars, evars, gvars>>
          \/ part = "reports" /\ ReportsNext /\ UNCHANGED <<auditVars, rvars, evars, cvars>>
    \/ /\ UNCHANGED <<tableVars, part>>
       /\ \/ part = "scores" /\ ScoringNext /\ UNCHANGED <<kvars, lvars, chatVars>>
          \/ part = "access" /\ AccessNext /\ UNCHANGED <<ovars, lvars, chatVars>>
          \/ part = "limits" /\ LimiterNext /\ UNCHANGED <<ovars, kvars, chatVars>>
          \/ part = "chat" /\ ClientNext /\ UNCHANGED <<ovars, kvars, lvars>>

SSpec == SInit /\ [][SNext]_svars

----------------------------------------------------------------------------

Symmetric ==
    Permutations(Tx) \cup Permutations(Capacity) \cup Permutations(Employee)
    \cup Permutations(Callers)

=============================================================================
