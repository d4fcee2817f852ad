---------------------------- MODULE Explanation -----------------------------
(***************************************************************************)
(* The language model adapter of the chat: agent_api/llm/bedrock.py,         *)
(* fallback.py, factory.py and the validators of agent_api/grounding.py.      *)
(*                                                                         *)
(* An answer is what is wrong with it, measured against the evidence of the  *)
(* request: each validator rejects some defects, and what the model sends     *)
(* back is any set of them.  One provider serves one call after another.     *)
(***************************************************************************)
EXTENDS Naturals, FiniteSets

CONSTANTS MaxInvocations,      \* max_attempts
          FailureThreshold, \* circuit_failure_threshold
          Configuration,    \* records of allow_fallback and persistent_retry
          Served,              \* the requests, see Requests
          Replies,          \* what the model may send back: sets of defects
          MaxCalls          \* bound: calls served

ASSUME ExplanationAssumption ==
    MaxInvocations \in Nat \ {0} /\ FailureThreshold \in Nat \ {0}

\* What may be wrong with an answer.  The focus is what the answer evidence of the
\* request is about.
Defect == {"unknown_issue",        \* names an issue or employee no evidence has
           "omits_task",           \* leaves out a task of the focus the answer must name
           "omits_employee",       \* leaves out an employee of the focus
           "omits_unclassified",   \* and that one has no risk level
           "omits_listed",         \* leaves out a task of the task query's result
           "omits_earlier",        \* leaves out a task of the answer before
           "false_dependency",     \* says that a task is blocked by another it is not
           "false_level",          \* of an employee of the focus
           "false_capacity",       \* of one employee of the project
           "false_field",          \* another summary, assignee or status
           "denial",               \* claims there is too little information
           "comparison",           \* an unsupported comparison
           "wrong_result"}         \* score, level, citation, candidate or detail

\* What an exhaustive question requires, by what the answer evidence is about.
Omission == [tasks |-> "omits_task", employees |-> "omits_employee",
             unclassified |-> "omits_unclassified"]

\* risk: "none", "scored" or "unscored"; bare_history: explain_history without an
\* earlier dossier; universal: the universal evidence, "none", "plain" (what is missing,
\* no project) or "collected"; focus: the tasks, the employees or the employees without a
\* level, or "nothing" when the answer evidence has neither; exhaustive: it says that
\* the question asks for all of them; listed: the task query lists what it found for one
\* of the intents that have to be answered in full; follow_up: the question refers to the
\* tasks of the answer before.
Requests == [risk : {"none", "scored", "unscored"}, bare_history : BOOLEAN,
             universal : {"none", "plain", "collected"},
             focus : {"nothing"} \cup DOMAIN Omission,
             exhaustive : BOOLEAN, listed : BOOLEAN, follow_up : BOOLEAN]

VARIABLES configuration,
          failing,   \* _failures
          opened,    \* _opened_at: "closed", "open", or "elapsed" after the reset time
          call,      \* the call in progress
          calls

xvars == <<configuration, failing, opened, call, calls>>

NoCall == [phase |-> "idle"]

ExplanationInit ==
    /\ configuration \in Configuration
    /\ failing = 0
    /\ opened = "closed"
    /\ call = NoCall
    /\ calls = 0

----------------------------------------------------------------------------
(* The validators: the defects each rejects for a request.                   *)

HasFocus(req) == req.universal = "collected" /\ req.focus # "nothing"

validate_jira_claims(req) == {"unknown_issue", "false_field"}

validate_focused_claims(req) == {"unknown_issue", "false_dependency", "false_level"}

\* A question about employees has to name them, and never the tasks too; one about those
\* who cannot be classified, only these.
validate_focused_completeness(req) ==
    IF req.exhaustive /\ HasFocus(req) THEN {Omission[req.focus]} ELSE {}

validate_insufficiency_claim(req) == IF HasFocus(req) THEN {"denial"} ELSE {}

\* Nothing is checked where there is no project snapshot.
validate_universal_claims(req) ==
    IF req.universal = "collected" THEN {"false_level", "false_capacity", "false_dependency"}
    ELSE {}

\* Collected evidence always has answer evidence; plain evidence has no snapshot.
validate_universal_completeness(req) ==
    IF req.universal = "collected" THEN validate_focused_completeness(req) ELSE {}

\* _validate_exhaustive_task_answer and _validate_resolved_context_answer.
validate_exhaustive_answer(req) ==
    (IF req.listed THEN {"omits_listed"} ELSE {})
        \cup (IF req.follow_up THEN {"omits_earlier"} ELSE {})

validate_supported_workforce_claims(req) == {"comparison"}

FocusedValidators(req) ==
    validate_focused_claims(req) \cup validate_focused_completeness(req)
        \cup validate_insufficiency_claim(req)

\* What explain checks after the result: validate_universal_* unless there is no
\* universal evidence, and the focused ones if it has answer evidence.
GroundingValidators(req) ==
    validate_supported_workforce_claims(req) \cup validate_exhaustive_answer(req)
        \cup validate_jira_claims(req)
        \cup (IF req.universal = "collected" THEN FocusedValidators(req) ELSE {})
        \cup validate_universal_claims(req) \cup validate_universal_completeness(req)

SemanticValidators(req) == {"wrong_result"}

RepairValidators(req) ==
    IF HasFocus(req) THEN FocusedValidators(req) \cup validate_universal_claims(req) ELSE {}

----------------------------------------------------------------------------
(* explain.                                                                  *)

Respond(source, defects, uncertain) ==
    [phase |-> "done", req |-> call.req, source |-> source, defects |-> defects,
     uncertain |-> uncertain, replies |-> call.replies + 1]

\* DeterministicFallbackProvider: the risk result, in words.
Fallback(req) ==
    [phase |-> "done", req |-> req, source |-> "deterministic_fallback",
     defects |-> {}, uncertain |-> FALSE, replies |-> 0]

Raised(req, replies) == [phase |-> "raised", req |-> req, replies |-> replies]

\* Answers that need no model when the fallback is allowed.
FallbackFirst(req) ==
    /\ configuration.allow_fallback
    /\ req.risk # "none"
    /\ req.risk = "unscored" \/ (req.bare_history /\ req.universal = "none")

CircuitIsOpen == opened = "open"

StartExplain(req) ==
    /\ call.phase \in {"idle", "done", "raised"}
    /\ calls < MaxCalls
    /\ calls' = calls + 1
    /\ \/ /\ FallbackFirst(req)
          /\ call' = Fallback(req)
          /\ UNCHANGED <<failing, opened>>
       \/ /\ ~FallbackFirst(req) /\ CircuitIsOpen
          /\ call' = IF configuration.allow_fallback /\ req.risk # "none"
                     THEN Fallback(req) ELSE Raised(req, 0)
          /\ UNCHANGED <<failing, opened>>
       \/ /\ ~FallbackFirst(req) /\ ~CircuitIsOpen
          /\ call' = [phase |-> "ask", req |-> req, attempt |-> 0, semantic |-> FALSE,
                      replies |-> 0]
          /\ opened' = "closed"
          /\ failing' = IF opened = "elapsed" THEN 0 ELSE failing
    /\ UNCHANGED configuration

NextAttempt(n) == n + 1

\* The next attempt, or what follows the last one; replies counts the texts of the model.
AfterAttempt(semantic, replies) ==
    LET n == NextAttempt(call.attempt)
    IN IF n < MaxInvocations
       THEN [call EXCEPT !.attempt = n, !.semantic = semantic, !.replies = replies]
       ELSE IF semantic \/ configuration.persistent_retry
       THEN [phase |-> "repair", req |-> call.req, attempt |-> 0, replies |-> replies]
       ELSE IF configuration.allow_fallback /\ call.req.risk # "none"
       THEN Fallback(call.req)
       ELSE Raised(call.req, replies)

\* The count stops at the threshold.
record_failure ==
    /\ failing' = IF failing < FailureThreshold THEN failing + 1 ELSE failing
    /\ opened' = IF failing + 1 >= FailureThreshold THEN "open" ELSE opened

\* A reply that no validator of the call rejects ends it; it resets the failures
\* and leaves the circuit as it is.
Accept(defects, uncertain) ==
    /\ call' = Respond("bedrock", defects, uncertain)
    /\ failing' = 0
    /\ UNCHANGED opened

Reply(defects) ==
    /\ call.phase = "ask"
    /\ IF defects \cap (SemanticValidators(call.req) \cup GroundingValidators(call.req)) = {}
       THEN Accept(defects, FALSE)
       ELSE call' = AfterAttempt(TRUE, call.replies + 1) /\ UNCHANGED <<failing, opened>>
    /\ UNCHANGED <<configuration, calls>>

\* Empty text or JSON that does not parse: a semantic failure too.
Malformed ==
    /\ call.phase = "ask"
    /\ call' = AfterAttempt(TRUE, call.replies + 1)
    /\ UNCHANGED <<configuration, failing, opened, calls>>

TimesOut ==
    /\ call.phase = "ask"
    /\ call' = AfterAttempt(call.semantic, call.replies)
    /\ record_failure
    /\ UNCHANGED <<configuration, calls>>

----------------------------------------------------------------------------
(* _conservative_bedrock_answer.                                             *)

Uncertain_Never(exhausted) == FALSE

\* The uncertainties it states: none only after a focused repair that validated.
Uncertain(exhausted) == exhausted \/ ~HasFocus(call.req)

RepairReply(defects) ==
    /\ call.phase = "repair"
    /\ LET rejected == defects \cap RepairValidators(call.req) # {}
           n == NextAttempt(call.attempt)
       IN IF ~rejected THEN Accept(defects, Uncertain(FALSE))
          ELSE IF n >= MaxInvocations THEN Accept(defects, Uncertain(TRUE))
          ELSE /\ call' = [call EXCEPT !.attempt = n, !.replies = @ + 1]
               /\ UNCHANGED <<failing, opened>>
    /\ UNCHANGED <<configuration, calls>>

\* No answer, or an empty one.  A persistent provider, the deployed one, asks again and
\* again; its count of attempts stops at the maximum.
RepairFails ==
    /\ call.phase = "repair"
    /\ LET n == NextAttempt(call.attempt) IN
       call' = IF configuration.persistent_retry
               THEN [call EXCEPT !.attempt = IF n > MaxInvocations THEN MaxInvocations ELSE n]
               ELSE IF n < MaxInvocations
               THEN [call EXCEPT !.attempt = n]
               ELSE Raised(call.req, call.replies)
    /\ record_failure
    /\ UNCHANGED <<configuration, calls>>

ResetElapses ==
    /\ opened = "open"
    /\ opened' = "elapsed"
    /\ UNCHANGED <<configuration, failing, call, calls>>

ExplanationNext ==
    \/ \E req \in Served : StartExplain(req)
    \/ \E defects \in Replies : Reply(defects) \/ RepairReply(defects)
    \/ Malformed \/ TimesOut \/ RepairFails \/ ResetElapses

AskSettles == Malformed \/ TimesOut \/ \E defects \in Replies : Reply(defects)

RepairSettles == RepairFails \/ \E defects \in Replies : RepairReply(defects)

\* An invocation is answered or times out (wait_for).  A persistent provider asks for a
\* repair for ever, so of it we assume that Bedrock answers at last.
ExplanationFairness ==
    /\ WF_xvars(AskSettles) /\ WF_xvars(RepairSettles)
    /\ WF_xvars(configuration.persistent_retry /\ \E defects \in Replies : RepairReply(defects))

ExplanationSpec == ExplanationInit /\ [][ExplanationNext]_xvars /\ ExplanationFairness

----------------------------------------------------------------------------
(* Properties.                                                              *)

Answered == call.phase = "done" /\ call.source = "bedrock"

\* Prose that states no uncertainty names nothing unknown.  Where the question has
\* evidence of its own it leaves out nothing that an exhaustive question requires, misstates
\* no dependency, level or capacity and does not deny what it was given; where it has none
\* it passed every check of explain, those of a task query and of a follow-up too.  So it
\* is whatever mixture of rejected, malformed and timed out replies came before it.  (A
\* repaired answer with evidence of its own may still have a wrong assignee or status and
\* leave out a task of the answer before: those checks are not run on it.)
SilentAnswersAreGrounded ==
    Answered /\ ~call.uncertain =>
        /\ "unknown_issue" \notin call.defects
        /\ HasFocus(call.req) =>
              /\ call.req.exhaustive => Omission[call.req.focus] \notin call.defects
              /\ call.defects \cap {"false_dependency", "false_level", "false_capacity",
                                    "denial"} = {}
        /\ ~HasFocus(call.req) =>
              /\ call.defects \cap {"false_field", "comparison", "wrong_result"} = {}
              /\ call.req.listed => "omits_listed" \notin call.defects
              /\ call.req.follow_up => "omits_earlier" \notin call.defects

\* A call never takes more than two rounds of texts from the model, those of a persistent
\* provider included: its repair goes on for as long as the model is silent, but not for
\* as long as what the model says is rejected.
RepliesAreBounded == call.phase # "idle" => call.replies <= 2 * MaxInvocations

\* Every call ends: it is answered, falls back or raises.  A call of a persistent provider
\* ends provided Bedrock answers at last.
ExplainEnds == call.phase \in {"ask", "repair"} ~> call.phase \in {"done", "raised"}

\* What explain returns as the model's is grounded or says it may not be, and takes a
\* bounded number of the model's texts.
AnswersAreSound == SilentAnswersAreGrounded /\ RepliesAreBounded

=============================================================================
