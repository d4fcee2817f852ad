---------------------------- MODULE ChatWorkflow ----------------------------
(***************************************************************************)
(* One conversation with the assistant: routes/investigations.py and the graph *)
(* it runs (graph/workflow.py, supervisor.py, intents.py, handoffs.py,         *)
(* agents/*.py, evidence/planner.py, evidence/collectors.py).                 *)
(*                                                                         *)
(* Each question goes through the nodes of the graph; between two nodes, and   *)
(* while a node waits for Jira, Bedrock or the database, the project changes    *)
(* and the deadline may pass.  An answer hands the caller a context, which the  *)
(* next question brings along.  What Bedrock does with the evidence is          *)
(* Explanation's subject: here it answers or fails.                            *)
(***************************************************************************)
EXTENDS AnswerEvidence

CONSTANTS Snapshots,       \* states of the project: [tasks, staff]
          Questions,       \* the questions asked
          Plans,           \* the plans the model may return
          Wirings,         \* how the route or a test wires the workflow
          MaxPlanAttempts  \* attempts at a plan

\* project: the project evidence tool is there (Jira evidence mode), and then Jira
\* answers task queries too; dossier and history: the optional evidence readers;
\* specialists: none supports the intent, it is unavailable, or available; limit:
\* max_tool_calls; deadline: one is configured for the workflow (by default, none is).
ASSUME WorkflowAssumption ==
    /\ Wirings \subseteq [project : BOOLEAN, dossier : BOOLEAN, history : BOOLEAN,
                          specialists : {"none", "unavailable", "available"},
                          limit : Nat \ {0}, deadline : BOOLEAN]
    /\ MaxPlanAttempts \in Nat \ {0}
    /\ \A s \in Snapshots : \A e \in Employees :
          /\ s.staff[e].capacity \in Int /\ s.staff[e].workload \in Int
          /\ IsFiniteSet(s.staff[e].skills)

VARIABLES snapshot,  \* the project as Jira and the profiles have it
          context,   \* the answer context the caller holds
          named,     \* the tasks the answer behind that context had to name
          request,   \* the request in progress, or the last one
          wiring

wvars == <<snapshot, context, named, request, wiring>>

NoRequest == [node |-> "idle"]

WorkflowInit ==
    /\ snapshot \in Snapshots
    /\ context = NoContext
    /\ named = {}
    /\ request = NoRequest
    /\ wiring \in Wirings

At(node) == request.node = node

\* The request ends with an HTTP status.
End(status) == request' = [node |-> "end", status |-> status]

Continue(node, update) == request' = [update EXCEPT !.node = node]

UnchangedElse == UNCHANGED <<snapshot, context, named, wiring>>

----------------------------------------------------------------------------
(* supervisor.py and intents.py.                                              *)

\* The phrases that contain "employee", and those that contain a work term.
EmployeePhrases == {"employee", "which employees", "those employees", "that employee"}

WorkTerms == EmployeePhrases \cup PriorTasks
                 \cup {"task", "blocked", "overdue", "missing estimate", "improved", "overload"}

\* The intent of a question asked about an employee, or about the project.
classify_intent(question, scope) ==
    LET has(phrases) == HasPhrase(question, phrases)
    IN IF has({"approve"}) THEN "unsupported"
       ELSE IF has({"on a date"}) THEN "explain_history"
       ELSE IF has({"blocked", "overdue", "due soon", "missing estimate", "that task"})
               \/ (question.keys # {} /\ has({"who"})) THEN "jira_task_query"
       ELSE IF has({"improved"}) THEN "explain_history"
       ELSE IF has({"deadline"}) /\ (question.keys # {} \/ has({"which", "task"}))
       THEN "jira_task_query"
       ELSE IF has({"what if"}) THEN "what_if_simulation"
       ELSE IF has({"candidate"}) THEN "reassignment_candidates"
       ELSE IF has({"skill"}) /\ task_language(question) THEN "evaluate_task_fit"
       ELSE IF has({"service failed"}) THEN "operations_diagnosis"
       ELSE IF has({"project risk"}) \/ (has({"which employees"}) /\ has({"overload"}))
       THEN "explain_project_risk"
       ELSE IF has(EmployeePhrases) /\ has({"overload"}) THEN "explain_employee_overload"
       ELSE IF scope = "employee" /\ has(WorkTerms) THEN "explain_employee_overload"
       ELSE "explain_project_risk"

\* investigate: the question, with the context of the answer before it.
Ask(question, employee) ==
    /\ request.node \in {"idle", "end"}
    /\ request' = [node |-> "receive", question |-> question, employee |-> employee,
                   previous |-> context, intent |-> "none", attempt |-> 0,
                   plan |-> NoRequest, ambiguous |-> {}, evidence |-> NoRequest,
                   seen |-> NoRequest, ranking |-> NoRequest, gathered |-> {}, calls |-> 0]
    /\ UnchangedElse

\* receive_verified_context and classify_supported_intent; authentication has checked
\* the project.
Classify ==
    /\ At("receive")
    /\ LET intent == classify_intent(request.question,
                                     IF request.employee = NoOne THEN "project" ELSE "employee")
       IN Continue(IF wiring.project THEN "plan_evidence"
                   ELSE IF intent = "unsupported" THEN "capability" ELSE "gather",
                   [request EXCEPT !.intent = intent])
    /\ UnchangedElse

\* The guidance has no explanation, and the route asserts one.
Capability ==
    /\ At("capability")
    /\ End(500)
    /\ UnchangedElse

----------------------------------------------------------------------------
(* planner.py, _plan_evidence.                                               *)

conservative_read_plan ==
    [scope |-> "mixed", tasks |-> {}, employees |-> {}, exhaustive |-> TRUE,
     skills |-> TRUE, history |-> TRUE]

\* A plan from the model, or the conservative one for a reply that is not a plan.
PlanReply(reply) ==
    /\ At("plan_evidence")
    /\ LET resolved == resolve_conversation_references(request.question, request.previous)
           planned == IF reply.tasks = {} /\ reply.employees = {}
                      THEN [reply EXCEPT !.tasks = resolved.issues,
                                         !.employees = resolved.employees]
                      ELSE reply
           plan == normalize_evidence_plan(request.question, planned, request.previous)
       IN Continue("collect_evidence",
                   [request EXCEPT !.plan = plan,
                        !.ambiguous = IF resolved.clarify
                                      THEN resolved.issues \cup resolved.employees
                                      ELSE {}])
    /\ UnchangedElse

NextPlanAttempt_WrapsAround(n) == (n + 1) % MaxPlanAttempts

NextPlanAttempt(n) == n + 1

PlanTimesOut ==
    /\ At("plan_evidence")
    /\ IF NextPlanAttempt(request.attempt) < MaxPlanAttempts
       THEN Continue("plan_evidence", [request EXCEPT !.attempt = NextPlanAttempt(@)])
       ELSE End(503)
    /\ UnchangedElse

----------------------------------------------------------------------------
(* collectors.py, _collect_evidence.                                          *)

\* Whose work could move: the employee selected, or the one the question names.
RankingSource ==
    IF request.employee # NoOne THEN {request.employee}
    ELSE IF request.question.names # {}
    THEN {EmployeeOrder[CHOOSE i \in DOMAIN EmployeeOrder :
                          /\ EmployeeOrder[i] \in request.question.names
                          /\ \A j \in 1 .. i - 1 :
                                EmployeeOrder[j] \notin request.question.names]}
    ELSE {}

\* The project as it is now, and what is missing from it; history that cannot be
\* read is missing data.
CollectEvidence(historyRead) ==
    /\ At("collect_evidence")
    /\ historyRead => request.plan.history /\ wiring.history
    /\ LET evidence == build_answer_evidence(request.question, snapshot, request.plan,
                                             request.previous)
       IN Continue("explain",
            [request EXCEPT
               !.evidence = evidence,
               !.seen = snapshot,
               !.ranking = {rank_reassignment_candidates(snapshot, e) : e \in RankingSource},
               !.gathered = {"project"} \cup
                    (IF ~request.plan.history THEN {}
                     ELSE IF historyRead THEN {"history"} ELSE {"missing"}),
               !.calls = @ + 1])
    /\ UnchangedElse

----------------------------------------------------------------------------
(* _gather and handoffs.py: no project tool, so no task query either.          *)

WritePreparation == {"reassignment_candidates", "what_if_simulation"}

Missing(attempted) ==
    Continue("explain", [request EXCEPT !.gathered = {"missing"}, !.calls = @ + attempted])

\* An unavailable specialist is replaced by the core tool, unless the work prepares a
\* write.  Where no specialist supports the intent the core tool is asked at once.
SpecialistRefuses ==
    wiring.specialists = "unavailable" /\ request.intent \in WritePreparation

\* What the core tool scores; of anything else it has no evidence.
CoreToolScores == request.intent = "explain_employee_overload" /\ request.employee # NoOne

\* The dossier is read after the score.
NeedsDossier ==
    /\ wiring.dossier /\ request.intent = "explain_employee_overload"
    /\ request.employee # NoOne

DossierAllowed_Unchecked == TRUE

DossierAllowed == request.calls + 1 < wiring.limit

GatherWithoutTool ==
    /\ At("gather")
    /\ \/ /\ request.intent = "explain_project_risk" /\ Missing(0)
       \/ /\ request.intent = "jira_task_query" /\ Missing(1)
       \/ /\ request.intent = "explain_history"
          /\ ~wiring.history \/ request.employee = NoOne
          /\ Missing(0)
    /\ UnchangedElse

GatherHistory ==
    /\ At("gather") /\ request.intent = "explain_history"
    /\ wiring.history /\ request.employee # NoOne
    /\ Continue("explain", [request EXCEPT !.gathered = {"risk", "dossier"}, !.calls = @ + 1])
    /\ UnchangedElse

Investigate ==
    /\ At("gather")
    /\ request.intent \notin {"explain_project_risk", "jira_task_query", "explain_history"}
    /\ IF SpecialistRefuses THEN End(500)
       ELSE IF ~CoreToolScores THEN Missing(1)
       ELSE IF ~NeedsDossier
       THEN Continue("explain", [request EXCEPT !.gathered = {"risk"}, !.calls = @ + 1])
       ELSE IF DossierAllowed
       THEN Continue("explain", [request EXCEPT !.gathered = {"risk", "dossier"},
                                                !.calls = @ + 2])
       ELSE End(500)
    /\ UnchangedElse

\* Jira, the scoring tool or the database fails: OSError and TimeoutError give 503,
\* evidence that does not fit is a ValueError.
ReadFails(status) ==
    /\ \/ At("collect_evidence")
       \/ At("gather") /\ (CoreToolScores \/ (request.intent = "explain_history"
                                              /\ wiring.history /\ request.employee # NoOne))
    /\ End(status)
    /\ UnchangedElse

----------------------------------------------------------------------------
(* _explain and the response.                                                *)

Explain ==
    /\ At("explain")
    /\ End(200)
    /\ IF request.evidence = NoRequest THEN UNCHANGED <<context, named>>
       ELSE /\ context' = answer_context_from_evidence(request.evidence)
            /\ named' = request.evidence.required
    /\ UNCHANGED <<snapshot, wiring>>

ExplainFails ==
    /\ At("explain")
    /\ End(503)
    /\ UnchangedElse

\* The deadline of the workflow, when one is configured.
DeadlinePasses ==
    /\ wiring.deadline
    /\ request.node \notin {"idle", "end"}
    /\ End(503)
    /\ UnchangedElse

\* Somebody works in Jira, or a capacity is changed.
ProjectChanges ==
    /\ snapshot' \in Snapshots \ {snapshot}
    /\ UNCHANGED <<context, named, request, wiring>>

\* A new conversation.
ForgetContext ==
    /\ request.node \in {"idle", "end"}
    /\ context' = NoContext /\ named' = {} /\ request' = NoRequest
    /\ UNCHANGED <<snapshot, wiring>>

\* The steps whose wait is bounded: wait_for around the model's plan, timeouts and attempts
\* in the clients of Jira and of the scoring service; the database answers or fails.
BoundedStep ==
    \/ Classify \/ Capability
    \/ \E reply \in Plans \cup {conservative_read_plan} : PlanReply(reply)
    \/ PlanTimesOut
    \/ \E historyRead \in BOOLEAN : CollectEvidence(historyRead)
    \/ GatherWithoutTool \/ GatherHistory \/ Investigate
    \/ \E status \in {500, 503} : ReadFails(status)

Step == BoundedStep \/ Explain \/ ExplainFails \/ DeadlinePasses

WorkflowNext ==
    \/ \E question \in Questions, employee \in Employees \cup {NoOne} : Ask(question, employee)
    \/ Step \/ ProjectChanges \/ ForgetContext

\* The explanation may wait for Bedrock without end: of its end nothing is assumed, only
\* that a configured deadline passes.
WorkflowFairness == WF_wvars(BoundedStep) /\ WF_wvars(DeadlinePasses)

WorkflowSpec == WorkflowInit /\ [][WorkflowNext]_wvars /\ WorkflowFairness

----------------------------------------------------------------------------
(* Properties.                                                              *)

Collected == At("explain") /\ request.evidence # NoRequest

AsksForPrior == HasPhrase(request.question, PriorTasks) /\ request.previous.given

\* A follow-up about "those tasks" has to name, of the tasks the last answer had to
\* name, all that are still in the project and, besides them, only tasks the question
\* or the model's plan adds: whatever plan the model returns, whatever happened to the
\* project in between and whomever the question is about.
FollowUpKeepsItsTasks ==
    Collected /\ AsksForPrior /\ named \cap DOMAIN request.seen.tasks # {} =>
        /\ named \cap DOMAIN request.seen.tasks \subseteq request.evidence.required
        /\ request.plan.tasks \subseteq request.previous.issues \cup request.question.keys =>
              request.evidence.required \subseteq named \cup request.question.keys

Asked(task, question) ==
    \/ HasPhrase(question, {"blocked"}) /\ task.blocked
    \/ HasPhrase(question, {"overdue"}) /\ task.due = "overdue" /\ ~task.done

\* A question that asks for one kind of tasks, the blocked or the overdue.  (Of two kinds
\* the answer is about the first: focus.py takes blocked before missing estimates, and
\* these before dates.)
AsksOneKind(question) ==
    /\ HasPhrase(question, {"blocked", "overdue"})
    /\ ~HasPhrase(question, {"missing estimate", "most likely"})
    /\ ~(HasPhrase(question, {"blocked"}) /\ HasPhrase(question, {"overdue"}))

\* A question for the blocked or the overdue tasks that names no issue must be answered
\* with every such task of the employees the answer is about, and with no other, when
\* there is one: the employees the model's plan adds never bring in other tasks of
\* theirs.  (When there is none, a question that is about employees too must be
\* answered with all the tasks they have.)
RequiredTasksWereAsked ==
    Collected /\ request.plan.tasks = {} /\ ~AsksForPrior /\ AsksOneKind(request.question)
        /\ (\E k \in DOMAIN request.seen.tasks : Asked(request.seen.tasks[k], request.question))
    => \A k \in DOMAIN request.seen.tasks :
          LET task == request.seen.tasks[k] IN
          /\ k \in request.evidence.required => Asked(task, request.question)
          /\ Asked(task, request.question) /\ task.assignee \in request.evidence.employees
                => k \in request.evidence.required

\* The ranking proposes an employee who can take the work first, and only if there is
\* none does it say so: one with more headroom but without the skills, or one whose
\* capacity nobody configured, never hides another.
EligibleCandidateComesFirst ==
    Collected => \A ranking \in request.ranking, source \in RankingSource :
        (\E e \in Employees \ {source} : Eligible(request.seen, source, e))
        => ranking.candidates # <<>> /\ Eligible(request.seen, source, ranking.candidates[1])

\* No answer is built with more tool calls than the workflow allows, though one branch
\* makes two.
ToolCallsWithinLimit == At("explain") => request.calls <= wiring.limit

\* Work that prepares a write is never explained when its specialist is unavailable, and
\* never from what the core tool makes of it: without a specialist for it the answer is
\* that its evidence is missing.
WritePreparationNeedsSpecialist ==
    At("explain") /\ ~wiring.project /\ request.intent \in WritePreparation =>
        wiring.specialists # "unavailable" /\ request.gathered = {"missing"}

\* Every question comes to its explanation or ends before it, however often the model's
\* plan, Jira and the database fail.  It gets a status if a deadline is configured, even if
\* Bedrock never explains anything; without one, the default, whether the explanation ends
\* is Explanation's ExplainEnds.
QuestionsGetAStatus ==
    At("receive") ~> (At("end") \/ (At("explain") /\ ~wiring.deadline))

\* What collect_evidence hands to the explanation is what the question is about: the
\* tasks of the answer it follows, the tasks it asks for, the candidate who can take
\* the work.
AnswersAddressTheQuestion ==
    FollowUpKeepsItsTasks /\ RequiredTasksWereAsked /\ EligibleCandidateComesFirst

\* The limits that supervisor, core tool branch and dossier branch share: the count of
\* tool calls, and no write prepared without its specialist.
LimitsAreKept == ToolCallsWithinLimit /\ WritePreparationNeedsSpecialist

=============================================================================
