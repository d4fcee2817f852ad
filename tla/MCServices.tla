----------------------------- MODULE MCServices -----------------------------
(***************************************************************************)
(* An instance for TLC of the parts that wait for others: the conversation    *)
(* with the assistant, the language model adapter and the reads of Jira.  Each  *)
(* waits at an interface the others are behind, so a behaviour takes the steps  *)
(* of one part only.                                                           *)
(***************************************************************************)
EXTENDS ChatWorkflow, Explanation, JiraReads, TLC

VARIABLE part

----------------------------------------------------------------------------
(* The conversation: three employees, one of whom has time and no skills, and a  *)
(* project in three states.                                                     *)

Order == <<"ann", "bob", "dee">>

Task(assignee, done, blocked, due, estimated, skills) ==
    [assignee |-> assignee, done |-> done, blocked |-> blocked, due |-> due,
     estimated |-> estimated, skills |-> skills]

Staff(capacityOfAnn, workloadOfBob) ==
    [e \in Employees |->
        IF e = "ann" THEN [capacity |-> capacityOfAnn, workload |-> 1, skills |-> {}]
        ELSE IF e = "bob" THEN [capacity |-> 2, workload |-> workloadOfBob, skills |-> {"k"}]
        ELSE [capacity |-> 5, workload |-> 0, skills |-> {}]]

ProjectStates ==
    {[tasks |-> "t1" :> Task("ann", FALSE, TRUE, "overdue", TRUE, {"k"})
             @@ "t2" :> Task("bob", FALSE, FALSE, "later", FALSE, {}),
      staff |-> Staff(3, 1)],
     [tasks |-> "t1" :> Task("ann", TRUE, TRUE, "overdue", TRUE, {"k"})
             @@ "t2" :> Task(NoOne, FALSE, TRUE, "soon", TRUE, {}),
      staff |-> Staff(0, 2)],
     [tasks |-> "t2" :> Task("cat", FALSE, FALSE, "later", TRUE, {"k"}),
      staff |-> Staff(3, 1)]}

Question(phrases, keys, names) == [phrases |-> phrases, keys |-> keys, names |-> names]

AskedQuestions ==
    {Question({"blocked"}, {}, {}),
     Question({"blocked", "employee", "which"}, {}, {"bob"}),
     Question({"overdue", "which"}, {}, {}),
     Question({"deadline", "most likely", "project risk"}, {}, {}),
     Question({"those tasks"}, {}, {"ann"}),
     Question({"that task", "missing estimate"}, {}, {}),
     Question({"which employees", "candidate"}, {}, {}),
     Question({"those employees", "skill"}, {}, {}),
     Question({"that employee", "overload"}, {}, {}),
     Question({"improved"}, {}, {"ann"}),
     Question({"approve"}, {}, {}),
     Question({"what if"}, {"t1"}, {}),
     Question({"task", "due soon"}, {}, {})}

ModelPlans ==
    {[scope |-> "project", tasks |-> {}, employees |-> {}, exhaustive |-> FALSE,
      skills |-> FALSE, history |-> FALSE],
     [scope |-> "task", tasks |-> {"t2"}, employees |-> {}, exhaustive |-> FALSE,
      skills |-> FALSE, history |-> FALSE],
     [scope |-> "employee", tasks |-> {}, employees |-> {"ann"}, exhaustive |-> FALSE,
      skills |-> FALSE, history |-> TRUE]}

\* Jira mode, and the fixture and test wirings.
Wiring(project, readers, specialists, limit, deadline) ==
    [project |-> project, dossier |-> readers, history |-> readers,
     specialists |-> specialists, limit |-> limit, deadline |-> deadline]

WiringsUsed ==
    {Wiring(TRUE, TRUE, "available", 2, FALSE),
     Wiring(FALSE, FALSE, "unavailable", 2, FALSE), Wiring(FALSE, TRUE, "none", 2, TRUE),
     Wiring(FALSE, TRUE, "available", 1, FALSE)}

----------------------------------------------------------------------------
(* The model adapter.                                                        *)

Adapters == [allow_fallback : BOOLEAN, persistent_retry : BOOLEAN]

\* A result and a task query's come without universal evidence, a history with the one or
\* the other, and only collected evidence has a focus.
ServedRequests ==
    {req \in Requests :
        /\ req.universal # "none" => req.risk = "none" /\ ~req.listed
        /\ req.universal # "collected" => req.focus = "nothing" /\ ~req.exhaustive
        /\ req.listed => req.risk = "none"
        /\ req.bare_history => req.universal = "plain" \/ req.risk # "none"}

\* A clean reply, and one for each defect; the employee without a level is an employee.
ModelReplies ==
    {{}} \cup {{d} : d \in Defect \ {"omits_unclassified"}}
         \cup {{"omits_employee", "omits_unclassified"}}

----------------------------------------------------------------------------
(* Jira: an issue that moves through statuses its project named, and another.  *)

Issue(status, due, estimate, blocker, link) ==
    [status |-> status, due |-> due, estimate |-> estimate, blocker |-> blocker,
     link |-> link, mine |-> TRUE]

Status(name, category) == [name |-> name, category |-> category]

IssueContents ==
    [i \in {"i1", "i2"} |->
        IF i = "i1"
        THEN {Issue(Status("To Do", "To Do"), 0, "none", "None", "blocks"),
              Issue(Status("To Do", "To Do"), 1, "label", "", "is blocked by"),
              Issue(Status("Cancelled", "Done"), 0, "native", "Team", "none"),
              Issue(Status("Resolved", "In Progress"), 1, "none", "", "blocks")}
        ELSE {Issue(Status("To Do", "To Do"), NoDue, "native", "", "is blocked by "),
              [Issue(Status("To Do", "To Do"), 2, "native", "", "blocks")
                  EXCEPT !.mine = FALSE]}]

----------------------------------------------------------------------------

serviceVars == <<wvars, xvars, jvars, part>>

Part == {"conversation", "adapter", "reads"}

ServicesInit ==
    /\ part \in Part
    /\ WorkflowInit /\ ExplanationInit /\ JiraReadsInit
    \* the one initial state of the parts that do not step
    /\ part # "conversation" =>
          /\ snapshot = CHOOSE s \in ProjectStates : TRUE
          /\ wiring = CHOOSE w \in WiringsUsed : TRUE
    /\ part # "adapter" => configuration = CHOOSE c \in Adapters : TRUE
    /\ part # "reads" => jira = [i \in {} |-> {}]

ServicesNext ==
    /\ UNCHANGED part
    /\ \/ part = "conversation" /\ WorkflowNext /\ UNCHANGED <<xvars, jvars>>
       \/ part = "adapter" /\ ExplanationNext /\ UNCHANGED <<wvars, jvars>>
       \/ part = "reads" /\ JiraReadsNext /\ UNCHANGED <<wvars, xvars>>

\* A question reaches its explanation or its end, and its end if a deadline is configured;
\* and the call of the model adapter that explains it is answered, falls back or raises, if
\* the persistent one is answered at last: whatever times out, is refused or fails.
RequestsEnd == QuestionsGetAStatus /\ ExplainEnds

ServicesSpec ==
    /\ ServicesInit /\ [][ServicesNext]_serviceVars
    /\ WorkflowFairness /\ ExplanationFairness
    /\ CallFairness /\ WF_jvars(part = "reads" /\ Read)

=============================================================================
