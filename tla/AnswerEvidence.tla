--------------------------- MODULE AnswerEvidence ---------------------------
(***************************************************************************)
(* The evidence an answer of the chat rests on: agent_api/evidence            *)
(* (normalizer.py, references.py, focus.py, derivation.py, models.py).        *)
(*                                                                         *)
(* A question is the set of phrases it contains, of those the code looks for, *)
(* with the issue keys and employees it names.  A snapshot of the project maps *)
(* keys to tasks and employees to their staff record.                         *)
(***************************************************************************)
EXTENDS Integers, Sequences, FiniteSetsExt

CONSTANTS Employees,
          EmployeeOrder, \* their order in the snapshot and in sorted output
          TopTasks       \* how many tasks "most likely" and the like select

ASSUME EvidenceAssumption ==
    /\ IsFiniteSet(Employees)
    /\ \A e \in Employees : \E i \in DOMAIN EmployeeOrder : EmployeeOrder[i] = e
    /\ EmployeeOrder \in Seq(Employees)

\* A task of a snapshot is [assignee, done, blocked, due, estimated, skills]; its
\* assignee may be NoOne, or somebody without a profile.
NoOne == "no one"

NoContext == [issues |-> {}, employees |-> {}, given |-> FALSE]

HasPhrase(question, phrases) == question.phrases \cap phrases # {}

----------------------------------------------------------------------------
(* normalizer.py and references.py: the plan the question calls for.          *)

PriorTasks == {"that task", "those tasks"}

task_language(question) ==
    HasPhrase(question, {"task", "blocked", "missing estimate", "overdue", "due soon",
                         "deadline"} \cup PriorTasks)

employee_language(question) ==
    HasPhrase(question, {"employee", "which employees", "those employees", "that employee",
                         "skill"})

\* The previous answer's entities a pronoun stands for, and whether to ask back.
resolve_conversation_references(question, previous) ==
    CASE ~previous.given -> [issues |-> {}, employees |-> {}, clarify |-> FALSE]
      [] HasPhrase(question, {"those employees"}) ->
            [issues |-> {}, employees |-> previous.employees, clarify |-> FALSE]
      [] HasPhrase(question, {"that employee"}) /\ ~HasPhrase(question, {"those employees"}) ->
            [issues |-> {}, employees |-> previous.employees,
             clarify |-> Cardinality(previous.employees) # 1]
      [] HasPhrase(question, {"those tasks"})
         /\ ~HasPhrase(question, {"those employees", "that employee"}) ->
            [issues |-> previous.issues,
             employees |-> IF previous.issues = {} THEN previous.employees ELSE {},
             clarify |-> FALSE]
      [] HasPhrase(question, {"that task"})
         /\ ~HasPhrase(question, {"those tasks", "those employees", "that employee"}) ->
            [issues |-> previous.issues, employees |-> {},
             clarify |-> Cardinality(previous.issues) # 1]
      [] OTHER -> [issues |-> {}, employees |-> {}, clarify |-> FALSE]

RefersToPrior(question, previous) ==
    previous.given /\ previous.issues # {} /\ HasPhrase(question, PriorTasks)

\* Scope from what the question talks about, or what the model planned.
ScopeOf(question, planned, previous, tasks) ==
    IF tasks # {} \/ RefersToPrior(question, previous) THEN "task"
    ELSE IF task_language(question)
         THEN IF employee_language(question) THEN "mixed" ELSE "task"
         ELSE IF employee_language(question) THEN "employee" ELSE planned.scope

normalize_evidence_plan(question, planned, previous) ==
    LET exhaustive == planned.exhaustive \/ HasPhrase(question, {"which", "which employees"})
        projectWide == /\ exhaustive /\ employee_language(question)
                       /\ ~task_language(question)
                       /\ HasPhrase(question, {"which employees"})
        tasks == (IF projectWide THEN {} ELSE planned.tasks) \cup question.keys
                 \cup (IF RefersToPrior(question, previous) THEN previous.issues ELSE {})
    IN [scope |-> ScopeOf(question, planned, previous, tasks),
        tasks |-> tasks,
        employees |-> IF projectWide THEN {} ELSE planned.employees,
        exhaustive |-> exhaustive,
        skills |-> planned.skills \/ HasPhrase(question, {"skill"}),
        history |-> planned.history \/ HasPhrase(question, {"improved"})]

----------------------------------------------------------------------------
(* focus.py: the tasks and employees of the answer.                           *)

\* Which of two tasks comes first: overdue, blocked, then the nearer date.
DeadlineWeight(task) ==
    (IF task.due = "overdue" THEN 0 ELSE 1) * 6 + (IF task.blocked THEN 0 ELSE 1) * 3
        + (IF task.due = "later" THEN 1 ELSE 0)

OpenDated(tasks) == {k \in DOMAIN tasks : ~tasks[k].done /\ tasks[k].due # "none"}

\* The first TopTasks of them; equal weights are settled by key.
Riskiest(tasks) ==
    LET dated == OpenDated(tasks)
        later(k, top) == \A j \in top : DeadlineWeight(tasks[j]) <= DeadlineWeight(tasks[k])
    IN CHOOSE top \in SUBSET dated :
          /\ Cardinality(top) = Min({Cardinality(dated), TopTasks})
          /\ \A k \in dated \ top : later(k, top)

\* The tasks selected and, among them, those the answer must name.
Both(keys) == [selected |-> keys, required |-> keys]

TasksAsked(question, tasks, plan, explicit) ==
    LET dated == OpenDated(tasks)
        asked(due) == [selected |-> dated,
                       required |-> {k \in dated : tasks[k].due = due}]
    IN IF explicit # {} THEN Both(explicit \cap DOMAIN tasks)
       ELSE IF HasPhrase(question, {"blocked"})
       THEN Both({k \in DOMAIN tasks : tasks[k].blocked})
       ELSE IF HasPhrase(question, {"missing estimate"})
       THEN Both({k \in DOMAIN tasks : ~tasks[k].done /\ ~tasks[k].estimated})
       ELSE IF HasPhrase(question, {"deadline", "overdue", "due soon"})
       THEN IF HasPhrase(question, {"most likely"}) THEN Both(Riskiest(tasks))
            ELSE IF HasPhrase(question, {"overdue"}) THEN asked("overdue")
            ELSE IF HasPhrase(question, {"due soon"}) THEN asked("soon")
            ELSE Both(dated)
       ELSE IF plan.scope = "task" THEN Both(DOMAIN tasks) ELSE Both({})

select_employees(named, explicit, includeAll) ==
    LET matched == explicit \cap Employees
    IN IF explicit # {}
       THEN IF matched # {} \/ ~includeAll THEN matched ELSE Employees
       ELSE IF includeAll /\ named = {} THEN Employees ELSE named

AssignedTo(tasks, people) == {k \in DOMAIN tasks : tasks[k].assignee \in people}

\* Entities whose evidence is incomplete.
focused_missing_data(snapshot, tasks, people, skills) ==
    {k \in tasks : ~snapshot.tasks[k].estimated}
        \cup {e \in people : \/ snapshot.staff[e].capacity <= 0
                             \/ skills /\ snapshot.staff[e].skills = {}}

build_answer_evidence(question, snapshot, plan, previous) ==
    LET tasks == snapshot.tasks
        explicit == IF plan.tasks = {} /\ previous.given /\ HasPhrase(question, PriorTasks)
                    THEN previous.issues ELSE plan.tasks
        asked == TasksAsked(question, tasks, plan, explicit)
        hinted == IF plan.exhaustive /\ HasPhrase(question, {"which employees"})
                  THEN {} ELSE plan.employees
        people == select_employees(question.names, hinted,
                                   plan.scope \in {"employee", "mixed"})
        theirs == AssignedTo(tasks, people)
        chosen == IF people # {} /\ asked.selected = {} THEN Both(theirs)
                  ELSE IF people # {} /\ plan.scope = "task" /\ explicit = {}
                  THEN [selected |-> asked.selected \cap theirs,
                        required |-> asked.required \cap theirs]
                  ELSE asked
        shown == IF chosen.selected # {} /\ people = {}
                 THEN Employees \cap {tasks[k].assignee : k \in chosen.selected}
                 ELSE people
    IN [tasks |-> chosen.selected, required |-> chosen.required, employees |-> shown,
        exhaustive |-> plan.exhaustive,
        missing |-> focused_missing_data(snapshot, chosen.selected, shown, plan.skills)]

answer_context_from_evidence_AllTasks(evidence) ==
    [issues |-> evidence.tasks, employees |-> evidence.employees, given |-> TRUE]

\* What the next question may refer to: the tasks the answer had to name or, when
\* it had to name none, those it was shown.
answer_context_from_evidence(evidence) ==
    [issues |-> IF evidence.required # {} THEN evidence.required ELSE evidence.tasks,
     employees |-> evidence.employees, given |-> TRUE]

----------------------------------------------------------------------------
(* derivation.py and calculate_capacity: who could take an employee's work.    *)

\* Capacity 0 stands for one that is missing or not positive.
HasCapacity(member) == member.capacity > 0

Headroom(member) == member.capacity - member.workload

RequiredSkills(snapshot, source) ==
    UNION {snapshot.tasks[k].skills : k \in AssignedTo(snapshot.tasks, {source})}

Eligible(snapshot, source, e) ==
    LET member == snapshot.staff[e] IN
    /\ HasCapacity(member) /\ Headroom(member) > 0
    /\ RequiredSkills(snapshot, source) \subseteq member.skills

\* The place in the order settles the rest.
SortKey(snapshot, source, e) ==
    LET member == snapshot.staff[e]
    IN <<IF Eligible(snapshot, source, e) THEN 0 ELSE 1,
         -Cardinality(RequiredSkills(snapshot, source) \cap member.skills),
         IF HasCapacity(member) THEN -Headroom(member) ELSE 10000,
         CHOOSE i \in DOMAIN EmployeeOrder : EmployeeOrder[i] = e>>

LexLess(a, b) ==
    \E i \in DOMAIN a : a[i] < b[i] /\ \A j \in 1 .. i - 1 : a[j] = b[j]

ComesBefore(snapshot, source, a, b) ==
    LexLess(SortKey(snapshot, source, a), SortKey(snapshot, source, b))

\* A candidate without capacity data, or without documented skills where some are
\* required.
CandidateDataMissing(snapshot, source, e) ==
    \/ ~HasCapacity(snapshot.staff[e])
    \/ RequiredSkills(snapshot, source) # {} /\ snapshot.staff[e].skills = {}

rank_reassignment_candidates(snapshot, source) ==
    LET others == Employees \ {source}
        ranked == CHOOSE order \in [1 .. Cardinality(others) -> others] :
                     \A i, j \in DOMAIN order :
                        i < j => ComesBefore(snapshot, source, order[i], order[j])
    IN IF \E e \in others : Eligible(snapshot, source, e)
       THEN [status |-> "success", candidates |-> ranked]
       ELSE IF \E e \in others : CandidateDataMissing(snapshot, source, e)
       THEN [status |-> "insufficient_data", candidates |-> <<>>]
       ELSE [status |-> "no_candidates", candidates |-> ranked]
=============================================================================
