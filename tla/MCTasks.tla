------------------------------ MODULE MCTasks ------------------------------
(* One task on small instances: its comments (Comments) and its updates    *)
(* (TaskAudit).  The two share no variable, and each property is about one *)
(* of them, so it is enough to let each move while the other is as it was  *)
(* in the beginning.                                                       *)
EXTENDS Comments, TaskAudit, TLC

Put(title, status, assignee) ==
    [title |-> title, description |-> "text", status |-> status, assignee_id |-> assignee]

(* Two titles, open and done, unassigned and assigned.                     *)
MCInputs == {Put("a", "todo", ""), Put("b", "todo", ""), Put("a", "done", ""), Put("b", "done", "7")}

Symmetry == Permutations(Requests)

NoCalls == calls = 0 /\ nextId = 1 /\ admins = {} /\ members = {CHOOSE u \in Users : TRUE}

NoUpdates == /\ \A q \in Updates : put[q].pc = "new"
             /\ first = Put("a", "todo", "") /\ team = People

TasksNext ==
    \/ NoUpdates /\ Next /\ UNCHANGED auditVars
    \/ NoCalls /\ AuditNext /\ UNCHANGED vars

TasksInit == Init /\ AuditInit

TasksSpec == TasksInit /\ [][TasksNext]_<<vars, auditVars>>
=============================================================================
