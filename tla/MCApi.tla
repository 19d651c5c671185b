------------------------------- MODULE MCApi -------------------------------
(* Admission and Reports side by side.  They share no variable, and every  *)
(* property is about one of them, so that it is enough to let each move    *)
(* while the other is at rest.                                             *)
EXTENDS Admission, Reports

Init == AdmissionInit /\ ReadsInit

Next ==
    \/ ReadsInit /\ AdmissionNext /\ UNCHANGED readsVars
    \/ AdmissionInit /\ ReadsNext /\ UNCHANGED admissionVars

Spec == Init /\ [][Next]_<<admissionVars, readsVars>>

(* User 1 is an administrator, user 2 a member of team 1 only.  Team 1 has *)
(* four creators, and tasks 2 and 6 an assignee from outside their team.   *)
Row(id, team, status, assignee, creator) ==
    [id |-> id, team |-> team, status |-> status, assignee |-> assignee,
     creator |-> creator, month |-> TRUE, week |-> status = "done"]

MCTables ==
    [teams |-> {1, 2, 3},
     tasks |-> {Row(1, 1, "todo", 0, 1), Row(2, 1, "todo", 3, 2), Row(3, 1, "done", 2, 3),
                Row(4, 1, "todo", 0, 4), Row(5, 2, "todo", 0, 1), Row(6, 3, "done", 2, 1)},
     members |-> {<<1, 1>>, <<1, 2>>, <<2, 1>>},
     comments |-> {[id |-> i, task |-> 1] : i \in {1, 2, 4, 5}} \cup {[id |-> 6, task |-> 5]}]

MCReads ==
    {[NoRead EXCEPT !.what = "tasks", !.team = g, !.status = f[1], !.assignee = f[2]] :
        g \in {1, 2}, f \in {<<"any", 0>>, <<"todo", 0>>, <<"any", 2>>}}
    \cup {[NoRead EXCEPT !.what = "comments", !.task = t] : t \in {1, 5, 9}}
    \cup {[NoRead EXCEPT !.what = what] : what \in {"stats", "creators", "orphans"}}

(* A task is created, done, assigned, or ages; a user joins a team; a team *)
(* is founded; a comment is deleted, or appears, also one whose id is not  *)
(* the highest: ids are handed out before the transactions commit.         *)
MCChanges(d) ==
    {[d EXCEPT !.tasks = @ \cup {Row(Cardinality(@) + 1, g, "todo", 0, 2)}] : g \in d.teams}
    \cup UNION {{[d EXCEPT !.tasks = (@ \ {t}) \cup {x}] :
                   x \in {[t EXCEPT !.status = "done", !.week = TRUE],
                          [t EXCEPT !.assignee = 2], [t EXCEPT !.month = FALSE]}} : t \in d.tasks}
    \cup {[d EXCEPT !.members = @ \cup {<<g, 2>>}] : g \in d.teams}
    \cup {[d EXCEPT !.teams = @ \cup {4}]}
    \cup {[d EXCEPT !.comments = @ \ {c}] : c \in d.comments}
    \cup {[d EXCEPT !.comments = @ \cup {[id |-> i, task |-> 1]}] : i \in {3, 7}}
=============================================================================
