---------------------------- MODULE AuditedTask ----------------------------
(***************************************************************************)
(* What updating a task promises, without transactions, snapshots or row   *)
(* locks: each update takes effect at one moment, on the row as it is      *)
(* then, with its audit rows, its completion time and the check of its     *)
(* assignee all of that same moment.                                       *)
(***************************************************************************)
EXTENDS Sequences, Integers

CONSTANTS Requests, Users, Inputs, Fields

VARIABLES
    row,       \* the task: its audited values and its completion time
    log,       \* field -> the changes of its value
    team,      \* the members of the team
    applied    \* the requests that took effect

atomicVars == <<row, log, team, applied>>

MayBeAssigned(in) == in.assignee_id = "" \/ in.assignee_id \in team

IsCompleted(r) == r.completed # 0 <=> r.values.status = "done"

AtomicInit ==
    /\ row.values \in Inputs /\ MayBeAssigned(row.values) /\ IsCompleted(row)
    /\ log = [f \in Fields |-> <<>>]
    /\ applied = {}

(* The rows that record the move of field f from one value to another.     *)
Moved(from, to, f, q) ==
    IF from[f] = to[f] THEN <<>> ELSE <<[old |-> from[f], new |-> to[f], by |-> q]>>

(* Request q sets the values to in, once.  A task that was done already    *)
(* keeps the time at which it was completed.                               *)
Apply(q, in) ==
    /\ row'.values = in
    /\ q \notin applied
    /\ MayBeAssigned(in)
    /\ IsCompleted(row')
    /\ row.values.status = "done" /\ in.status = "done" => row'.completed = row.completed
    /\ log' = [f \in Fields |-> log[f] \o Moved(row.values, in, f, q)]
    /\ applied' = applied \cup {q}
    /\ UNCHANGED team

Join(u) ==
    /\ team' = team \cup {u}
    /\ UNCHANGED <<row, log, applied>>

AtomicNext ==
    \/ \E q \in Requests, in \in Inputs : Apply(q, in)
    \/ \E u \in Users : Join(u)

AtomicSpec == AtomicInit /\ [][AtomicNext]_atomicVars
=============================================================================
