----------------------------- MODULE TaskAudit -----------------------------
(***************************************************************************)
(* Concurrent updates of one task: service/tasks.go over infrastructure/   *)
(* persistence/task.go on InnoDB.  Update runs in a REPEATABLE READ        *)
(* transaction: its first read (ByID) fixes the snapshot that plain        *)
(* SELECTs see, the FOR UPDATE read waits for the row lock and sees what   *)
(* is committed, the UPDATE and the history rows become visible with the   *)
(* commit, and the last SELECT is a plain one again.                       *)
(*                                                                         *)
(* Tasks are independent, so one task of one team stands for all.  A PUT   *)
(* replaces all four audited fields; their values are the strings that     *)
(* addChange compares ("" for no assignee).  Refused requests (no role, an *)
(* assignee outside the team) change nothing and are left out.             *)
(***************************************************************************)
EXTENDS Integers, Sequences

CONSTANTS
    Updates,     \* the update requests
    NoUpdate,    \* the holder of a row lock nobody has
    People,      \* the users, as formatID writes them
    Admins,      \* those with the global role admin
    Inputs       \* what requests ask for, a value per field

Fields == {"title", "description", "status", "assignee_id"}

ASSUME NoUpdateAssumption == NoUpdate \notin Updates
ASSUME InputsAssumption == \A in \in Inputs : DOMAIN in = Fields

VARIABLES
    task,      \* the committed row of the task
    first,     \* history: the values the task was created with
    hist,      \* the committed history rows of each field, in id order
    team,      \* the members of the team
    rowLock,   \* the request whose transaction holds the row lock
    clock,     \* time.Now
    put        \* the progress of each request

auditVars == <<task, first, hist, team, rowLock, clock, put>>

(* completed is completed_at, with 0 for NULL.                             *)
Task == [values: Inputs, completed: Nat]

(* A row of task_history; the request stands for its change_group_id.      *)
TaskChange == [old: {in[f] : in \in Inputs, f \in Fields},
               new: {in[f] : in \in Inputs, f \in Fields},
               by: Updates]

(* snap is the row of the transaction's snapshot, old what FOR UPDATE      *)
(* read, new what the UPDATE wrote, shown the response.                    *)
UpdateRequest == [pc: {"new", "loaded", "locked", "stored", "done", "failed"},
                  input: Inputs, snap: Task, old: Task, new: Task, shown: Task]

(* The type of the row, its history and the requests.                      *)
AuditTypeOK ==
    /\ task \in Task
    /\ first \in Inputs
    /\ hist \in [Fields -> Seq(TaskChange)]
    /\ team \in SUBSET People
    /\ rowLock \in Updates \cup {NoUpdate}
    /\ clock \in Nat
    /\ put \in [Updates -> UpdateRequest]

-----------------------------------------------------------------------------
(* RequireTeamRole(member), and requireAssigneeIsMember.                   *)
HasTeamRole(u) == u \in Admins \/ u \in team

(* Mutant: any user may be assigned.                                       *)
AnyAssignee(in) == TRUE

requireAssigneeIsMember(in) == in.assignee_id = "" \/ in.assignee_id \in team

(* Mutant: a task created as done carries no completion time.              *)
CreatedNotCompleted(in) == [values |-> in, completed |-> 0]

(* The row that Create inserts, at time 1.                                 *)
Created(in) == [values |-> in, completed |-> IF in.status = "done" THEN 1 ELSE 0]

(* The state after some Create request committed.                          *)
AuditInit ==
    /\ team \in SUBSET People \ {{}}
    /\ \E u \in People, in \in Inputs :
          /\ HasTeamRole(u) /\ requireAssigneeIsMember(in)
          /\ task = Created(in)
          /\ first = in
    /\ hist = [f \in Fields |-> <<>>]
    /\ rowLock = NoUpdate
    /\ clock = 1
    /\ put = [q \in Updates |-> [pc |-> "new", input |-> first, snap |-> task, old |-> task,
                                  new |-> task, shown |-> task]]

-----------------------------------------------------------------------------
(* Update.  The transaction's first read takes the snapshot, in which the  *)
(* role and the assignee are checked too.                                  *)
Load(q) ==
    /\ put[q].pc = "new"
    /\ \E u \in People, in \in Inputs :
          /\ HasTeamRole(u) /\ requireAssigneeIsMember(in)
          /\ put' = [put EXCEPT ![q] = [put[q] EXCEPT !.pc = "loaded", !.input = in, !.snap = task]]
    /\ UNCHANGED <<task, first, hist, team, rowLock, clock>>

(* Mutant: a plain SELECT, that reads the snapshot.                        *)
LockTaskInSnapshot(q) ==
    /\ put[q].pc = "loaded"
    /\ rowLock = NoUpdate
    /\ rowLock' = q
    /\ put' = [put EXCEPT ![q] = [put[q] EXCEPT !.pc = "locked", !.old = put[q].snap]]
    /\ UNCHANGED <<task, first, hist, team, clock>>

(* SELECT ... FOR UPDATE.                                                  *)
LockTask(q) ==
    /\ put[q].pc = "loaded"
    /\ rowLock = NoUpdate
    /\ rowLock' = q
    /\ put' = [put EXCEPT ![q] = [put[q] EXCEPT !.pc = "locked", !.old = task]]
    /\ UNCHANGED <<task, first, hist, team, clock>>

(* Mutant: every done task is completed now.                               *)
CompletedAgain(old, in) == IF in.status = "done" THEN clock + 1 ELSE 0

CompletedAt(old, in) ==
    IF in.status # "done" THEN 0
    ELSE IF old.values.status = "done" THEN old.completed ELSE clock + 1

(* The UPDATE, invisible to others until the commit.                       *)
Store(q) ==
    /\ put[q].pc = "locked"
    /\ put' = [put EXCEPT ![q] =
                  [put[q] EXCEPT !.pc = "stored",
                                 !.new = [values |-> put[q].input,
                                          completed |-> CompletedAt(put[q].old, put[q].input)]]]
    /\ clock' = clock + 1
    /\ UNCHANGED <<task, first, hist, team, rowLock>>

(* The history rows of one field: none unless the value moved.             *)
addChange(old, new, f, q) ==
    IF old[f] = new[f] THEN <<>> ELSE <<[old |-> old[f], new |-> new[f], by |-> q]>>

(* Mutant: the read back sees the snapshot only.                           *)
SnapshotReadBack(s) == s.snap

(* The last SELECT: the transaction's own version of the row if it wrote   *)
(* one, else the snapshot's.  InnoDB writes no version for an UPDATE that  *)
(* changes no column.                                                      *)
ReadBack(s) == IF s.new # s.old THEN s.new ELSE s.snap

(* Mutant: the history has one row per field, which is written over.       *)
CommitOverwrites(q) ==
    LET s == put[q]
    IN  /\ s.pc = "stored"
        /\ task' = s.new
        /\ hist' = [f \in Fields |-> IF s.old.values[f] = s.new.values[f] THEN hist[f]
                                     ELSE addChange(first, s.new.values, f, q)]
        /\ rowLock' = NoUpdate
        /\ put' = [put EXCEPT ![q] = [s EXCEPT !.pc = "done", !.shown = ReadBack(s)]]
        /\ UNCHANGED <<first, team, clock>>

(* The row and its history become visible.  If the acknowledgement of the  *)
(* COMMIT is lost they are stored all the same, and the answer, an error,  *)
(* shows no values.                                                        *)
CommitUpdate(q) ==
    LET s == put[q]
    IN  /\ s.pc = "stored"
        /\ task' = s.new
        /\ hist' = [f \in Fields |-> hist[f] \o addChange(s.old.values, s.new.values, f, q)]
        /\ rowLock' = NoUpdate
        /\ put' = [put EXCEPT ![q] = [s EXCEPT !.pc = "done", !.shown = ReadBack(s)]]
        /\ UNCHANGED <<first, team, clock>>

(* A statement fails, the lock wait times out, the client goes away or the *)
(* process dies: the transaction is rolled back.                           *)
Rollback(q) ==
    /\ put[q].pc \in {"loaded", "locked", "stored"}
    /\ put' = [put EXCEPT ![q] = [put[q] EXCEPT !.pc = "failed"]]
    /\ rowLock' = IF rowLock = q THEN NoUpdate ELSE rowLock
    /\ UNCHANGED <<task, first, hist, team, clock>>

(* An invitation commits.  Nothing removes a member.                       *)
AddMember(u) ==
    /\ u \notin team
    /\ team' = team \cup {u}
    /\ UNCHANGED <<task, first, hist, rowLock, clock, put>>

-----------------------------------------------------------------------------
UpdateTask(q) == Load(q) \/ LockTask(q) \/ Store(q) \/ CommitUpdate(q) \/ Rollback(q)

AuditNext ==
    \/ \E q \in Updates : UpdateTask(q)
    \/ \E u \in People : AddMember(u)

AuditSpec == AuditInit /\ [][AuditNext]_auditVars

-----------------------------------------------------------------------------
(* History cannot drift from the task: the rows of each field lead without *)
(* a gap from the value the task was created with to the value it has, and *)
(* each of them records a move (README: "same-transaction writes make      *)
(* history drift impossible"), in whatever order requests load, wait for   *)
(* the lock, commit and fail.                                              *)
ChainOf(h, from, to) ==
    /\ h = <<>> => from = to
    /\ h # <<>> => h[1].old = from /\ h[Len(h)].new = to
    /\ \A i \in 1 .. Len(h) : h[i].old # h[i].new
    /\ \A i \in 1 .. Len(h) - 1 : h[i].new = h[i + 1].old

HistoryChain == \A f \in Fields : ChainOf(hist[f], first[f], task.values[f])

(* The done-in-the-last-week report can count on completed_at: it is set   *)
(* exactly while the task is done, on creation, completion and reopening.  *)
CompletedIffDone == task.completed # 0 <=> task.values.status = "done"

(* Editing a done task, also concurrently with the request that completed  *)
(* it, does not move its completion time.                                  *)
CompletedAtKept ==
    [][task.values.status = "done" /\ task'.values.status = "done" =>
          task'.completed = task.completed]_auditVars

(* The integrity report is empty: the assignee is a member of the team,    *)
(* although it is checked in a snapshot older than the write.              *)
AssigneeIsMember == task.values.assignee_id = "" \/ task.values.assignee_id \in team

(* A request that left history rows answers with the values it stored (or  *)
(* with an error, if the acknowledgement of its commit was lost).          *)
ChangesAreShown ==
    \A q \in Updates, f \in Fields : \A i \in 1 .. Len(hist[f]) :
        hist[f][i].by = q => put[q].shown.values = put[q].input

(* What the tests say of the answer to a successful update: it has the     *)
(* values that were asked for (TestUpdateWritesHistoryAndCompletedAt, and  *)
(* "a reopened task is not done" in TestUpdateClearsCompletedAtOnReopen).  *)
AnswerShowsTheUpdate == \A q \in Updates : put[q].pc = "done" => put[q].shown.values = put[q].input

(* The transactions implement atomic updates.  A request whose transaction *)
(* commits takes effect at its commit, as if it had read the row, checked  *)
(* its assignee and written everything there; one that is rolled back has  *)
(* no effect at all (Tasks.Update under TxManager.Do).                     *)
Atomic == INSTANCE AuditedTask WITH
    Requests <- Updates, Users <- People, row <- task, log <- hist,
    applied <- {q \in Updates : put[q].pc = "done"}

ImplementsAuditedTask == Atomic!AtomicSpec

-----------------------------------------------------------------------------
(* The inductive invariant.                                                *)

(* From the FOR UPDATE read to the end of its transaction a request alone  *)
(* may change the row, so what it read stays the committed row.            *)
Holds(q) == put[q].pc \in {"locked", "stored"}

LockInv ==
    \A q \in Updates :
        /\ Holds(q) <=> rowLock = q
        /\ Holds(q) => put[q].old = task
        /\ put[q].pc = "stored" =>
              /\ put[q].new.values = put[q].input
              /\ put[q].new.completed # 0 <=> put[q].input.status = "done"
              /\ task.values.status = "done" /\ put[q].input.status = "done" =>
                    put[q].new.completed = task.completed

(* The inputs under way were checked against a smaller team.               *)
AssigneeInv ==
    /\ AssigneeIsMember
    /\ \A q \in Updates : put[q].pc \in {"loaded", "locked", "stored"} => requireAssigneeIsMember(put[q].input)

(* Only a request that is done has history rows.                           *)
AuthorInv ==
    /\ ChangesAreShown
    /\ \A q \in Updates, f \in Fields : \A i \in 1 .. Len(hist[f]) :
          hist[f][i].by = q => put[q].pc = "done"

(* The audit trail, the completion time, the assignee and the answers are  *)
(* right because the lock holder's reads stay current.                     *)
AuditInv == AuditTypeOK /\ LockInv /\ HistoryChain /\ CompletedIffDone /\ AssigneeInv /\ AuthorInv
=============================================================================
