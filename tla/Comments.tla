------------------------------ MODULE Comments ------------------------------
(***************************************************************************)
(* Task comments: the handlers of transport/http/comments, the service     *)
(* service/comments.go and the table of persistence/comment.go, under      *)
(* concurrent requests.  A request that changes a comment is one InnoDB    *)
(* transaction at REPEATABLE READ: its first SELECT fixes the snapshot its *)
(* later SELECTs read, its UPDATE or DELETE works on the latest committed  *)
(* row and holds the row's lock to the end.  The paged list of the         *)
(* comments is one of the reads of Reports.                                *)
(***************************************************************************)
EXTENDS Integers

CONSTANTS
    Requests,   \* concurrent requests
    NoRequest,  \* the holder of a row nobody has locked
    Users,      \* everyone with an account
    Bodies,     \* bodies after TrimSpace; "" is one Validate refuses
    MaxId,      \* bound: AUTO_INCREMENT ids that are handed out
    MaxCalls    \* bound: calls made in one behaviour

ASSUME NoRequestAssumption == NoRequest \notin Requests
ASSUME BodiesAssumption == "" \in Bodies
ASSUME BoundsAssumption == MaxId \in Nat \ {0} /\ MaxCalls \in Nat

Ids == 1 .. MaxId
Kinds == {"create", "update", "delete"}

VARIABLES
    comments,  \* task_comments: the committed rows of one task
    nextId,    \* AUTO_INCREMENT
    lock,      \* row locks
    members,   \* users in the task's team, in any role
    admins,    \* users with the global role admin
    req,       \* the requests
    calls      \* how many calls were made

vars == <<comments, nextId, lock, members, admins, req, calls>>

Row == [state: {"none", "live", "gone"}, author: Users, body: Bodies]

Request == [pc: {"idle", "check", "write", "commit"},
            kind: Kinds, user: Users, id: 0 .. MaxId, body: Bodies,
            snap: Row, shown: Bodies, status: {0, 200, 201, 204, 400, 403, 404, 500}]

(* The type of the table and of the requests.                              *)
TypeOK ==
    /\ comments \in [Ids -> Row]
    /\ nextId \in 1 .. MaxId + 1
    /\ lock \in [Ids -> Requests \cup {NoRequest}]
    /\ members \subseteq Users /\ admins \subseteq Users
    /\ req \in [Requests -> Request]
    /\ calls \in 0 .. MaxCalls

NoUser == CHOOSE u \in Users : TRUE
NoRow == [state |-> "none", author |-> NoUser, body |-> ""]
(* A connection between two calls: all it has is the last answer.          *)
Answered(status) == [pc |-> "idle", kind |-> "create", user |-> NoUser, id |-> 0, body |-> "",
                     snap |-> NoRow, shown |-> "", status |-> status]

(* The task has its creator in the team, who may have commented already.   *)
Init ==
    /\ admins = {}
    /\ \E u \in Users, body \in Bodies \ {""}, n \in 0 .. MaxId :
          /\ members = {u}
          /\ comments = [id \in Ids |-> IF id > n THEN NoRow
                                      ELSE [state |-> "live", author |-> u, body |-> body]]
          /\ nextId = n + 1
    /\ lock = [id \in Ids |-> NoRequest]
    /\ req = [r \in Requests |-> Answered(0)]
    /\ calls = 0

(* An id outside the table finds nothing.                                  *)
RowAt(id) == IF id \in Ids THEN comments[id] ELSE NoRow

-----------------------------------------------------------------------------
(* The handlers.  An empty body is refused before the service is called;   *)
(* id 0 stands for the id of a comment, or of a task, that never existed.  *)
(* createCommentRequest.Validate and updateCommentRequest.Validate.        *)
Refused(body) == body = ""

Asked(kind, user, id, body) ==
    [Answered(0) EXCEPT !.pc = "check", !.kind = kind, !.user = user, !.id = id, !.body = body]

Begin(r, kind, user, id, body) ==
    /\ req[r].pc = "idle" /\ calls < MaxCalls
    /\ calls' = calls + 1
    /\ req' = [req EXCEPT ![r] = IF kind # "delete" /\ Refused(body) THEN Answered(400)
                                 ELSE Asked(kind, user, id, body)]
    /\ UNCHANGED <<comments, nextId, lock, members, admins>>

createHandler(r) ==
    \E user \in Users, task \in {0, 1}, body \in Bodies : Begin(r, "create", user, task, body)

updateHandler(r) ==
    \E user \in Users, id \in 0 .. MaxId, body \in Bodies : Begin(r, "update", user, id, body)

deleteHandler(r) ==
    \E user \in Users, id \in 0 .. MaxId : Begin(r, "delete", user, id, "")

(* Authorizer.RequireTeamRole with the role member: an outsider is told    *)
(* that there is nothing.                                                  *)
RequireTeamRole(u) == IF u \in admins \cup members THEN 0 ELSE 404

RequireAdmin(u) == IF u \in admins THEN 0 ELSE 403

(* Mutant: any member of the team may modify a comment.                    *)
AnyMemberModifies(u, row) ==
    IF row.state # "live" THEN 404 ELSE RequireTeamRole(u)

(* requireCanModify, on the snapshot: 0 when the request may go on.        *)
requireCanModify(u, row) ==
    IF row.state # "live" THEN 404
    ELSE IF RequireTeamRole(u) # 0 THEN RequireTeamRole(u)
    ELSE IF row.author = u THEN 0 ELSE RequireAdmin(u)

(* Create looks the task up (id 0 is a task that does not exist) and asks  *)
(* for the team role.                                                      *)
requireCanCreate(u, id) == IF id = 0 THEN 404 ELSE RequireTeamRole(u)

(* The SELECTs at the head of the transaction: all of them read the        *)
(* snapshot of the first.                                                  *)
Check(r) ==
    /\ req[r].pc = "check"
    /\ LET q == req[r]
           verdict == IF q.kind = "create" THEN requireCanCreate(q.user, q.id)
                      ELSE requireCanModify(q.user, RowAt(q.id))
       IN  req' = [req EXCEPT ![r] = IF verdict # 0 THEN Answered(verdict)
                                     ELSE [q EXCEPT !.snap = RowAt(q.id), !.pc = "write"]]
    /\ UNCHANGED <<comments, nextId, lock, members, admins, calls>>

(* CommentRepo.Create inside the transaction.                              *)
Insert(r) ==
    /\ req[r].pc = "write" /\ req[r].kind = "create" /\ nextId <= MaxId
    /\ nextId' = nextId + 1
    /\ lock' = [lock EXCEPT ![nextId] = r]
    /\ req' = [req EXCEPT ![r].id = nextId, ![r].shown = req[r].body, ![r].pc = "commit"]
    /\ UNCHANGED <<comments, members, admins, calls>>

(* CommentRepo.Update: the UPDATE works on the committed row, and on none  *)
(* if it is gone; the SELECT after it sees the row this transaction wrote, *)
(* and the snapshot if the UPDATE changed nothing.                         *)
Update(r) ==
    LET q == req[r]
        now == comments[q.id]
        changes == now.state = "live" /\ now.body # q.body
    IN  /\ q.pc = "write" /\ q.kind = "update" /\ lock[q.id] = NoRequest
        /\ lock' = IF now.state = "live" THEN [lock EXCEPT ![q.id] = r] ELSE lock
        /\ req' = [req EXCEPT ![r].shown = IF changes THEN q.body ELSE q.snap.body,
                              ![r].pc = "commit"]
        /\ UNCHANGED <<comments, nextId, members, admins, calls>>

(* CommentRepo.Delete.                                                     *)
Delete(r) ==
    LET q == req[r]
    IN  /\ q.pc = "write" /\ q.kind = "delete" /\ lock[q.id] = NoRequest
        /\ lock' = IF comments[q.id].state = "live" THEN [lock EXCEPT ![q.id] = r] ELSE lock
        /\ req' = [req EXCEPT ![r].pc = "commit"]
        /\ UNCHANGED <<comments, nextId, members, admins, calls>>

Unlocked(r) == [id \in Ids |-> IF lock[id] = r THEN NoRequest ELSE lock[id]]

(* Mutant: an update whose row has changed since its check is dropped.     *)
StaleWrite(q, row) ==
    CASE q.kind = "create" -> [state |-> "live", author |-> q.user, body |-> q.body]
      [] q.kind = "update" /\ row = q.snap -> [row EXCEPT !.body = q.body]
      [] q.kind = "delete" -> [row EXCEPT !.state = "gone"]
      [] OTHER -> row

(* The row r leaves behind when its transaction commits.                   *)
Written(q, row) ==
    CASE q.kind = "create" -> [state |-> "live", author |-> q.user, body |-> q.body]
      [] q.kind = "update" /\ row.state = "live" -> [row EXCEPT !.body = q.body]
      [] q.kind = "delete" /\ row.state = "live" -> [row EXCEPT !.state = "gone"]
      [] OTHER -> row

Success(kind) == CASE kind = "create" -> 201 [] kind = "update" -> 200 [] OTHER -> 204

(* The transaction commits, and the handler answers with status.           *)
Stored(r, status) ==
    LET q == req[r]
        row == Written(q, comments[q.id])
    IN  /\ q.pc = "commit"
        /\ comments' = [comments EXCEPT ![q.id] = row]
        /\ lock' = Unlocked(r)
        /\ req' = [req EXCEPT ![r] = Answered(status)]
        /\ UNCHANGED <<nextId, members, admins, calls>>

Commit(r) == Stored(r, Success(req[r].kind))

(* The COMMIT takes effect and its acknowledgement is lost: TxManager.Do   *)
(* returns an error, and the handler answers as if nothing had been stored.*)
CommitLost(r) == Stored(r, 500)

(* Mutant: a rollback that keeps its row locks.                            *)
LocksSurviveAbort(r) ==
    /\ req[r].pc \in {"check", "write", "commit"}
    /\ req' = [req EXCEPT ![r] = Answered(500)]
    /\ UNCHANGED <<comments, nextId, lock, members, admins, calls>>

(* A statement or the commit fails, or the caller has gone: the transaction*)
(* rolls back.                                                             *)
Abort(r) ==
    /\ req[r].pc \in {"check", "write", "commit"}
    /\ lock' = Unlocked(r)
    /\ req' = [req EXCEPT ![r] = Answered(500)]
    /\ UNCHANGED <<comments, nextId, members, admins, calls>>

(* A user is invited to the team, or made an admin: neither is ever undone.*)
Promote ==
    /\ \E u \in Users :
          \/ u \notin members /\ members' = members \cup {u} /\ UNCHANGED admins
          \/ u \notin admins /\ admins' = admins \cup {u} /\ UNCHANGED members
    /\ UNCHANGED <<comments, nextId, lock, req, calls>>

Next ==
    \/ \E r \in Requests : \/ createHandler(r) \/ updateHandler(r) \/ deleteHandler(r) \/ Check(r)
                           \/ Insert(r) \/ Update(r) \/ Delete(r) \/ Commit(r) \/ CommitLost(r) \/ Abort(r)
    \/ Promote

Spec == Init /\ [][Next]_vars

-----------------------------------------------------------------------------
(* A comment is changed or removed by its author or by a global admin, and *)
(* by the author only while a member of the team: the check reads a        *)
(* snapshot, the write comes later, and the two still agree.               *)
OnlyAuthorOrAdmin ==
    [][\A id \in Ids : comments[id].state = "live" /\ comments'[id] # comments[id] =>
          \E r \in Requests :
              /\ req[r].pc = "commit" /\ req'[r].pc = "idle" /\ req[r].id = id
              /\ \/ req[r].user \in admins
                 \/ req[r].user = comments[id].author /\ req[r].user \in members]_vars

(* What the request asked for, as far as its comment is still there: a     *)
(* new comment, an edit of one that has not been deleted, a deletion.      *)
Done(q, row) ==
    CASE q.kind = "create" -> row.state = "live" /\ row.author = q.user /\ row.body = q.body
      [] q.kind = "update" -> row.state = "live" => row.body = q.body
      [] OTHER -> row.state = "gone"

(* Whether the step answers r.                                             *)
Answers(r) == req[r].pc # "idle" /\ req'[r].pc = "idle"

(* What the answer to r says of the step that gives it, status by status.  *)
AnswerHolds(r) ==
    LET q == req[r]
        row == IF q.id \in Ids THEN comments'[q.id] ELSE NoRow
        status == req'[r].status
    IN  /\ status < 400 => Done(q, row)
        /\ status = 200 /\ row # comments[q.id] => q.shown = q.body
        /\ status \in 400 .. 499 => comments' = comments
        /\ status >= 500 => comments' = comments \/ Done(q, row)
        /\ \A id \in Ids : id # q.id => comments'[id] = comments[id]

(* What the API acknowledged is in the table when it answers, and stays:   *)
(* an edit shows the change it made; a deletion left nothing, and no       *)
(* update under way brings it back.  A refused request changed nothing; a  *)
(* 500 says neither, as the commit may have taken effect, but then it is   *)
(* the whole of what was asked for.  No answer comes with a change to the  *)
(* comment of another request.                                             *)
AcknowledgedWritesHold ==
    [][/\ \A id \in Ids : comments[id].state = "gone" => comments'[id] = comments[id]
       /\ \A r \in Requests : Answers(r) => AnswerHolds(r)]_vars

(* What the handler documents of an update: 200 with the comment, 404 for  *)
(* one that is not found (updateHandler's @Failure 404).  Update does not  *)
(* look at how many rows it changed.                                       *)
UpdatedCommentIsThere ==
    [][\A r \in Requests : Answers(r) /\ req[r].kind = "update" /\ req'[r].status = 200 =>
          comments'[req[r].id].state = "live"]_vars

(* A row lock belongs to a transaction that is about to commit that row,   *)
(* so no request ever waits for one that has already been answered; and    *)
(* every variable has its type.                                            *)
LocksEndWithTheirRequest ==
    /\ TypeOK
    /\ \A id \in Ids : lock[id] # NoRequest =>
          req[lock[id]].pc = "commit" /\ req[lock[id]].id = id

-----------------------------------------------------------------------------
(* The inductive invariant behind the properties above.                    *)

(* Past its check a request is entitled to the row its snapshot showed,    *)
(* which is still that comment, or gone; and it commits only a row that it *)
(* has locked, unless the row is gone.                                     *)
ReqOK(r) ==
    LET q == req[r]
        row == comments[q.id]
    IN  /\ q.pc \in {"write", "commit"} /\ q.kind # "create" =>
              /\ q.id \in Ids
              /\ row.state \in {"live", "gone"} /\ row.author = q.snap.author
              /\ q.user \in admins \/ (q.user = q.snap.author /\ q.user \in members)
        /\ q.pc = "commit" =>
              /\ q.id \in Ids
              /\ lock[q.id] = r \/ (q.kind # "create" /\ row.state = "gone")
              /\ q.kind = "create" => row.state = "none"
              /\ q.kind = "update" /\ row.state = "live" /\ row.body # q.body => q.shown = q.body

ReqInv == \A r \in Requests : ReqOK(r)

(* An id that was not handed out has no row and no lock.                   *)
TableInv == \A id \in Ids : id >= nextId => comments[id].state = "none" /\ lock[id] = NoRequest

CommentsInv == LocksEndWithTheirRequest /\ ReqInv /\ TableInv
=============================================================================
