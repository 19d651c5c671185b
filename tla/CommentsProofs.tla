--------------------------- MODULE CommentsProofs ---------------------------
(***************************************************************************)
(* Concurrent edits of comments, for any number of users, requests, bodies *)
(* and comments: the row a request commits is the one its checks were      *)
(* made on, because it holds the row's lock or the row is gone for good.   *)
(***************************************************************************)
EXTENDS Comments, TLAPS

Statuses == {0, 200, 201, 204, 400, 403, 404, 500}

(* What an answered request looks like.                                    *)
LEMMA AnsweredType ==
    ASSUME NEW u \in Users, NEW status \in Statuses
    PROVE  /\ Answered(status) \in Request /\ Answered(status).pc = "idle"
           /\ Answered(status).status = status
           /\ NoRow \in Row /\ NoRow.state = "none"
  <1>1. NoUser \in Users
    BY DEF NoUser
  <1>2. NoRow \in Row /\ NoRow.state = "none"
    BY <1>1, BodiesAssumption DEF NoRow, Row
  <1>3. 0 \in 0 .. MaxId
    BY BoundsAssumption
  <1>4. Answered(status) \in Request
    <2>1. NoRow \in Row
      BY <1>2
    <2>2. status \in {0, 200, 201, 204, 400, 403, 404, 500}
      BY DEF Statuses
    <2>3. \A body \in Bodies : [pc |-> "idle", kind |-> "create", user |-> NoUser, id |-> 0,
              body |-> body, snap |-> NoRow, shown |-> body, status |-> status] \in Request
      BY <1>1, <1>3, <2>1, <2>2 DEF Request, Kinds
    <2> QED
      BY <2>3, BodiesAssumption DEF Answered
  <1>5. Answered(status).pc = "idle" /\ Answered(status).status = status
    BY DEF Answered
  <1> QED
    BY <1>2, <1>4, <1>5

(* A request stays one when a field gets a value of its type.              *)
LEMMA RequestFields ==
    ASSUME NEW q \in Request
    PROVE  /\ \A pc \in {"idle", "check", "write", "commit"} : [q EXCEPT !.pc = pc] \in Request
           /\ \A kind \in Kinds : [q EXCEPT !.kind = kind] \in Request
           /\ \A user \in Users : [q EXCEPT !.user = user] \in Request
           /\ \A id \in 0 .. MaxId : [q EXCEPT !.id = id] \in Request
           /\ \A body \in Bodies : [q EXCEPT !.body = body] \in Request
           /\ \A row \in Row : [q EXCEPT !.snap = row] \in Request
           /\ \A body \in Bodies : [q EXCEPT !.shown = body] \in Request
  <1>1. \A pc \in {"idle", "check", "write", "commit"} : [q EXCEPT !.pc = pc] \in Request
    BY DEF Request
  <1>2. \A kind \in Kinds : [q EXCEPT !.kind = kind] \in Request
    BY DEF Request
  <1>3. \A user \in Users : [q EXCEPT !.user = user] \in Request
    BY DEF Request
  <1>4. \A id \in 0 .. MaxId : [q EXCEPT !.id = id] \in Request
    BY DEF Request
  <1>5. \A body \in Bodies : [q EXCEPT !.body = body] \in Request
    BY DEF Request
  <1>6. \A row \in Row : [q EXCEPT !.snap = row] \in Request
    BY DEF Request
  <1>7. \A body \in Bodies : [q EXCEPT !.shown = body] \in Request
    BY DEF Request
  <1> QED
    BY <1>1, <1>2, <1>3, <1>4, <1>5, <1>6, <1>7

(* The initial state satisfies the invariant.                              *)
LEMMA InitComments == Init => CommentsInv
  <1> SUFFICES ASSUME Init PROVE CommentsInv
    OBVIOUS
  <1>1. PICK u \in Users, body \in Bodies, n \in 0 .. MaxId :
            /\ members = {u}
            /\ comments = [id \in Ids |-> IF id > n THEN NoRow
                                          ELSE [state |-> "live", author |-> u, body |-> body]]
            /\ nextId = n + 1
    BY DEF Init
  <1>2. Answered(0) \in Request /\ Answered(0).pc = "idle" /\ NoRow \in Row /\ NoRow.state = "none"
    <2>1. u \in Users
      BY <1>1
    <2>2. 0 \in Statuses
      BY DEF Statuses
    <2> QED
      BY <2>1, <2>2, AnsweredType
  <1>3. \A r \in Requests : req[r].pc = "idle"
    BY <1>2 DEF Init
  <1>4. TypeOK
    <2>1. comments \in [Ids -> Row]
      BY <1>1, <1>2 DEF Row
    <2>2. nextId \in 1 .. MaxId + 1
      <3>1. n \in 0 .. MaxId /\ nextId = n + 1
        BY <1>1
      <3> QED
        BY <3>1, BoundsAssumption
    <2>4. calls \in 0 .. MaxCalls /\ admins \subseteq Users
      <3>1. calls = 0 /\ admins = {}
        BY DEF Init
      <3> QED
        BY <3>1, BoundsAssumption
    <2>3. lock \in [Ids -> Requests \cup {NoRequest}] /\ req \in [Requests -> Request]
      BY <1>2 DEF Init
    <2> QED
      BY <1>1, <2>1, <2>2, <2>3, <2>4 DEF TypeOK
  <1>5. ReqInv
    BY <1>3 DEF ReqInv, ReqOK
  <1>6. TableInv
    <2>1. \A id \in Ids : id >= n + 1 => id > n
      <3>1. n \in 0 .. MaxId
        BY <1>1
      <3> QED
        BY <3>1, BoundsAssumption DEF Ids
    <2>2. \A id \in Ids : lock[id] = NoRequest
      BY DEF Init
    <2> QED
      BY <1>1, <1>2, <2>1, <2>2 DEF TableInv
  <1> QED
    BY <1>4, <1>5, <1>6 DEF CommentsInv, LocksEndWithTheirRequest, Init

(* A request moves on without a row lock of its own, and without a row     *)
(* being written.                                                          *)
LEMMA RequestStep ==
    ASSUME CommentsInv, NEW r \in Requests, NEW t \in Request,
           req' = [req EXCEPT ![r] = t], req[r].pc # "commit",
           UNCHANGED <<comments, nextId, lock, members, admins>>, calls' \in 0 .. MaxCalls,
           t.pc # "commit",
           t.pc = "write" /\ t.kind # "create" =>
              /\ t.id \in Ids
              /\ comments[t.id].state \in {"live", "gone"} /\ comments[t.id].author = t.snap.author
              /\ t.user \in admins \/ (t.user = t.snap.author /\ t.user \in members)
    PROVE  CommentsInv'
  <1>1. \A q \in Requests : req'[q] = IF q = r THEN t ELSE req[q]
    BY DEF CommentsInv, LocksEndWithTheirRequest, TypeOK
  <1>2. TypeOK'
    BY DEF CommentsInv, LocksEndWithTheirRequest, TypeOK
  <1>3. ASSUME NEW id \in Ids, lock'[id] # NoRequest
        PROVE  req'[lock'[id]].pc = "commit" /\ req'[lock'[id]].id = id
    <2>1. lock[id] \in Requests /\ req[lock[id]].pc = "commit" /\ req[lock[id]].id = id
      BY <1>3 DEF CommentsInv, LocksEndWithTheirRequest, TypeOK
    <2> QED
      BY <1>1, <2>1
  <1>4. ReqInv'
    <2> SUFFICES ASSUME NEW q \in Requests PROVE ReqOK(q)'
      BY DEF ReqInv
    <2>1. CASE q = r
      BY <1>1, <2>1 DEF ReqOK
    <2>2. CASE q # r
      BY <1>1, <2>2 DEF CommentsInv, ReqInv, ReqOK
    <2> QED
      BY <2>1, <2>2
  <1>5. TableInv'
    BY DEF CommentsInv, TableInv
  <1> QED
    BY <1>2, <1>3, <1>4, <1>5 DEF CommentsInv, LocksEndWithTheirRequest

(* A request begins its call, or is refused at once.                       *)
LEMMA BeginComments ==
    ASSUME CommentsInv, NEW r \in Requests, createHandler(r) \/ updateHandler(r) \/ deleteHandler(r)
    PROVE  CommentsInv'
  <1>1. PICK kind \in Kinds, u \in Users, id \in 0 .. MaxId, body \in Bodies :
            Begin(r, kind, u, id, body)
    <2>1. 0 \in 0 .. MaxId /\ 1 \in 0 .. MaxId
      BY BoundsAssumption
    <2> QED
      BY <2>1, BodiesAssumption DEF createHandler, updateHandler, deleteHandler, Kinds
  <1>2. /\ Answered(400) \in Request /\ Answered(400).pc = "idle"
        /\ Answered(0) \in Request
    BY AnsweredType DEF Statuses
  <1>3. Asked(kind, u, id, body) \in Request /\ Asked(kind, u, id, body).pc = "check"
    <2> DEFINE asking == [Answered(0) EXCEPT !.pc = "check"]
               ofKind == [asking EXCEPT !.kind = kind]
               ofUser == [ofKind EXCEPT !.user = u]
               ofRow == [ofUser EXCEPT !.id = id]
    <2>1. asking \in Request
      BY <1>2, RequestFields
    <2>2. ofKind \in Request
      BY <2>1, RequestFields
    <2>3. ofUser \in Request
      BY <2>2, RequestFields
    <2>4. ofRow \in Request
      BY <2>3, RequestFields
    <2>5. [ofRow EXCEPT !.body = body] \in Request
      BY <2>4, RequestFields
    <2>6. Asked(kind, u, id, body).pc = "check"
      BY DEF Asked, Answered
    <2> QED
      BY <2>5, <2>6 DEF Asked
  <1>4. PICK t \in Request : req' = [req EXCEPT ![r] = t] /\ t.pc \in {"idle", "check"}
    BY <1>1, <1>2, <1>3 DEF Begin
  <1>5. calls' \in 0 .. MaxCalls
    BY <1>1, BoundsAssumption DEF Begin, CommentsInv, LocksEndWithTheirRequest, TypeOK
  <1>6. req[r].pc = "idle" /\ UNCHANGED <<comments, nextId, lock, members, admins>>
    BY <1>1 DEF Begin
  <1> QED
    BY <1>4, <1>5, <1>6, RequestStep

(* The checks, on the snapshot of their moment: who passes is entitled to  *)
(* the row.                                                                *)
LEMMA CheckComments == ASSUME CommentsInv, NEW r \in Requests, Check(r) PROVE CommentsInv'
  <1> DEFINE q == req[r]
             verdict == IF q.kind = "create" THEN requireCanCreate(q.user, q.id)
                        ELSE requireCanModify(q.user, RowAt(q.id))
             t == [q EXCEPT !.snap = RowAt(q.id), !.pc = "write"]
  <1>1. q \in Request /\ q.pc = "check" /\ q.user \in Users /\ comments \in [Ids -> Row]
    BY DEF Check, CommentsInv, LocksEndWithTheirRequest, TypeOK, Request
  <1>2. calls' \in 0 .. MaxCalls /\ UNCHANGED <<comments, nextId, lock, members, admins>>
    BY DEF Check, CommentsInv, LocksEndWithTheirRequest, TypeOK
  <1>3. verdict \in {0, 403, 404}
    BY DEF requireCanCreate, requireCanModify, RequireTeamRole, RequireAdmin
  <1>4. CASE verdict # 0
    <2>1. Answered(verdict) \in Request /\ Answered(verdict).pc = "idle"
      BY <1>1, <1>3, AnsweredType DEF Statuses
    <2>2. req' = [req EXCEPT ![r] = Answered(verdict)]
      BY <1>4 DEF Check
    <2> QED
      BY <1>1, <1>2, <2>1, <2>2, RequestStep
  <1>5. CASE verdict = 0
    <2>1. RowAt(q.id) \in Row /\ (RowAt(q.id).state = "live" => q.id \in Ids /\ RowAt(q.id) = comments[q.id])
      BY <1>1, AnsweredType DEF RowAt, Statuses
    <2>2. t \in Request /\ t.pc = "write" /\ t.id = q.id /\ t.snap = RowAt(q.id)
          /\ t.user = q.user /\ t.kind = q.kind
      <3>1. [[q EXCEPT !.snap = RowAt(q.id)] EXCEPT !.pc = "write"] \in Request
        BY <1>1, <2>1, RequestFields
      <3>2. /\ t.pc = "write" /\ t.id = q.id /\ t.snap = RowAt(q.id)
            /\ t.user = q.user /\ t.kind = q.kind
        BY <1>1 DEF Request
      <3> QED
        BY <3>1, <3>2
    <2>3. req' = [req EXCEPT ![r] = t]
      BY <1>5 DEF Check
    <2>4. q.kind # "create" =>
              /\ q.id \in Ids /\ comments[q.id].state = "live" /\ comments[q.id] = t.snap
              /\ q.user \in admins \/ (q.user = t.snap.author /\ q.user \in members)
      BY <1>5, <2>1, <2>2 DEF requireCanModify, RequireTeamRole, RequireAdmin
    <2> HIDE DEF t, q
    <2> QED
      BY <1>1, <1>2, <2>2, <2>3, <2>4, RequestStep DEF q
  <1> QED
    BY <1>4, <1>5

(* A request takes the lock of a row nobody has locked, or finds the row   *)
(* gone, and is ready to commit.                                           *)
LEMMA LockStep ==
    ASSUME CommentsInv, NEW r \in Requests, NEW t \in Request, req[r].pc = "write",
           req' = [req EXCEPT ![r] = t], t.pc = "commit", t.id \in Ids,
           nextId' \in 1 .. MaxId + 1, nextId' >= nextId, t.id < nextId',
           \/ lock' = [lock EXCEPT ![t.id] = r] /\ lock[t.id] = NoRequest
           \/ lock' = lock /\ t.kind # "create" /\ comments[t.id].state = "gone",
           UNCHANGED <<comments, members, admins, calls>>,
           t.kind # "create" =>
              /\ comments[t.id].state \in {"live", "gone"} /\ comments[t.id].author = t.snap.author
              /\ t.user \in admins \/ (t.user = t.snap.author /\ t.user \in members),
           t.kind = "create" => comments[t.id].state = "none",
           t.kind = "update" /\ comments[t.id].state = "live" /\ comments[t.id].body # t.body =>
              t.shown = t.body
    PROVE  CommentsInv'
  <1>1. \A q \in Requests : req'[q] = IF q = r THEN t ELSE req[q]
    BY DEF CommentsInv, LocksEndWithTheirRequest, TypeOK
  <1>2. \A id \in Ids : lock'[id] = lock[id] \/ (id = t.id /\ lock'[id] = r /\ lock[id] = NoRequest)
    BY DEF CommentsInv, LocksEndWithTheirRequest, TypeOK
  <1>3. TypeOK'
    BY DEF CommentsInv, LocksEndWithTheirRequest, TypeOK
  <1>4. ASSUME NEW id \in Ids, lock'[id] # NoRequest
        PROVE  req'[lock'[id]].pc = "commit" /\ req'[lock'[id]].id = id
    <2>1. CASE lock'[id] = lock[id]
      <3>1. lock[id] \in Requests /\ req[lock[id]].pc = "commit" /\ req[lock[id]].id = id
        BY <1>4, <2>1 DEF CommentsInv, LocksEndWithTheirRequest, TypeOK
      <3> QED
        BY <1>1, <2>1, <3>1
    <2>2. CASE id = t.id /\ lock'[id] = r
      BY <1>1, <2>2
    <2> QED
      BY <1>2, <2>1, <2>2
  <1>5. ReqInv'
    <2> SUFFICES ASSUME NEW q \in Requests PROVE ReqOK(q)'
      BY DEF ReqInv
    <2>1. CASE q = r
      <3>1. lock'[t.id] = r \/ (t.kind # "create" /\ comments[t.id].state = "gone")
        BY DEF CommentsInv, LocksEndWithTheirRequest, TypeOK
      <3> QED
        BY <1>1, <2>1, <3>1 DEF ReqOK
    <2>2. CASE q # r
      <3>1. ReqOK(q) /\ req'[q] = req[q]
        BY <1>1, <2>2 DEF CommentsInv, ReqInv
      <3>2. req[q].id \in Ids /\ lock[req[q].id] = q => lock'[req[q].id] = q
        BY <1>2, NoRequestAssumption
      <3> QED
        BY <3>1, <3>2 DEF ReqOK
    <2> QED
      BY <2>1, <2>2
  <1>6. TableInv'
    <2> SUFFICES ASSUME NEW id \in Ids, id >= nextId'
                 PROVE  comments'[id].state = "none" /\ lock'[id] = NoRequest
      BY DEF TableInv
    <2>1. id \in Int /\ nextId \in Int /\ nextId' \in Int /\ t.id \in Int
      BY DEF CommentsInv, LocksEndWithTheirRequest, TypeOK, Ids
    <2>2. id >= nextId /\ id # t.id
      BY <2>1
    <2> QED
      BY <1>2, <2>2 DEF CommentsInv, TableInv
  <1> QED
    BY <1>3, <1>4, <1>5, <1>6 DEF CommentsInv, LocksEndWithTheirRequest

(* INSERT, UPDATE and DELETE.                                              *)
LEMMA InsertComments == ASSUME CommentsInv, NEW r \in Requests, Insert(r) PROVE CommentsInv'
  <1> DEFINE t == [req[r] EXCEPT !.id = nextId, !.shown = req[r].body, !.pc = "commit"]
  <1>1. /\ req[r] \in Request /\ nextId \in Ids /\ nextId \in 0 .. MaxId /\ nextId' = nextId + 1
        /\ nextId' \in 1 .. MaxId + 1 /\ nextId' >= nextId /\ nextId < nextId'
    BY BoundsAssumption DEF Insert, CommentsInv, LocksEndWithTheirRequest, TypeOK, Ids
  <1>2. t \in Request /\ t.pc = "commit" /\ t.id = nextId /\ t.kind = "create"
    <2>1. [[[req[r] EXCEPT !.id = nextId] EXCEPT !.shown = req[r].body] EXCEPT !.pc = "commit"] \in Request
      <3>1. req[r].body \in Bodies
        BY <1>1 DEF Request
      <3> QED
        BY <1>1, <3>1, RequestFields
    <2>2. t.pc = "commit" /\ t.id = nextId /\ t.kind = "create"
      BY <1>1 DEF Insert, Request
    <2> QED
      BY <2>1, <2>2
  <1>3. comments[nextId].state = "none" /\ lock[nextId] = NoRequest
    BY <1>1 DEF CommentsInv, TableInv, Ids
  <1>4. /\ req' = [req EXCEPT ![r] = t] /\ lock' = [lock EXCEPT ![nextId] = r]
        /\ req[r].pc = "write" /\ UNCHANGED <<comments, members, admins, calls>>
    BY DEF Insert
  <1> HIDE DEF t
  <1> QED
    BY <1>1, <1>2, <1>3, <1>4, LockStep

LEMMA UpdateComments == ASSUME CommentsInv, NEW r \in Requests, Update(r) PROVE CommentsInv'
  <1> DEFINE q == req[r]
             now == comments[q.id]
             changes == now.state = "live" /\ now.body # q.body
             t == [q EXCEPT !.shown = IF changes THEN q.body ELSE q.snap.body, !.pc = "commit"]
  <1>1. /\ q \in Request /\ q.pc = "write" /\ q.kind = "update" /\ lock[q.id] = NoRequest
        /\ q.id \in Ids /\ now.state \in {"live", "gone"} /\ now.author = q.snap.author
        /\ q.user \in admins \/ (q.user = q.snap.author /\ q.user \in members)
    BY DEF Update, CommentsInv, LocksEndWithTheirRequest, TypeOK, ReqInv, ReqOK
  <1>2. /\ t \in Request /\ t.pc = "commit" /\ t.id = q.id /\ t.kind = "update" /\ t.snap = q.snap
        /\ t.user = q.user /\ t.body = q.body /\ (changes => t.shown = t.body)
    <2>1. q.body \in Bodies /\ q.snap.body \in Bodies
      BY <1>1 DEF Request, Row
    <2>2. [[q EXCEPT !.shown = IF changes THEN q.body ELSE q.snap.body] EXCEPT !.pc = "commit"] \in Request
      BY <1>1, <2>1, RequestFields
    <2>3. /\ t.pc = "commit" /\ t.id = q.id /\ t.kind = "update" /\ t.snap = q.snap
          /\ t.user = q.user /\ t.body = q.body /\ (changes => t.shown = t.body)
      BY <1>1 DEF Request
    <2> QED
      BY <2>2, <2>3
  <1>3. q.id < nextId
    BY <1>1 DEF CommentsInv, TableInv, LocksEndWithTheirRequest, TypeOK, Ids
  <1>4. /\ req' = [req EXCEPT ![r] = t] /\ UNCHANGED <<comments, nextId, members, admins, calls>>
        /\ lock' = IF now.state = "live" THEN [lock EXCEPT ![q.id] = r] ELSE lock
    BY DEF Update
  <1>5. nextId' \in 1 .. MaxId + 1 /\ nextId' >= nextId /\ q.id < nextId'
    BY <1>3, <1>4 DEF CommentsInv, LocksEndWithTheirRequest, TypeOK
  <1> HIDE DEF t
  <1> QED
    BY <1>1, <1>2, <1>4, <1>5, LockStep

LEMMA DeleteComments == ASSUME CommentsInv, NEW r \in Requests, Delete(r) PROVE CommentsInv'
  <1> DEFINE q == req[r]
             now == comments[q.id]
             t == [q EXCEPT !.pc = "commit"]
  <1>1. /\ q \in Request /\ q.pc = "write" /\ q.kind = "delete" /\ lock[q.id] = NoRequest
        /\ q.id \in Ids /\ now.state \in {"live", "gone"} /\ now.author = q.snap.author
        /\ q.user \in admins \/ (q.user = q.snap.author /\ q.user \in members)
    BY DEF Delete, CommentsInv, LocksEndWithTheirRequest, TypeOK, ReqInv, ReqOK
  <1>2. /\ t \in Request /\ t.pc = "commit" /\ t.id = q.id /\ t.kind = "delete" /\ t.snap = q.snap
        /\ t.user = q.user
    BY <1>1 DEF Request
  <1>3. q.id < nextId
    BY <1>1 DEF CommentsInv, TableInv, LocksEndWithTheirRequest, TypeOK, Ids
  <1>4. /\ req' = [req EXCEPT ![r] = t] /\ UNCHANGED <<comments, nextId, members, admins, calls>>
        /\ lock' = IF now.state = "live" THEN [lock EXCEPT ![q.id] = r] ELSE lock
    BY DEF Delete
  <1>5. nextId' \in 1 .. MaxId + 1 /\ nextId' >= nextId /\ q.id < nextId'
    BY <1>3, <1>4 DEF CommentsInv, LocksEndWithTheirRequest, TypeOK
  <1> HIDE DEF t
  <1> QED
    BY <1>1, <1>2, <1>4, <1>5, LockStep

(* What a commit leaves in its row: a new comment where there was none, or *)
(* the locked row edited or removed; a row that is gone stays as it is.    *)
LEMMA CommitWrites ==
    ASSUME CommentsInv, NEW r \in Requests, NEW status, Stored(r, status)
    PROVE  LET q == req[r]
               old == comments[q.id]
               new == comments'[q.id]
           IN  /\ q \in Request /\ q.id \in Ids /\ old \in Row /\ new \in Row
               /\ comments' = [comments EXCEPT ![q.id] = new]
               /\ q.kind = "create" => /\ old.state = "none" /\ lock[q.id] = r
                                       /\ new.state = "live" /\ new.body = q.body
                                       /\ new.author = q.user
               /\ q.kind # "create" => /\ new.author = old.author /\ old.state \in {"live", "gone"}
                                       /\ old.state = "gone" => new = old
                                       /\ old.state = "live" => lock[q.id] = r
               /\ q.kind = "update" /\ old.state = "live" =>
                       /\ new.state = "live" /\ new.body = q.body
                       /\ new # old => q.shown = q.body
               /\ q.kind = "delete" => new.state = "gone"
  <1> DEFINE q == req[r]
             old == comments[q.id]
             new == Written(q, old)
  <1>1. q \in Request /\ q.pc = "commit" /\ ReqOK(r) /\ comments \in [Ids -> Row]
    BY DEF Stored, CommentsInv, LocksEndWithTheirRequest, TypeOK, ReqInv
  <1>2. q.id \in Ids /\ old \in Row /\ q.kind \in {"create", "update", "delete"}
        /\ q.user \in Users /\ q.body \in Bodies
    BY <1>1 DEF ReqOK, Request, Kinds
  <1>3. comments'[q.id] = new /\ comments' = [comments EXCEPT ![q.id] = new]
    BY <1>1, <1>2 DEF Stored
  <1>4. /\ q.kind = "create" => old.state = "none" /\ lock[q.id] = r
        /\ q.kind # "create" => /\ old.state \in {"live", "gone"}
                                /\ old.state = "live" => lock[q.id] = r
        /\ q.kind = "update" /\ old.state = "live" /\ old.body # q.body => q.shown = q.body
    BY <1>1 DEF ReqOK
  <1>5. CASE q.kind = "create"
    <2>1. new = [state |-> "live", author |-> q.user, body |-> q.body]
      BY <1>5 DEF Written
    <2>2. new \in Row /\ new.state = "live" /\ new.body = q.body /\ new.author = q.user
      BY <1>2, <2>1 DEF Row
    <2> HIDE DEF new
    <2> QED
      BY <1>1, <1>2, <1>3, <1>4, <1>5, <2>2
  <1>6. CASE q.kind = "update"
    <2>1. new = IF old.state = "live" THEN [old EXCEPT !.body = q.body] ELSE old
      BY <1>6 DEF Written
    <2>2. /\ new \in Row /\ new.author = old.author
          /\ old.state = "live" => /\ new.state = "live" /\ new.body = q.body
                                   /\ new # old => old.body # q.body
          /\ old.state = "gone" => new = old
      BY <1>2, <2>1 DEF Row
    <2> HIDE DEF new
    <2> QED
      BY <1>1, <1>2, <1>3, <1>4, <1>6, <2>2
  <1>7. CASE q.kind = "delete"
    <2>1. new = IF old.state = "live" THEN [old EXCEPT !.state = "gone"] ELSE old
      BY <1>7 DEF Written
    <2>2. /\ new \in Row /\ new.author = old.author
          /\ old.state = "live" => new.state = "gone"
          /\ old.state = "gone" => new = old
      BY <1>2, <2>1 DEF Row
    <2> HIDE DEF new
    <2> QED
      BY <1>1, <1>2, <1>3, <1>4, <1>7, <2>2
  <1> QED
    BY <1>2, <1>5, <1>6, <1>7

(* A transaction ends, having written row id, which it had locked, or      *)
(* nothing.                                                                *)
LEMMA EndStep ==
    ASSUME CommentsInv, NEW r \in Requests, NEW status \in Statuses,
           req[r].pc # "idle", req' = [req EXCEPT ![r] = Answered(status)], lock' = Unlocked(r),
           comments' \in [Ids -> Row],
           \A id \in Ids : comments'[id] # comments[id] =>
              /\ lock[id] = r /\ comments[id].state # "gone"
              /\ comments[id].state # "none" => comments'[id].author = comments[id].author
              /\ comments'[id].state \in {"live", "gone"},
           UNCHANGED <<nextId, members, admins, calls>>
    PROVE  CommentsInv'
  <1>1. /\ req \in [Requests -> Request] /\ req[r] \in Request
        /\ lock \in [Ids -> Requests \cup {NoRequest}]
    BY DEF CommentsInv, LocksEndWithTheirRequest, TypeOK
  <1>2. Answered(status) \in Request /\ Answered(status).pc = "idle"
    <2>1. req[r].user \in Users
      BY <1>1 DEF Request
    <2> QED
      BY <2>1, AnsweredType
  <1>3. \A q \in Requests : req'[q] = IF q = r THEN Answered(status) ELSE req[q]
    BY <1>1
  <1>4. \A id \in Ids : lock'[id] = IF lock[id] = r THEN NoRequest ELSE lock[id]
    BY DEF Unlocked
  <1>5. TypeOK'
    <2>1. req' \in [Requests -> Request]
      BY <1>1, <1>2
    <2>2. lock' \in [Ids -> Requests \cup {NoRequest}]
      BY <1>1 DEF Unlocked
    <2> QED
      BY <2>1, <2>2 DEF CommentsInv, LocksEndWithTheirRequest, TypeOK
  <1>6. ASSUME NEW id \in Ids, lock'[id] # NoRequest
        PROVE  req'[lock'[id]].pc = "commit" /\ req'[lock'[id]].id = id
    <2>1. lock'[id] = lock[id] /\ lock[id] # r /\ lock[id] \in Requests
      BY <1>1, <1>4, <1>6
    <2>2. req[lock[id]].pc = "commit" /\ req[lock[id]].id = id
      BY <1>6, <2>1 DEF CommentsInv, LocksEndWithTheirRequest
    <2> QED
      BY <1>3, <2>1, <2>2
  <1>7. ReqInv'
    <2> SUFFICES ASSUME NEW q \in Requests PROVE ReqOK(q)'
      BY DEF ReqInv
    <2>1. CASE q = r
      BY <1>2, <1>3, <2>1 DEF ReqOK
    <2>2. CASE q # r
      <3>1. ReqOK(q) /\ req'[q] = req[q]
        BY <1>3, <2>2 DEF CommentsInv, ReqInv
      <3>2. CASE req[q].id \in Ids /\ comments'[req[q].id] = comments[req[q].id]
        <4>1. lock[req[q].id] = q => lock'[req[q].id] = q
          BY <1>4, <2>2, <3>2
        <4> QED
          BY <3>1, <3>2, <4>1 DEF ReqOK
      <3>3. CASE req[q].id \in Ids /\ comments'[req[q].id] # comments[req[q].id]
        <4>1. /\ lock[req[q].id] = r /\ comments[req[q].id].state # "gone"
              /\ comments[req[q].id].state # "none" =>
                     comments'[req[q].id].author = comments[req[q].id].author
              /\ comments'[req[q].id].state \in {"live", "gone"}
          BY <3>3
        <4>2. req[q].pc # "commit"
          BY <2>2, <3>1, <4>1 DEF ReqOK
        <4> QED
          BY <3>1, <4>1, <4>2 DEF ReqOK
      <3>4. CASE req[q].id \notin Ids
        BY <3>1, <3>4 DEF ReqOK
      <3> QED
        BY <3>2, <3>3, <3>4
    <2> QED
      BY <2>1, <2>2
  <1>8. TableInv'
    BY <1>4, NoRequestAssumption DEF CommentsInv, TableInv
  <1> QED
    BY <1>5, <1>6, <1>7, <1>8 DEF CommentsInv, LocksEndWithTheirRequest

LEMMA StoredComments ==
    ASSUME CommentsInv, NEW r \in Requests, NEW status \in Statuses, Stored(r, status)
    PROVE  CommentsInv'
  <1>1. /\ req[r].pc # "idle"
        /\ req' = [req EXCEPT ![r] = Answered(status)] /\ lock' = Unlocked(r)
        /\ UNCHANGED <<nextId, members, admins, calls>>
    BY DEF Stored
  <1>2. comments \in [Ids -> Row]
    BY DEF CommentsInv, LocksEndWithTheirRequest, TypeOK
  <1> DEFINE id == req[r].id
             new == comments'[id]
  <1>3. id \in Ids /\ new \in Row /\ comments' = [comments EXCEPT ![id] = new]
    BY CommitWrites
  <1>4. new # comments[id] =>
            /\ lock[id] = r /\ comments[id].state # "gone"
            /\ comments[id].state # "none" => new.author = comments[id].author
            /\ new.state \in {"live", "gone"}
    <2>1. req[r].kind \in {"create", "update", "delete"}
      BY CommitWrites DEF Request, Kinds
    <2> QED
      BY <2>1, CommitWrites
  <1> HIDE DEF id, new
  <1>5. \A i \in Ids : comments'[i] # comments[i] => i = id /\ comments'[i] = new
    BY <1>2, <1>3
  <1>6. comments' \in [Ids -> Row]
    BY <1>2, <1>3
  <1> QED
    BY <1>1, <1>4, <1>5, <1>6, EndStep

LEMMA CommitComments ==
    ASSUME CommentsInv, NEW r \in Requests, Commit(r) \/ CommitLost(r)
    PROVE  CommentsInv'
  <1>1. Success(req[r].kind) \in Statuses /\ 500 \in Statuses
    BY DEF Success, Statuses
  <1> QED
    BY <1>1, StoredComments DEF Commit, CommitLost

LEMMA AbortComments == ASSUME CommentsInv, NEW r \in Requests, Abort(r) PROVE CommentsInv'
  <1>1. 500 \in Statuses /\ req[r].pc # "idle" /\ comments' = comments
    BY DEF Abort, Statuses
  <1>2. comments' \in [Ids -> Row]
    BY <1>1 DEF CommentsInv, LocksEndWithTheirRequest, TypeOK
  <1> QED
    BY <1>1, <1>2, EndStep DEF Abort

(* A right is only ever gained.                                            *)
LEMMA PromoteComments == ASSUME CommentsInv, Promote PROVE CommentsInv'
  <1>1. /\ members \subseteq members' /\ admins \subseteq admins'
        /\ members' \subseteq Users /\ admins' \subseteq Users
        /\ UNCHANGED <<comments, nextId, lock, req, calls>>
    BY DEF Promote, CommentsInv, LocksEndWithTheirRequest, TypeOK
  <1>2. LocksEndWithTheirRequest'
    BY <1>1 DEF CommentsInv, LocksEndWithTheirRequest, TypeOK
  <1>3. ReqInv'
    BY <1>1 DEF CommentsInv, ReqInv, ReqOK
  <1>4. TableInv'
    BY <1>1 DEF CommentsInv, TableInv
  <1> QED
    BY <1>2, <1>3, <1>4 DEF CommentsInv

(* Every step keeps the invariant.                                         *)
LEMMA NextComments == CommentsInv /\ [Next]_vars => CommentsInv'
  <1> SUFFICES ASSUME CommentsInv, [Next]_vars PROVE CommentsInv'
    OBVIOUS
  <1>1. CASE UNCHANGED vars
    <2>1. LocksEndWithTheirRequest'
      BY <1>1 DEF vars, CommentsInv, LocksEndWithTheirRequest, TypeOK
    <2>2. ReqInv' /\ TableInv'
      BY <1>1 DEF vars, CommentsInv, ReqInv, ReqOK, TableInv
    <2> QED
      BY <2>1, <2>2 DEF CommentsInv
  <1> QED
    BY <1>1, BeginComments, CheckComments, InsertComments, UpdateComments, DeleteComments,
       CommitComments, AbortComments, PromoteComments DEF Next

(* The locks, the rows and the requests fit together in every reachable    *)
(* state.                                                                  *)
THEOREM CommentsInvariant == Spec => []CommentsInv
  <1> QED
    BY InitComments, NextComments, PTL DEF Spec

(* A row lock is held by a transaction that is about to commit that row    *)
(* and by nobody else: a rollback or a commit leaves none behind.          *)
THEOREM LocksEnd == Spec => []LocksEndWithTheirRequest
  <1>1. CommentsInv => LocksEndWithTheirRequest
    BY DEF CommentsInv
  <1> QED
    BY <1>1, CommentsInvariant, PTL

(* A row is written by a commit and by nothing else.                       *)
LEMMA OnlyCommitWrites ==
    ASSUME [Next]_vars
    PROVE  UNCHANGED comments \/ \E r \in Requests : \E status : Stored(r, status)
  <1>1. CASE UNCHANGED vars
    BY <1>1 DEF vars
  <1>2. ASSUME NEW r \in Requests, createHandler(r) \/ updateHandler(r) \/ deleteHandler(r)
        PROVE  UNCHANGED comments
    BY <1>2 DEF createHandler, updateHandler, deleteHandler, Begin
  <1>3. ASSUME NEW r \in Requests, Check(r) \/ Insert(r) \/ Update(r) \/ Delete(r) \/ Abort(r)
        PROVE  UNCHANGED comments
    BY <1>3 DEF Check, Insert, Update, Delete, Abort
  <1>4. CASE Promote
    BY <1>4 DEF Promote
  <1> QED
    BY <1>1, <1>2, <1>3, <1>4 DEF Next, Commit, CommitLost

(* requireCanModify decides on a snapshot, and the row is written after a  *)
(* wait for its lock: whoever writes a comment is its author, still in the *)
(* team, or an admin, at the moment the change appears.                    *)
THEOREM WritersAreEntitled == Spec => OnlyAuthorOrAdmin
  <1>1. CommentsInv /\ [Next]_vars =>
            [\A id \in Ids : comments[id].state = "live" /\ comments'[id] # comments[id] =>
                \E r \in Requests :
                    /\ req[r].pc = "commit" /\ req'[r].pc = "idle" /\ req[r].id = id
                    /\ \/ req[r].user \in admins
                       \/ req[r].user = comments[id].author /\ req[r].user \in members]_vars
    <2> SUFFICES ASSUME CommentsInv, [Next]_vars, NEW id \in Ids, comments[id].state = "live",
                        comments'[id] # comments[id]
                 PROVE  \E r \in Requests :
                            /\ req[r].pc = "commit" /\ req'[r].pc = "idle" /\ req[r].id = id
                            /\ \/ req[r].user \in admins
                               \/ req[r].user = comments[id].author /\ req[r].user \in members
      OBVIOUS
    <2>1. PICK r \in Requests : \E status : Stored(r, status)
      BY OnlyCommitWrites
    <2>2. req \in [Requests -> Request] /\ comments \in [Ids -> Row] /\ ReqOK(r)
      BY DEF CommentsInv, LocksEndWithTheirRequest, TypeOK, ReqInv
    <2>3. req[r].pc = "commit" /\ req'[r].pc = "idle"
      <3>1. PICK status : req[r].pc = "commit" /\ req' = [req EXCEPT ![r] = Answered(status)]
        BY <2>1 DEF Stored
      <3>2. Answered(status).pc = "idle"
        BY DEF Answered
      <3> QED
        BY <2>2, <3>1, <3>2
    <2>4. req[r].id = id /\ req[r].kind # "create"
      <3>1. req[r].id \in Ids /\ comments' = [comments EXCEPT ![req[r].id] = comments'[req[r].id]]
        BY <2>1, CommitWrites
      <3>2. req[r].id = id
        BY <2>2, <3>1
      <3> QED
        BY <2>1, <3>2, CommitWrites
    <2> QED
      BY <2>2, <2>3, <2>4 DEF ReqOK
  <1> QED
    BY <1>1, CommentsInvariant, PTL DEF Spec, OnlyAuthorOrAdmin

(* What the handlers acknowledge is true when they answer, and a comment   *)
(* that is gone stays gone: Update meets a deleted row without bringing it *)
(* back, and shows the body it wrote whenever it wrote one.  A refusal     *)
(* changed nothing; a 500 left either nothing behind or all of it.         *)
THEOREM WritesHold == Spec => AcknowledgedWritesHold
  <1>1. CommentsInv /\ [Next]_vars =>
            [/\ \A id \in Ids : comments[id].state = "gone" => comments'[id] = comments[id]
             /\ \A r \in Requests : Answers(r) => AnswerHolds(r)]_vars
    <2> SUFFICES ASSUME CommentsInv, [Next]_vars
                 PROVE  /\ \A id \in Ids : comments[id].state = "gone" => comments'[id] = comments[id]
                        /\ \A r \in Requests : Answers(r) => AnswerHolds(r)
      OBVIOUS
    <2>1. ASSUME NEW id \in Ids, comments[id].state = "gone" PROVE comments'[id] = comments[id]
      <3>1. CASE UNCHANGED comments
        BY <3>1
      <3>2. ASSUME NEW r \in Requests, NEW status, Stored(r, status) PROVE comments'[id] = comments[id]
        <4>1. CASE req[r].id = id
          BY <2>1, <3>2, <4>1, CommitWrites
        <4>2. CASE req[r].id # id
          <5>1. comments' = [comments EXCEPT ![req[r].id] = comments'[req[r].id]]
            BY <3>2, CommitWrites
          <5>2. comments \in [Ids -> Row]
            BY DEF CommentsInv, LocksEndWithTheirRequest, TypeOK
          <5> QED
            BY <4>2, <5>1, <5>2
        <4> QED
          BY <4>1, <4>2
      <3> QED
        BY <3>1, <3>2, OnlyCommitWrites
    <2>2. ASSUME NEW r \in Requests, req[r].pc # "idle", req'[r].pc = "idle"
          PROVE  \/ UNCHANGED comments /\ req'[r].status \in {403, 404, 500}
                 \/ \E status \in {Success(req[r].kind), 500} :
                        Stored(r, status) /\ req'[r].status = status
      <3>1. req \in [Requests -> Request] /\ req[r] \in Request
        BY DEF CommentsInv, LocksEndWithTheirRequest, TypeOK
      <3>2. ASSUME NEW p \in Requests, NEW t, req' = [req EXCEPT ![p] = t]
            PROVE  p = r /\ req'[r] = t
        BY <2>2, <3>1, <3>2
      <3>3. ASSUME NEW p \in Requests, NEW status, req' = [req EXCEPT ![p] = Answered(status)]
            PROVE  p = r /\ req'[r].status = status
        <4>1. p = r /\ req'[r] = Answered(status)
          BY <3>2, <3>3
        <4>2. Answered(status).status = status
          BY DEF Answered
        <4> QED
          BY <4>1, <4>2
      <3>4. CASE UNCHANGED vars
        BY <2>2, <3>4 DEF vars
      <3>5. CASE Promote
        BY <2>2, <3>5 DEF Promote
      <3>6. ASSUME NEW p \in Requests, createHandler(p) \/ updateHandler(p) \/ deleteHandler(p)
            PROVE  FALSE
        <4>1. PICK t : req' = [req EXCEPT ![p] = t] /\ req[p].pc = "idle"
          BY <3>6 DEF createHandler, updateHandler, deleteHandler, Begin
        <4> QED
          BY <2>2, <3>2, <4>1
      <3>7. ASSUME NEW p \in Requests, Check(p)
            PROVE  UNCHANGED comments /\ req'[r].status \in {403, 404, 500}
        <4> DEFINE verdict == IF req[p].kind = "create" THEN requireCanCreate(req[p].user, req[p].id)
                              ELSE requireCanModify(req[p].user, RowAt(req[p].id))
        <4>1. verdict \in {0, 403, 404}
          BY DEF requireCanCreate, requireCanModify, RequireTeamRole, RequireAdmin
        <4>2. CASE verdict # 0
          <5>1. req' = [req EXCEPT ![p] = Answered(verdict)]
            BY <3>7, <4>2 DEF Check
          <5>2. req'[r].status = verdict
            BY <3>3, <5>1
          <5> QED
            BY <3>7, <4>1, <4>2, <5>2 DEF Check
        <4>3. CASE verdict = 0
          <5>1. req' = [req EXCEPT ![p] = [req[p] EXCEPT !.snap = RowAt(req[p].id), !.pc = "write"]]
            BY <3>7, <4>3 DEF Check
          <5>2. req'[r] = [req[r] EXCEPT !.snap = RowAt(req[r].id), !.pc = "write"]
            BY <3>2, <5>1
          <5>3. req'[r].pc = "write"
            BY <3>1, <5>2 DEF Request
          <5> QED
            BY <2>2, <5>3
        <4> QED
          BY <4>2, <4>3
      <3>8. ASSUME NEW p \in Requests, Insert(p) \/ Update(p) \/ Delete(p) PROVE FALSE
        <4>1. req'[p].pc = "commit"
          BY <3>1, <3>8 DEF Insert, Update, Delete, Request
        <4>2. PICK t : req' = [req EXCEPT ![p] = t]
          BY <3>8 DEF Insert, Update, Delete
        <4> QED
          BY <2>2, <3>2, <4>1, <4>2
      <3>9. ASSUME NEW p \in Requests, NEW status, Stored(p, status)
            PROVE  p = r /\ Stored(r, status) /\ req'[r].status = status
        <4>1. req' = [req EXCEPT ![p] = Answered(status)]
          BY <3>9 DEF Stored
        <4> QED
          BY <3>3, <3>9, <4>1
      <3>10. ASSUME NEW p \in Requests, Abort(p)
            PROVE  UNCHANGED comments /\ req'[r].status = 500
        <4>1. UNCHANGED comments /\ req' = [req EXCEPT ![p] = Answered(500)]
          BY <3>10 DEF Abort
        <4> QED
          BY <3>3, <4>1, ZenonT(60)
      <3> QED
        BY <3>4, <3>5, <3>6, <3>7, <3>8, <3>9, <3>10 DEF Next, Commit, CommitLost
    <2>3. ASSUME NEW r \in Requests, NEW status, Stored(r, status)
          PROVE  /\ req[r].id \in Ids /\ Done(req[r], comments'[req[r].id])
                 /\ req[r].kind = "update" /\ comments'[req[r].id] # comments[req[r].id] =>
                        req[r].shown = req[r].body
                 /\ \A id \in Ids : id # req[r].id => comments'[id] = comments[id]
      <3>1. /\ req[r].kind \in {"create", "update", "delete"} /\ req[r].id \in Ids
            /\ comments' = [comments EXCEPT ![req[r].id] = comments'[req[r].id]]
            /\ comments \in [Ids -> Row]
        BY <2>3, CommitWrites DEF Request, Kinds, CommentsInv, LocksEndWithTheirRequest, TypeOK
      <3>2. \A id \in Ids : id # req[r].id => comments'[id] = comments[id]
        BY <3>1
      <3>3. CASE req[r].kind = "create"
        BY <2>3, <3>1, <3>2, <3>3, CommitWrites DEF Done
      <3>4. CASE req[r].kind = "update"
        BY <2>3, <3>1, <3>2, <3>4, CommitWrites DEF Done
      <3>5. CASE req[r].kind = "delete"
        BY <2>3, <3>1, <3>2, <3>5, CommitWrites DEF Done
      <3> QED
        BY <3>1, <3>3, <3>4, <3>5
    <2>4. ASSUME NEW r \in Requests, Answers(r) PROVE AnswerHolds(r)
      <3>1. req[r].pc # "idle" /\ req'[r].pc = "idle"
        BY <2>4 DEF Answers
      <3>2. CASE UNCHANGED comments /\ req'[r].status \in {403, 404, 500}
        BY <3>2 DEF AnswerHolds
      <3>3. ASSUME NEW status \in {Success(req[r].kind), 500},
                   Stored(r, status), req'[r].status = status
            PROVE  AnswerHolds(r)
        <4>1. /\ status \in {200, 201, 204, 500}
              /\ status = 200 => req[r].kind = "update"
          BY DEF Success
        <4> QED
          BY <2>3, <3>3, <4>1 DEF AnswerHolds
      <3> QED
        BY <2>2, <3>1, <3>2, <3>3
    <2> QED
      BY <2>1, <2>4
  <1> QED
    BY <1>1, CommentsInvariant, PTL DEF Spec, AcknowledgedWritesHold
=============================================================================
