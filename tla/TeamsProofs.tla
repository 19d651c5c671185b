---------------------------- MODULE TeamsProofs ----------------------------
(***************************************************************************)
(* Memberships, roles and invitations stay in step for any number of       *)
(* users, teams, messages and concurrent requests.                         *)
(***************************************************************************)
EXTENDS Teams, FiniteSetTheorems, TLAPS

LEMMA AnsweredType == \A answer \in {"none", "ok", "conflict", "forbidden", "not found", "error"} :
                          Answered(answer) \in Request /\ ReqOK(Answered(answer))
  <1>1. SomeEmail \in Emails
    BY EmailsAssumption DEF SomeEmail
  <1>2. 0 \in 0 .. MaxTeams
    BY BoundsAssumption
  <1> QED
    BY <1>1, <1>2 DEF Answered, Request, ReqOK, Kinds

(* The initial state satisfies the invariant.                              *)
LEMMA InitTeams == Init => TeamsInv
  <1> SUFFICES ASSUME Init PROVE TeamsInv
    OBVIOUS
  <1>1. \A r \in Requests : req[r] = Answered("none") /\ req[r] \in Request /\ ReqOK(req[r])
                            /\ req[r].pc = "idle"
    BY AnsweredType DEF Init, Answered
  <1>2. req \in [Requests -> Request]
    BY <1>1 DEF Init
  <1>3. TypeOK
    <2>1. nextTeam \in 1 .. MaxTeams + 1 /\ calls \in 0 .. MaxCalls /\ 0 \in 0 .. MaxAttempts
      BY BoundsAssumption DEF Init
    <2>2. /\ mail \in [MailIds -> {"none", "pending", "failed", "deleted"}]
          /\ attempts \in [MailIds -> 0 .. MaxAttempts]
          /\ deliveries \in [MailIds -> Nat]
      BY <2>1 DEF Init, Box!AbstractInit
    <2>3. /\ users \in [Emails -> {"none", "user", "admin"}]
          /\ creator \in [TeamIds -> Emails \cup {Nobody}]
          /\ member \in [TeamIds -> [Emails -> Roles]]
          /\ key \in [Pairs -> Requests \cup {Nobody}]
          /\ envelope \in [MailIds -> Pairs \cup {<<>>}]
      BY DEF Init, Roles
    <2> QED
      BY <1>2, <2>1, <2>2, <2>3 DEF TypeOK
  <1>4. KeyInv
    BY <1>1, NobodyAssumption DEF Init, KeyInv
  <1>5. TeamInv
    BY <1>1, NobodyAssumption DEF Init, TeamInv, Founding
  <1>6. MailInv
    BY DEF Init, MailInv, Box!AbstractInit
  <1> QED
    BY <1>1, <1>3, <1>4, <1>5, <1>6 DEF TeamsInv, ReqInv

(* A request moves on by itself, outside of the transaction.               *)
LEMMA RequestStep ==
    ASSUME TeamsInv, NEW r \in Requests, NEW t \in Request, ReqOK(t),
           req[r].pc \notin {"enqueue", "commit"}, t.pc \notin {"enqueue", "commit"},
           t.kind = "create" => t.pc # "add",
           req' = [req EXCEPT ![r] = t], UNCHANGED <<tables, outboxVars>>, calls' \in 0 .. MaxCalls
    PROVE  TeamsInv'
  <1>1. \A q \in Requests : req'[q] = IF q = r THEN t ELSE req[q]
    BY DEF TeamsInv, TypeOK
  <1>2. TypeOK'
    BY DEF TeamsInv, TypeOK, tables, outboxVars
  <1>3. ReqInv'
    BY <1>1 DEF TeamsInv, ReqInv, ReqOK, tables
  <1>4. KeyInv'
    BY <1>1 DEF TeamsInv, KeyInv, tables, Added, Whom
  <1>5. TeamInv'
    BY <1>1 DEF TeamsInv, TeamInv, Founding, tables
  <1>6. MailInv'
    BY DEF TeamsInv, MailInv, tables, outboxVars
  <1> QED
    BY <1>2, <1>3, <1>4, <1>5, <1>6 DEF TeamsInv

(* A rollback gives up the index entry of the request and of nobody else.  *)
LEMMA AbortTeams == ASSUME TeamsInv, NEW r \in Requests, Abort(r) PROVE TeamsInv'
  <1>1. Answered("error") \in Request /\ ReqOK(Answered("error")) /\ Answered("error").pc = "idle"
    BY AnsweredType DEF Answered
  <1>2. \A q \in Requests : req'[q] = IF q = r THEN Answered("error") ELSE req[q]
    BY DEF TeamsInv, TypeOK, Abort, Answer
  <1>3. \A p \in Pairs : key'[p] = IF key[p] = r THEN Nobody ELSE key[p]
    BY DEF Abort, Unlocked
  <1>4. TypeOK'
    BY <1>1, <1>2 DEF TeamsInv, TypeOK, Abort, Answer, Unlocked, outboxVars
  <1>5. ReqInv'
    BY <1>1, <1>2 DEF TeamsInv, ReqInv, ReqOK, Abort
  <1>6. KeyInv'
    BY <1>1, <1>2, <1>3, NobodyAssumption DEF TeamsInv, KeyInv, Abort, Added, Whom
  <1>7. TeamInv'
    BY <1>1, <1>2 DEF TeamsInv, TeamInv, Founding, Abort
  <1>8. MailInv'
    BY DEF TeamsInv, MailInv, Abort, outboxVars
  <1> QED
    BY <1>4, <1>5, <1>6, <1>7, <1>8 DEF TeamsInv

(* An account is created, or an account becomes an admin and its request   *)
(* is answered.                                                            *)
LEMMA AccountStep ==
    ASSUME TeamsInv, NEW e \in Emails, NEW role \in {"user", "admin"},
           users' = [users EXCEPT ![e] = role], users[e] = "admin" => role = "admin",
           req' \in [Requests -> Request],
           \A q \in Requests : \/ req'[q] = req[q]
                               \/ req'[q].pc = "idle" /\ req[q].pc \notin {"enqueue", "commit"},
           UNCHANGED <<creator, member, nextTeam, key, outboxVars, calls>>
    PROVE  TeamsInv'
  <1>1. TypeOK'
    BY DEF TeamsInv, TypeOK, outboxVars
  <1>2. \A u \in Emails : users[u] = "admin" => users'[u] = "admin"
    BY DEF TeamsInv, TypeOK
  <1>3. ReqInv'
    <2> SUFFICES ASSUME NEW q \in Requests PROVE ReqOK(req[q])'
      BY DEF ReqInv
    <2>1. ReqOK(req[q]) /\ req[q].actor \in Emails
      BY DEF TeamsInv, TypeOK, ReqInv, Request
    <2>2. CASE req'[q] = req[q]
      BY <1>2, <2>1, <2>2 DEF ReqOK
    <2>3. CASE req'[q].pc = "idle"
      BY <2>3 DEF ReqOK
    <2> QED
      BY <2>2, <2>3
  <1>4. KeyInv'
    <2>1. ASSUME NEW q \in Requests, NEW p \in Pairs
          PROVE  key'[p] = q <=> req'[q].pc \in {"enqueue", "commit"} /\ Added(req'[q]) = p
      BY DEF TeamsInv, KeyInv
    <2>2. ASSUME NEW q \in Requests, req'[q].pc \in {"enqueue", "commit"}
          PROVE  /\ member'[req'[q].team][Whom(req'[q])] = "none"
                 /\ req'[q].kind = "invite" => creator'[req'[q].team] # Nobody
      BY <2>2 DEF TeamsInv, KeyInv
    <2> QED
      BY <2>1, <2>2 DEF KeyInv, Added, Whom
  <1>5. TeamInv'
    <2>1. \A q \in Requests : Founding(q)' => Founding(q) /\ req'[q] = req[q]
      BY DEF Founding
    <2> QED
      BY <2>1 DEF TeamsInv, TeamInv
  <1>6. MailInv'
    BY DEF TeamsInv, MailInv, outboxVars
  <1> QED
    BY <1>1, <1>3, <1>4, <1>5, <1>6 DEF TeamsInv

(* The id of a new team is nobody else's.                                  *)
LEMMA InsertTeamTeams == ASSUME TeamsInv, NEW r \in Requests, InsertTeam(r) PROVE TeamsInv'
  <1> DEFINE t == [req[r] EXCEPT !.team = nextTeam, !.pc = "add"]
  <1>1. /\ req[r] \in Request /\ req[r].kind = "create" /\ req[r].pc = "insert"
        /\ nextTeam \in TeamIds /\ nextTeam \in 0 .. MaxTeams /\ nextTeam' = nextTeam + 1
        /\ nextTeam' \in 1 .. MaxTeams + 1
    BY BoundsAssumption DEF TeamsInv, TypeOK, ReqInv, ReqOK, InsertTeam, TeamIds
  <1>2. t \in Request /\ t.kind = "create" /\ t.pc = "add" /\ t.team = nextTeam
    BY <1>1 DEF Request
  <1>3. \A q \in Requests : req'[q] = IF q = r THEN t ELSE req[q]
    BY DEF TeamsInv, TypeOK, InsertTeam
  <1>4. TypeOK'
    BY <1>1, <1>2 DEF TeamsInv, TypeOK, InsertTeam, outboxVars
  <1> HIDE DEF t
  <1>5. UNCHANGED <<users, creator, member, key, outboxVars, calls>>
    BY DEF InsertTeam
  <1>6. ReqInv'
    BY <1>1, <1>2, <1>3, <1>5 DEF TeamsInv, ReqInv, ReqOK
  <1>7. KeyInv'
    BY <1>1, <1>2, <1>3, <1>5 DEF TeamsInv, KeyInv, Added, Whom
  <1>8. TeamInv'
    <2>1. \A u \in TeamIds : u >= nextTeam => creator[u] = Nobody
      BY DEF TeamsInv, TeamInv
    <2>2. \A q \in Requests : Founding(q)' => q = r \/ (Founding(q) /\ req'[q] = req[q])
      BY <1>3 DEF Founding
    <2>3. \A q \in Requests : Founding(q) => req[q].team < nextTeam /\ req[q].team \in TeamIds
                                             /\ creator[req[q].team] = Nobody
      BY DEF TeamsInv, TeamInv, Founding, ReqInv, ReqOK
    <2>4. \A u \in TeamIds : u \in Int /\ nextTeam \in Int
      BY <1>1 DEF TeamIds
    <2>5. \A u \in TeamIds : u >= nextTeam' => creator'[u] = Nobody
      BY <1>1, <2>1, <2>4, <1>5
    <2>6. ASSUME NEW q \in Requests, Founding(q)'
          PROVE  req'[q].team < nextTeam' /\ creator'[req'[q].team] = Nobody
      <3>1. CASE q = r
        BY <1>1, <1>2, <1>3, <1>5, <2>1, <2>4, <3>1
      <3>2. CASE q # r
        <4>1. Founding(q) /\ req'[q] = req[q]
          BY <2>2, <2>6, <3>2
        <4>2. /\ req[q].team < nextTeam /\ req[q].team \in TeamIds
              /\ creator[req[q].team] = Nobody
          BY <2>3, <4>1
        <4>3. req[q].team \in Int /\ nextTeam \in Int /\ nextTeam' = nextTeam + 1
          BY <2>4, <4>2 DEF InsertTeam
        <4>4. req[q].team < nextTeam'
          BY <4>2, <4>3
        <4> QED
          BY <1>5, <4>1, <4>2, <4>4
      <3> QED
        BY <3>1, <3>2
    <2>7. ASSUME NEW p \in Requests, NEW q \in Requests, Founding(p)', Founding(q)', p # q
          PROVE  req'[p].team # req'[q].team
      <3>1. CASE p = r
        BY <1>2, <1>3, <2>2, <2>3, <2>4, <2>7, <3>1
      <3>2. CASE q = r
        BY <1>2, <1>3, <2>2, <2>3, <2>4, <2>7, <3>2
      <3>3. CASE p # r /\ q # r
        BY <2>2, <2>7, <3>3 DEF TeamsInv, TeamInv
      <3> QED
        BY <3>1, <3>2, <3>3
    <2> QED
      BY <2>5, <2>6, <2>7 DEF TeamsInv, TeamInv, InsertTeam
  <1>9. MailInv'
    BY DEF TeamsInv, MailInv, InsertTeam, outboxVars
  <1> QED
    BY <1>4, <1>6, <1>7, <1>8, <1>9 DEF TeamsInv

(* AddMember finds its place in the index: nobody has the key, and the     *)
(* membership is not there.                                                *)
LEMMA AddMemberTeams == ASSUME TeamsInv, NEW r \in Requests, AddMember(r) PROVE TeamsInv'
  <1>1. /\ req[r] \in Request /\ req[r].pc = "add" /\ req[r].kind \in {"create", "invite"}
        /\ req[r].team \in TeamIds /\ Whom(req[r]) \in Emails /\ Added(req[r]) \in Pairs
        /\ key[Added(req[r])] = Nobody
    BY DEF TeamsInv, TypeOK, ReqInv, ReqOK, AddMember, Request, Whom, Added, Pairs
  <1>2. ASSUME NEW answer \in {"not found", "conflict"}, Answer(r, answer), UNCHANGED key
        PROVE  TeamsInv'
    <2>1. /\ Answered(answer) \in Request /\ ReqOK(Answered(answer))
          /\ Answered(answer).pc = "idle"
      BY AnsweredType DEF Answered
    <2> QED
      BY <1>1, <1>2, <2>1, RequestStep DEF AddMember, Answer, tables, TeamsInv, TypeOK
  <1>3. ASSUME ~(req[r].kind = "invite" /\ creator[req[r].team] = Nobody),
               member[req[r].team][Whom(req[r])] = "none",
               Goto(r, IF req[r].kind = "create" THEN "commit" ELSE "enqueue"),
               key' = [key EXCEPT ![Added(req[r])] = r]
        PROVE  TeamsInv'
    <2> DEFINE t == [req[r] EXCEPT !.pc = IF req[r].kind = "create" THEN "commit" ELSE "enqueue"]
    <2>1. /\ t \in Request /\ t.kind = req[r].kind /\ t.team = req[r].team /\ t.actor = req[r].actor
          /\ t.email = req[r].email /\ t.pc \in {"enqueue", "commit"}
          /\ t.pc = "enqueue" => t.kind = "invite"
      BY <1>1 DEF Request
    <2>2. \A q \in Requests : req'[q] = IF q = r THEN t ELSE req[q]
      BY <1>3 DEF TeamsInv, TypeOK, Goto
    <2>3. UNCHANGED <<users, creator, member, nextTeam, outboxVars, calls>>
      BY DEF AddMember
    <2>4. ReqOK(t)
      BY <1>1, <2>1 DEF TeamsInv, ReqInv, ReqOK
    <2> HIDE DEF t
    <2>5. \A p \in Pairs : key'[p] = IF p = Added(req[r]) THEN r ELSE key[p]
      BY <1>1, <1>3 DEF TeamsInv, TypeOK
    <2>6. Added(t) = Added(req[r]) /\ Whom(t) = Whom(req[r])
      BY <2>1 DEF Added, Whom
    <2>7. TypeOK'
      <3>1. req' \in [Requests -> Request]
        BY <1>3, <2>1 DEF TeamsInv, TypeOK, Goto, t
      <3> QED
        BY <1>3, <2>3, <3>1 DEF TeamsInv, TypeOK, outboxVars
    <2>8. ReqInv'
      BY <2>2, <2>3, <2>4 DEF TeamsInv, ReqInv, ReqOK
    <2>9. KeyInv'
      <3>1. ASSUME NEW q \in Requests, NEW p \in Pairs
            PROVE  key'[p] = q <=> req'[q].pc \in {"enqueue", "commit"} /\ Added(req'[q]) = p
        <4>1. CASE q = r
          <5>1. key[p] # r
            BY <1>1 DEF TeamsInv, KeyInv
          <5> QED
            BY <2>1, <2>2, <2>5, <2>6, <4>1, <5>1
        <4>2. CASE q # r
          <5>1. key[p] = q <=> req[q].pc \in {"enqueue", "commit"} /\ Added(req[q]) = p
            BY DEF TeamsInv, KeyInv
          <5>2. key[Added(req[r])] # q
            BY <1>1, NobodyAssumption
          <5> QED
            BY <2>2, <2>5, <4>2, <5>1, <5>2
        <4> QED
          BY <4>1, <4>2
      <3>2. ASSUME NEW q \in Requests, req'[q].pc \in {"enqueue", "commit"}
            PROVE  /\ member'[req'[q].team][Whom(req'[q])] = "none"
                   /\ req'[q].kind = "invite" => creator'[req'[q].team] # Nobody
        BY <1>3, <2>1, <2>2, <2>3, <2>6, <3>2 DEF TeamsInv, KeyInv
      <3> QED
        BY <3>1, <3>2 DEF KeyInv, Added, Whom
    <2>10. TeamInv'
      <3>1. \A q \in Requests : Founding(q)' = Founding(q) /\ req'[q].team = req[q].team
        BY <1>1, <2>1, <2>2 DEF Founding
      <3> QED
        BY <2>3, <3>1 DEF TeamsInv, TeamInv
    <2>11. MailInv'
      BY <2>3 DEF TeamsInv, MailInv, outboxVars
    <2> QED
      BY <2>7, <2>8, <2>9, <2>10, <2>11 DEF TeamsInv
  <1> QED
    BY <1>2, <1>3 DEF AddMember

(* The message is written in the same transaction: nothing is seen of it.  *)
LEMMA EnqueueTeams == ASSUME TeamsInv, NEW r \in Requests, Enqueue(r) PROVE TeamsInv'
  <1> DEFINE t == [req[r] EXCEPT !.pc = "commit"]
  <1>1. /\ req[r] \in Request /\ req[r].pc = "enqueue" /\ req[r].kind = "invite"
        /\ t \in Request /\ t.pc = "commit" /\ t.kind = "invite" /\ t.team = req[r].team
        /\ t.actor = req[r].actor /\ t.email = req[r].email
    <2>1. req[r] \in Request /\ req[r].pc = "enqueue"
      BY DEF TeamsInv, TypeOK, Enqueue
    <2>2. req[r].kind = "invite"
      BY <2>1 DEF TeamsInv, ReqInv, ReqOK
    <2>3. /\ t \in Request /\ t.pc = "commit" /\ t.kind = req[r].kind /\ t.team = req[r].team
          /\ t.actor = req[r].actor /\ t.email = req[r].email
      BY <2>1 DEF Request
    <2> QED
      BY <2>1, <2>2, <2>3
  <1>2. \A q \in Requests : req'[q] = IF q = r THEN t ELSE req[q]
    BY DEF TeamsInv, TypeOK, Enqueue, Goto
  <1>3. TypeOK'
    BY <1>1 DEF TeamsInv, TypeOK, Enqueue, Goto, tables, outboxVars
  <1> HIDE DEF t
  <1>4. ReqInv'
    BY <1>1, <1>2 DEF TeamsInv, ReqInv, ReqOK, Enqueue, tables
  <1>5. KeyInv'
    BY <1>1, <1>2 DEF TeamsInv, KeyInv, Enqueue, tables, Added, Whom
  <1>6. TeamInv'
    BY <1>1, <1>2 DEF TeamsInv, TeamInv, Founding, Enqueue, tables
  <1>7. MailInv'
    BY DEF TeamsInv, MailInv, Enqueue, tables, outboxVars
  <1> QED
    BY <1>3, <1>4, <1>5, <1>6, <1>7 DEF TeamsInv

(* The commit makes the membership and what belongs to it visible at once. *)
LEMMA StoredTeams ==
    ASSUME TeamsInv, NEW r \in Requests, NEW answer \in {"ok", "error"}, Stored(r, answer)
    PROVE  TeamsInv'
  <1> DEFINE q == req[r]
             t == q.team
             u == Whom(q)
  <1>1. /\ q \in Request /\ q.pc = "commit" /\ q.kind \in {"create", "invite"}
        /\ t \in TeamIds /\ u \in Emails /\ Added(q) = <<t, u>> /\ <<t, u>> \in Pairs
        /\ key[<<t, u>>] = r /\ member[t][u] = "none"
        /\ q.kind = "invite" => creator[t] # Nobody
        /\ q.kind = "create" => u = q.actor /\ t < nextTeam /\ creator[t] = Nobody
    <2>1. /\ q \in Request /\ q.pc = "commit" /\ q.kind \in {"create", "invite"}
          /\ t \in TeamIds /\ u \in Emails /\ Added(q) = <<t, u>> /\ <<t, u>> \in Pairs
      BY DEF TeamsInv, TypeOK, ReqInv, ReqOK, Stored, Request, Whom, Added, Pairs
    <2>2. /\ key[<<t, u>>] = r /\ member[t][u] = "none"
          /\ q.kind = "invite" => creator[t] # Nobody
      BY <2>1 DEF TeamsInv, KeyInv
    <2>3. q.kind = "create" => t < nextTeam /\ creator[t] = Nobody
      BY <2>1 DEF TeamsInv, TeamInv, Founding
    <2> QED
      BY <2>1, <2>2, <2>3 DEF Whom
  <1>2. Answered(answer) \in Request /\ ReqOK(Answered(answer)) /\ Answered(answer).pc = "idle"
    BY AnsweredType DEF Answered
  <1>3. \A p \in Requests : req'[p] = IF p = r THEN Answered(answer) ELSE req[p]
    BY DEF TeamsInv, TypeOK, Stored, Answer
  <1>4. \A p \in Pairs : key'[p] = IF key[p] = r THEN Nobody ELSE key[p]
    BY DEF Stored, Unlocked
  <1>5. /\ RoleGiven(q) \in Roles /\ RoleGiven(q) # "none"
        /\ RoleGiven(q) = "owner" <=> q.kind = "create"
        /\ RoleGiven(q) = "member" <=> q.kind = "invite"
    BY <1>1 DEF RoleGiven, Roles
  <1>6. /\ member' \in [TeamIds -> [Emails -> Roles]]
        /\ \A g \in TeamIds, e \in Emails :
              member'[g][e] = IF g = t /\ e = u THEN RoleGiven(q) ELSE member[g][e]
    BY <1>1, <1>5 DEF TeamsInv, TypeOK, Stored
  <1>7. /\ creator' \in [TeamIds -> Emails \cup {Nobody}]
        /\ \A g \in TeamIds : creator'[g] = IF q.kind = "create" /\ g = t THEN u ELSE creator[g]
    BY <1>1 DEF TeamsInv, TypeOK, Stored
  <1>8. UNCHANGED <<users, nextTeam, calls>>
    BY DEF Stored
  <1> HIDE DEF q, t, u
  <1>9. \A p \in Requests : p # r /\ req[p].pc \in {"enqueue", "commit"} =>
            ~(req[p].team = t /\ Whom(req[p]) = u)
    <2> SUFFICES ASSUME NEW p \in Requests, p # r, req[p].pc \in {"enqueue", "commit"},
                        req[p].team = t, Whom(req[p]) = u
                 PROVE  FALSE
      OBVIOUS
    <2>1. Added(req[p]) = <<t, u>>
      BY DEF Added
    <2> QED
      BY <1>1, <2>1 DEF TeamsInv, KeyInv
  <1>10. ReqInv'
    <2>1. \A p \in Requests : req[p] \in Request
      BY DEF TeamsInv, TypeOK
    <2>2. ASSUME NEW p \in Requests, p # r PROVE ReqOK(req[p])'
      <3>1. ReqOK(req[p]) /\ req'[p] = req[p] /\ req[p].actor \in Emails
        BY <1>3, <2>1, <2>2 DEF TeamsInv, ReqInv, Request
      <3>2. req[p].team \in TeamIds =>
                member'[req[p].team][req[p].actor] = member[req[p].team][req[p].actor]
                \/ member[req[p].team][req[p].actor] = "none"
        BY <1>1, <1>6, <3>1
      <3> QED
        BY <1>8, <3>1, <3>2 DEF ReqOK
    <2>3. ReqOK(req[r])'
      BY <1>2, <1>3 DEF ReqOK, Answered
    <2> QED
      BY <2>2, <2>3 DEF ReqInv
  <1>11. KeyInv'
    <2>1. ASSUME NEW p \in Requests, NEW x \in Pairs
          PROVE  key'[x] = p <=> req'[p].pc \in {"enqueue", "commit"} /\ Added(req'[p]) = x
      <3>1. key[x] = p <=> req[p].pc \in {"enqueue", "commit"} /\ Added(req[p]) = x
        BY DEF TeamsInv, KeyInv
      <3> QED
        BY <1>2, <1>3, <1>4, <3>1, NobodyAssumption
    <2>2. ASSUME NEW p \in Requests, req'[p].pc \in {"enqueue", "commit"}
          PROVE  /\ member'[req'[p].team][Whom(req'[p])] = "none"
                 /\ req'[p].kind = "invite" => creator'[req'[p].team] # Nobody
      <3>1. p # r /\ req'[p] = req[p]
        BY <1>2, <1>3, <2>2
      <3>2. /\ req[p].team \in TeamIds /\ Whom(req[p]) \in Emails
            /\ member[req[p].team][Whom(req[p])] = "none"
            /\ req[p].kind = "invite" => creator[req[p].team] # Nobody
        <4>1. req[p] \in Request /\ ReqOK(req[p])
          BY DEF TeamsInv, TypeOK, ReqInv
        <4>2. req[p].team \in TeamIds /\ Whom(req[p]) \in Emails
          BY <2>2, <3>1, <4>1 DEF ReqOK, Request, Whom
        <4> QED
          BY <2>2, <3>1, <4>2 DEF TeamsInv, KeyInv
      <3> QED
        BY <1>1, <1>6, <1>7, <1>9, <2>2, <3>1, <3>2, NobodyAssumption
    <2> QED
      BY <2>1, <2>2 DEF KeyInv, Added, Whom
  <1>12. TeamInv'
    <2>1. \A g \in TeamIds :
              /\ g >= nextTeam => creator[g] = Nobody
              /\ creator[g] = Nobody => \A e \in Emails : member[g][e] = "none"
              /\ \A e \in Emails : member[g][e] = "owner" <=> creator[g] = e
      BY DEF TeamsInv, TeamInv
    <2>2. ASSUME NEW g \in TeamIds
          PROVE  /\ g >= nextTeam' => creator'[g] = Nobody
                 /\ creator'[g] = Nobody => \A e \in Emails : member'[g][e] = "none"
                 /\ \A e \in Emails : member'[g][e] = "owner" <=> creator'[g] = e
      <3>1. g = t /\ q.kind = "create" => ~(g >= nextTeam)
        BY <1>1 DEF TeamsInv, TypeOK, TeamIds
      <3>2. nextTeam' = nextTeam
        BY <1>8
      <3>3. CASE q.kind = "create"
        BY <1>1, <1>5, <1>6, <1>7, <2>1, <3>1, <3>2, <3>3, NobodyAssumption, SMTT(30)
      <3>4. CASE q.kind = "invite"
        <4>1. creator'[g] = creator[g] /\ creator[t] # Nobody
          BY <1>1, <1>7, <3>4
        <4>2. creator[g] = Nobody => \A e \in Emails : member'[g][e] = "none"
          BY <1>6, <2>1, <4>1
        <4>3. \A e \in Emails : member'[g][e] = "owner" <=> member[g][e] = "owner"
          BY <1>1, <1>5, <1>6, <3>4
        <4> QED
          BY <2>1, <3>2, <4>1, <4>2, <4>3
      <3> QED
        BY <1>1, <3>3, <3>4
    <2>3. \A p \in Requests : Founding(p)' => p # r /\ Founding(p) /\ req'[p] = req[p]
      BY <1>2, <1>3 DEF Founding
    <2>4. ASSUME NEW p \in Requests, Founding(p)'
          PROVE  req'[p].team < nextTeam' /\ creator'[req'[p].team] = Nobody
      <3>1. /\ req[p].team < nextTeam /\ creator[req[p].team] = Nobody
            /\ req[p].team \in TeamIds
        BY <2>3, <2>4 DEF TeamsInv, TeamInv, ReqInv, ReqOK, Founding
      <3>2. q.kind = "create" => req[p].team # t
        BY <1>1, <2>3, <2>4 DEF TeamsInv, TeamInv, Founding, q, t
      <3> QED
        BY <1>1, <1>7, <1>8, <2>3, <2>4, <3>1, <3>2
    <2>5. \A p, x \in Requests : Founding(p)' /\ Founding(x)' /\ p # x => req'[p].team # req'[x].team
      BY <2>3 DEF TeamsInv, TeamInv
    <2> QED
      BY <2>2, <2>4, <2>5 DEF TeamInv
  <1>13. CASE q.kind = "create"
    <2>1. UNCHANGED outboxVars
      BY <1>13 DEF Stored, q
    <2>2. TypeOK'
      BY <1>2, <1>3, <1>6, <1>7, <1>8, <2>1
      DEF TeamsInv, TypeOK, Stored, Unlocked, Answer, outboxVars
    <2>3. MailInv'
      <3>1. \A g \in TeamIds, e \in Emails :
                member'[g][e] \in {"none", "owner"} <=> member[g][e] \in {"none", "owner"}
        BY <1>1, <1>5, <1>6, <1>13
      <3> QED
        BY <2>1, <3>1, ZenonT(60) DEF TeamsInv, MailInv, outboxVars
    <2> QED
      BY <1>10, <1>11, <1>12, <2>2, <2>3 DEF TeamsInv
  <1>14. CASE q.kind = "invite"
    <2>1. PICK m \in MailIds : /\ mail[m] = "none" /\ Box!Commit(m)
                               /\ envelope' = [envelope EXCEPT ![m] = <<t, u>>]
      BY <1>1, <1>14 DEF Stored, FreeMails, q
    <2>2. /\ mail' = [mail EXCEPT ![m] = "pending"] /\ UNCHANGED <<attempts, deliveries>>
          /\ mail' \in [MailIds -> {"none", "pending", "failed", "deleted"}]
          /\ envelope' \in [MailIds -> Pairs \cup {<<>>}]
      BY <1>1, <2>1 DEF Box!Commit, TeamsInv, TypeOK
    <2>3. TypeOK'
      BY <1>2, <1>3, <1>6, <1>7, <1>8, <2>2 DEF TeamsInv, TypeOK, Stored, Unlocked, Answer
    <2>4. MailInv'
      <3>1. /\ mail[m] = "none" /\ envelope[m] = <<>>
            /\ \A n \in MailIds : /\ mail'[n] = IF n = m THEN "pending" ELSE mail[n]
                                  /\ envelope'[n] = IF n = m THEN <<t, u>> ELSE envelope[n]
        BY <2>1, <2>2 DEF TeamsInv, MailInv, TypeOK
      <3>2. \A n \in MailIds : mail'[n] = "none" <=> envelope'[n] = <<>>
        BY <3>1 DEF TeamsInv, MailInv
      <3>3. ASSUME NEW g \in TeamIds, NEW e \in Emails
            PROVE  IF member'[g][e] \in {"none", "owner"}
                   THEN \A n \in MailIds : envelope'[n] # <<g, e>>
                   ELSE \E n \in MailIds : /\ envelope'[n] = <<g, e>>
                                           /\ \A k \in MailIds : envelope'[k] = <<g, e>> => k = n
        <4>1. IF member[g][e] \in {"none", "owner"}
              THEN \A n \in MailIds : envelope[n] # <<g, e>>
              ELSE \E n \in MailIds : /\ envelope[n] = <<g, e>>
                                      /\ \A k \in MailIds : envelope[k] = <<g, e>> => k = n
          BY DEF TeamsInv, MailInv
        <4>2. CASE g = t /\ e = u
          <5>1. \A n \in MailIds : envelope[n] # <<t, u>>
            BY <1>1, <4>1, <4>2
          <5>2. /\ envelope'[m] = <<t, u>>
                /\ \A k \in MailIds : envelope'[k] = <<t, u>> => k = m
            BY <3>1, <5>1
          <5>3. member'[t][u] = "member"
            BY <1>1, <1>5, <1>6, <1>14
          <5> QED
            BY <4>2, <5>2, <5>3
        <4>3. CASE ~(g = t /\ e = u)
          <5>1. <<g, e>> # <<t, u>> /\ member'[g][e] = member[g][e] /\ <<g, e>> # <<>>
            BY <1>6, <4>3
          <5>2. m \in MailIds /\ envelope[m] # <<g, e>>
            BY <3>1, <5>1
          <5>3. \A n \in MailIds : envelope'[n] = <<g, e>> <=> envelope[n] = <<g, e>>
            BY <3>1, <5>1, <5>2
          <5>4. CASE member[g][e] \in {"none", "owner"}
            BY <4>1, <5>1, <5>3, <5>4
          <5>5. CASE member[g][e] \notin {"none", "owner"}
            <6>1. PICK n \in MailIds : /\ envelope[n] = <<g, e>>
                                       /\ \A k \in MailIds : envelope[k] = <<g, e>> => k = n
              BY <4>1, <5>5
            <6>2. envelope'[n] = <<g, e>> /\ \A k \in MailIds : envelope'[k] = <<g, e>> => k = n
              BY <5>3, <6>1
            <6> QED
              BY <5>1, <5>5, <6>2
          <5> QED
            BY <5>4, <5>5
        <4> QED
          BY <4>2, <4>3
      <3> QED
        BY <3>2, <3>3 DEF MailInv
    <2> QED
      BY <1>10, <1>11, <1>12, <2>3, <2>4 DEF TeamsInv
  <1> QED
    BY <1>1, <1>13, <1>14

LEMMA CommitTeams ==
    ASSUME TeamsInv, NEW r \in Requests, Commit(r) \/ CommitLost(r)
    PROVE  TeamsInv'
  <1> QED
    BY StoredTeams DEF Commit, CommitLost

(* What the relay does with committed messages touches no membership.      *)
LEMMA RelayTeams == ASSUME TeamsInv, Relay PROVE TeamsInv'
  <1>1. UNCHANGED <<users, creator, member, nextTeam, key, envelope, req, calls>>
    BY DEF Relay, tables
  <1> DEFINE Kept ==
                /\ mail' \in [MailIds -> {"none", "pending", "failed", "deleted"}]
                /\ attempts' \in [MailIds -> 0 .. MaxAttempts]
                /\ deliveries' \in [MailIds -> Nat]
                /\ \A m \in MailIds : mail'[m] = "none" <=> mail[m] = "none"
  <1>2. Kept
    <2>1. ASSUME NEW m \in MailIds, Box!Deliver({m}) PROVE Kept
      BY <2>1 DEF Box!Deliver, TeamsInv, TypeOK
    <2>2. ASSUME NEW D, NEW R, NEW F, Box!Resolve(D, R, F) PROVE Kept
      <3>1. \A m \in MailIds : attempts[m] \in 0 .. MaxAttempts
        BY DEF TeamsInv, TypeOK
      <3>2. \A m \in MailIds : m \in R \cup F => attempts[m] + 1 \in 0 .. MaxAttempts
        BY <2>2, <3>1, BoundsAssumption DEF Box!Resolve
      <3>3. attempts' \in [MailIds -> 0 .. MaxAttempts]
        BY <2>2, <3>1, <3>2 DEF Box!Resolve
      <3>4. /\ mail' \in [MailIds -> {"none", "pending", "failed", "deleted"}]
            /\ \A m \in MailIds : mail'[m] = "none" <=> mail[m] = "none"
        BY <2>2 DEF Box!Resolve, TeamsInv, TypeOK
      <3>5. deliveries' \in [MailIds -> Nat]
        BY <2>2 DEF Box!Resolve, TeamsInv, TypeOK
      <3> QED
        BY <3>3, <3>4, <3>5
    <2> QED
      BY <2>1, <2>2 DEF Relay
  <1>3. TypeOK'
    BY <1>1, <1>2 DEF TeamsInv, TypeOK
  <1>4. ReqInv' /\ KeyInv' /\ TeamInv'
    BY <1>1 DEF TeamsInv, ReqInv, ReqOK, KeyInv, TeamInv, Founding, Added, Whom
  <1>5. MailInv'
    <2>1. \A m \in MailIds : mail'[m] = "none" <=> envelope'[m] = <<>>
      BY <1>1, <1>2 DEF TeamsInv, MailInv
    <2> QED
      BY <1>1, <2>1 DEF TeamsInv, MailInv
  <1> QED
    BY <1>3, <1>4, <1>5 DEF TeamsInv

(* A call begins.                                                          *)
LEMMA BeginTeams ==
    ASSUME TeamsInv, NEW r \in Requests, NEW u \in Emails, NEW e \in Emails, NEW t \in 0 .. MaxTeams,
           \/ Begin(r, "insert", "create", u, t, e)
           \/ Begin(r, "role", "invite", u, t, e) /\ t \in TeamIds
           \/ Begin(r, "grant", "grant", u, t, e)
    PROVE  TeamsInv'
  <1>1. PICK pc \in {"insert", "role", "grant"}, kind \in Kinds :
            /\ Begin(r, pc, kind, u, t, e)
            /\ pc = "insert" => kind = "create"
            /\ pc = "role" => kind = "invite" /\ t \in TeamIds
            /\ pc = "grant" => kind = "grant"
    BY DEF Kinds
  <1> DEFINE q == [pc |-> pc, kind |-> kind, actor |-> u, team |-> t, email |-> e, answer |-> "none"]
  <1>2. q \in Request /\ ReqOK(q) /\ q.pc \in {"insert", "role", "grant"}
    BY <1>1 DEF Request, ReqOK
  <1>3. req[r].pc = "idle" /\ req' = [req EXCEPT ![r] = q] /\ UNCHANGED <<tables, outboxVars>>
    BY <1>1 DEF Begin
  <1>4. calls' \in 0 .. MaxCalls
    BY <1>1, BoundsAssumption DEF Begin, TeamsInv, TypeOK
  <1> QED
    BY <1>2, <1>3, <1>4, RequestStep

(* Every step keeps the invariant.                                         *)
LEMMA NextTeams == TeamsInv /\ [Next]_vars => TeamsInv'
  <1> SUFFICES ASSUME TeamsInv, [Next]_vars PROVE TeamsInv'
    OBVIOUS
  <1>1. CASE Register
    <2>1. PICK e \in Emails : InsertUser(e)
      BY <1>1 DEF Register
    <2>2. req' \in [Requests -> Request]
      BY <1>1 DEF Register, TeamsInv, TypeOK
    <2> QED
      BY <1>1, <2>1, <2>2, AccountStep DEF Register, InsertUser
  <1>2. CASE Relay
    BY <1>2, RelayTeams
  <1>3. ASSUME NEW r \in Requests, createHandler(r) \/ inviteHandler(r) \/ grantAdmin(r)
        PROVE  TeamsInv'
    <2>1. SomeEmail \in Emails /\ 0 \in 0 .. MaxTeams /\ Accounts \subseteq Emails
          /\ TeamIds \subseteq 0 .. MaxTeams
      BY EmailsAssumption, BoundsAssumption DEF SomeEmail, Accounts, TeamIds
    <2> QED
      BY <1>3, <2>1, BeginTeams DEF createHandler, inviteHandler, grantAdmin
  <1>4. ASSUME NEW r \in Requests, InsertTeam(r) \/ AddMember(r) \/ Enqueue(r) \/ Commit(r) \/ CommitLost(r) \/ Abort(r)
        PROVE  TeamsInv'
    BY <1>4, InsertTeamTeams, AddMemberTeams, EnqueueTeams, CommitTeams, AbortTeams
  <1>5. ASSUME NEW r \in Requests, NEW answer \in {"none", "ok", "conflict", "forbidden", "not found", "error"},
               req[r].pc \in {"role", "lookup", "recheck"}, Answer(r, answer),
               UNCHANGED <<tables, outboxVars, calls>>
        PROVE  TeamsInv'
    <2>1. Answered(answer) \in Request /\ ReqOK(Answered(answer)) /\ Answered(answer).pc = "idle"
      BY AnsweredType DEF Answered
    <2>2. calls' \in 0 .. MaxCalls
      BY <1>5 DEF TeamsInv, TypeOK
    <2> QED
      BY <1>5, <2>1, <2>2, RequestStep DEF Answer
  <1>6. ASSUME NEW r \in Requests, Authorize(r) PROVE TeamsInv'
    <2> DEFINE verdict == RequireTeamRole(req[r].actor, req[r].team, "admin")
               t == [req[r] EXCEPT !.pc = "lookup"]
    <2>1. verdict \in {"ok", "not found", "forbidden"}
      BY DEF RequireTeamRole
    <2>2. /\ req[r] \in Request /\ req[r].pc = "role" /\ req[r].kind = "invite"
          /\ req[r].team \in TeamIds /\ req[r].actor \in Emails
      BY <1>6 DEF TeamsInv, TypeOK, ReqInv, ReqOK, Authorize, Request
    <2>3. CASE verdict = "ok"
      <3>1. users[req[r].actor] = "admin" \/ member[req[r].team][req[r].actor] \in {"admin", "owner"}
        <4>1. member[req[r].team][req[r].actor] \in Roles
          BY <2>2 DEF TeamsInv, TypeOK
        <4> QED
          BY <2>3, <4>1 DEF RequireTeamRole, MemberRole, AtLeast, Rank, Roles
      <3>2. t \in Request /\ ReqOK(t) /\ t.pc = "lookup"
        BY <2>2, <3>1 DEF Request, ReqOK
      <3>3. req' = [req EXCEPT ![r] = t] /\ UNCHANGED <<tables, outboxVars, calls>>
        BY <1>6, <2>3 DEF Authorize, Goto
      <3>4. calls' \in 0 .. MaxCalls
        BY <3>3 DEF TeamsInv, TypeOK
      <3> QED
        BY <2>2, <3>2, <3>3, <3>4, RequestStep
    <2>4. CASE verdict # "ok"
      BY <1>5, <1>6, <2>1, <2>2, <2>4 DEF Authorize
    <2> QED
      BY <2>3, <2>4
  <1>7. ASSUME NEW r \in Requests, Lookup(r) PROVE TeamsInv'
    <2> DEFINE t == [req[r] EXCEPT !.pc = "add"]
    <2>1. req[r] \in Request /\ ReqOK(req[r]) /\ req[r].pc = "lookup" /\ req[r].kind = "invite"
      BY <1>7 DEF TeamsInv, TypeOK, ReqInv, ReqOK, Lookup
    <2>2. t \in Request /\ ReqOK(t) /\ t.pc = "add" /\ t.kind = "invite"
      BY <2>1 DEF Request, ReqOK
    <2>3. calls' \in 0 .. MaxCalls
      BY <1>7 DEF Lookup, TeamsInv, TypeOK
    <2>4. CASE req' = [req EXCEPT ![r] = t]
      BY <1>7, <2>1, <2>2, <2>3, <2>4, RequestStep DEF Lookup
    <2>5. CASE Answer(r, "not found")
      BY <1>5, <1>7, <2>1, <2>5 DEF Lookup
    <2> QED
      BY <1>7, <2>4, <2>5 DEF Lookup, Goto
  <1>8. ASSUME NEW r \in Requests, GrantRechecks(r) PROVE TeamsInv'
    BY <1>5, <1>8 DEF GrantRechecks
  <1>9. ASSUME NEW r \in Requests, GrantAdmin(r) PROVE TeamsInv'
    <2> DEFINE t == [req[r] EXCEPT !.pc = "recheck"]
    <2>1. /\ req[r] \in Request /\ req[r].pc = "grant" /\ req[r].kind = "grant"
          /\ req[r].email \in Emails
      BY <1>9 DEF TeamsInv, TypeOK, ReqInv, ReqOK, GrantAdmin, Request
    <2>2. CASE users[req[r].email] = "user"
      <3>1. PICK answer \in {"ok", "error"} : Answer(r, answer)
        BY <1>9, <2>2 DEF GrantAdmin
      <3>2. Answered(answer) \in Request /\ Answered(answer).pc = "idle"
        BY AnsweredType DEF Answered
      <3>3. /\ req' \in [Requests -> Request]
            /\ \A q \in Requests : req'[q] = IF q = r THEN Answered(answer) ELSE req[q]
        BY <3>1, <3>2 DEF Answer, TeamsInv, TypeOK
      <3> QED
        BY <1>9, <2>1, <2>2, <3>2, <3>3, AccountStep DEF GrantAdmin
    <2>3. CASE users[req[r].email] # "user"
      <3>1. t \in Request /\ ReqOK(t) /\ t.pc = "recheck"
        BY <2>1 DEF Request, ReqOK
      <3>2. req' = [req EXCEPT ![r] = t] /\ UNCHANGED <<tables, outboxVars, calls>>
        BY <1>9, <2>3 DEF GrantAdmin, Goto, tables
      <3>3. calls' \in 0 .. MaxCalls
        BY <3>2 DEF TeamsInv, TypeOK
      <3> QED
        BY <2>1, <3>1, <3>2, <3>3, RequestStep
    <2> QED
      BY <2>2, <2>3
  <1>10. CASE UNCHANGED vars
    <2>1. TypeOK'
      BY <1>10 DEF vars, tables, outboxVars, TeamsInv, TypeOK
    <2>3. MailInv'
      BY <1>10 DEF vars, tables, outboxVars, TeamsInv, MailInv
    <2>2. ReqInv' /\ KeyInv' /\ TeamInv'
      BY <1>10 DEF vars, tables, outboxVars, TeamsInv, ReqInv, ReqOK, KeyInv, TeamInv, Founding,
                   Added, Whom
    <2> QED
      BY <2>1, <2>2, <2>3 DEF TeamsInv
  <1> QED
    BY <1>1, <1>2, <1>3, <1>4, <1>6, <1>7, <1>8, <1>9, <1>10 DEF Next

(* In every reachable state the tables, the open transactions and the      *)
(* requests of Teams fit together as TeamsInv says.                        *)
THEOREM TeamsInvariant == Spec => []TeamsInv
  <1> QED
    BY InitTeams, NextTeams, PTL DEF Spec

(* The tables and the requests keep their types.                           *)
THEOREM TeamsTyped == Spec => []TypeOK
  <1>1. TeamsInv => TypeOK
    BY DEF TeamsInv
  <1> QED
    BY <1>1, TeamsInvariant, PTL

(* Invite writes the membership and its e-mail in one transaction: there   *)
(* is one message per membership by invitation and none for any other      *)
(* pair, and a team has exactly its creator as owner.                      *)
THEOREM OneInvitationEach == Spec => []MembershipsAccountedFor
  <1>1. TeamsInv => MembershipsAccountedFor
    <2> SUFFICES ASSUME TeamsInv PROVE MembershipsAccountedFor
      OBVIOUS
    <2>1. ASSUME NEW t \in TeamIds, NEW u \in Emails
          PROVE  Cardinality(Invitations(t, u)) = IF member[t][u] \in {"none", "owner"} THEN 0 ELSE 1
      <3>1. CASE member[t][u] \in {"none", "owner"}
        <4>1. Invitations(t, u) = {}
          BY <3>1 DEF TeamsInv, MailInv, Invitations
        <4> QED
          BY <3>1, <4>1, FS_EmptySet
      <3>2. CASE member[t][u] \notin {"none", "owner"}
        <4>1. PICK m \in MailIds : /\ envelope[m] = <<t, u>>
                                   /\ \A n \in MailIds : envelope[n] = <<t, u>> => n = m
          BY <3>2 DEF TeamsInv, MailInv
        <4>2. Invitations(t, u) = {m}
          BY <4>1 DEF Invitations
        <4> QED
          BY <3>2, <4>2, FS_Singleton
      <3> QED
        BY <3>1, <3>2
    <2>2. ASSUME NEW t \in TeamIds
          PROVE  {u \in Emails : member[t][u] = "owner"} = {creator[t]} \ {Nobody}
      <3>1. creator[t] \in Emails \cup {Nobody}
        BY DEF TeamsInv, TypeOK
      <3>2. \A u \in Emails : member[t][u] = "owner" <=> creator[t] = u
        BY DEF TeamsInv, TeamInv
      <3> QED
        BY <3>1, <3>2, NobodyAssumption
    <2> QED
      BY <2>1, <2>2 DEF MembershipsAccountedFor
  <1> QED
    BY <1>1, TeamsInvariant, PTL

(* What a commit does to the memberships: it adds one that was not there.  *)
LEMMA CommitAdds ==
    ASSUME TeamsInv, NEW r \in Requests, NEW answer, Stored(r, answer)
    PROVE  LET q == req[r]
           IN  /\ q.team \in TeamIds /\ Whom(q) \in Emails /\ member[q.team][Whom(q)] = "none"
               /\ q.kind \in {"create", "invite"} /\ q.pc = "commit"
               /\ \A t \in TeamIds, u \in Emails :
                     member'[t][u] = IF t = q.team /\ u = Whom(q) THEN RoleGiven(q) ELSE member[t][u]
  <1>1. /\ req[r].pc = "commit" /\ req[r].team \in TeamIds /\ Whom(req[r]) \in Emails
        /\ req[r].kind \in {"create", "invite"}
    BY DEF TeamsInv, TypeOK, ReqInv, ReqOK, Stored, Request, Whom
  <1>2. member[req[r].team][Whom(req[r])] = "none"
    BY <1>1 DEF TeamsInv, KeyInv
  <1>3. \A t \in TeamIds, u \in Emails :
            member'[t][u] = IF t = req[r].team /\ u = Whom(req[r]) THEN RoleGiven(req[r])
                            ELSE member[t][u]
    BY <1>1 DEF Stored, TeamsInv, TypeOK
  <1> QED
    BY <1>1, <1>2, <1>3

(* Nothing but a commit touches the memberships.                           *)
LEMMA OnlyCommitAdds ==
    ASSUME TeamsInv, [Next]_vars
    PROVE  UNCHANGED member \/ \E r \in Requests : \E answer : Stored(r, answer)
  <1>1. CASE UNCHANGED vars
    BY <1>1 DEF vars, tables
  <1>2. CASE Register \/ Relay
    BY <1>2 DEF Register, Relay, tables
  <1>3. ASSUME NEW r \in Requests, createHandler(r) \/ inviteHandler(r) \/ grantAdmin(r)
        PROVE  UNCHANGED member
    BY <1>3 DEF createHandler, inviteHandler, grantAdmin, Begin, tables
  <1>4. ASSUME NEW r \in Requests,
               \/ InsertTeam(r) \/ Authorize(r) \/ Lookup(r) \/ AddMember(r)
               \/ Enqueue(r) \/ Abort(r) \/ GrantAdmin(r) \/ GrantRechecks(r)
        PROVE  UNCHANGED member
    BY <1>4 DEF InsertTeam, Authorize, Lookup, AddMember, Enqueue, Abort, GrantAdmin,
                GrantRechecks, tables
  <1> QED
    BY <1>1, <1>2, <1>3, <1>4 DEF Next, Commit, CommitLost

(* AddMember refuses a pair that is there and holds the index entry until  *)
(* the commit, so a role in a team is never overwritten; GrantAdmin only   *)
(* ever promotes, and nobody registers over an account.                    *)
THEOREM RolesAreKept == Spec => RolesOnlyGained
  <1>1. TeamsInv /\ [Next]_vars =>
            [/\ \A t \in TeamIds, u \in Emails : member[t][u] # "none" => member'[t][u] = member[t][u]
             /\ \A u \in Emails : users[u] = "admin" => users'[u] = "admin"]_vars
    <2> SUFFICES ASSUME TeamsInv, [Next]_vars
                 PROVE  /\ \A t \in TeamIds, u \in Emails :
                              member[t][u] # "none" => member'[t][u] = member[t][u]
                        /\ \A u \in Emails : users[u] = "admin" => users'[u] = "admin"
      OBVIOUS
    <2>1. \A t \in TeamIds, u \in Emails : member[t][u] # "none" => member'[t][u] = member[t][u]
      BY OnlyCommitAdds, CommitAdds
    <2>2. ASSUME NEW u \in Emails, users[u] = "admin" PROVE users'[u] = "admin"
      <3>1. users \in [Emails -> {"none", "user", "admin"}]
        BY DEF TeamsInv, TypeOK
      <3>2. CASE UNCHANGED vars
        BY <2>2, <3>2 DEF vars, tables
      <3>3. CASE Register
        BY <2>2, <3>1, <3>3 DEF Register, InsertUser
      <3>4. CASE Relay
        BY <2>2, <3>4 DEF Relay, tables
      <3>5. ASSUME NEW r \in Requests, createHandler(r) \/ inviteHandler(r) \/ grantAdmin(r)
            PROVE  UNCHANGED users
        BY <3>5 DEF createHandler, inviteHandler, grantAdmin, Begin, tables
      <3>6. ASSUME NEW r \in Requests,
                   \/ InsertTeam(r) \/ Authorize(r) \/ Lookup(r) \/ AddMember(r)
                   \/ Enqueue(r) \/ Commit(r) \/ CommitLost(r) \/ Abort(r) \/ GrantRechecks(r)
            PROVE  UNCHANGED users
        BY <3>6 DEF InsertTeam, Authorize, Lookup, AddMember, Enqueue, Commit, CommitLost, Stored,
                    Abort, GrantRechecks, tables
      <3>7. ASSUME NEW r \in Requests, GrantAdmin(r) PROVE users'[u] = "admin"
        BY <2>2, <3>1, <3>7 DEF GrantAdmin
      <3> QED
        BY <2>2, <3>2, <3>3, <3>4, <3>5, <3>6, <3>7 DEF Next
    <2> QED
      BY <2>1, <2>2
  <1> QED
    BY <1>1, TeamsInvariant, PTL DEF Spec, RolesOnlyGained

(* The authorizer's verdict is taken before the transaction begins; what   *)
(* it found is still true when the membership appears.                     *)
THEOREM InvitersAreEntitled == Spec => InvitedByAdmin
  <1>1. TeamsInv /\ [Next]_vars =>
            [\A t \in TeamIds, u \in Emails : member[t][u] = "none" /\ member'[t][u] = "member" =>
                \E r \in Requests :
                    /\ req[r].pc = "commit" /\ Added(req[r]) = <<t, u>>
                    /\ users[req[r].actor] = "admin" \/ member[t][req[r].actor] \in {"admin", "owner"}]_vars
    <2> SUFFICES ASSUME TeamsInv, [Next]_vars, NEW t \in TeamIds, NEW u \in Emails,
                        member[t][u] = "none", member'[t][u] = "member"
                 PROVE  \E r \in Requests :
                            /\ req[r].pc = "commit" /\ Added(req[r]) = <<t, u>>
                            /\ \/ users[req[r].actor] = "admin"
                               \/ member[t][req[r].actor] \in {"admin", "owner"}
      OBVIOUS
    <2>1. PICK r \in Requests : \E answer : Stored(r, answer)
      BY OnlyCommitAdds
    <2>2. /\ req[r].pc = "commit" /\ t = req[r].team /\ u = Whom(req[r])
          /\ RoleGiven(req[r]) = "member" /\ req[r].kind \in {"create", "invite"}
      BY <2>1, CommitAdds
    <2>3. req[r].kind = "invite" /\ Added(req[r]) = <<t, u>>
      BY <2>2 DEF RoleGiven, Added
    <2> QED
      BY <2>2, <2>3 DEF TeamsInv, ReqInv, ReqOK
  <1> QED
    BY <1>1, TeamsInvariant, PTL DEF Spec, InvitedByAdmin

(* A request to create a team or to invite is answered "ok" only by the    *)
(* step that makes its membership visible, a refusal comes with no change, *)
(* and "conflict" only where the membership was already there.             *)
THEOREM AnswersAreTrue == Spec => InviteAnswers
  <1>1. TeamsInv /\ [Next]_vars =>
            [\A r \in Requests :
                req[r].kind \in {"create", "invite"} /\ req[r].pc # "idle" /\ req'[r].pc = "idle" =>
                    AnswerHolds(r)]_vars
    <2> SUFFICES ASSUME TeamsInv, [Next]_vars, NEW r \in Requests,
                        req[r].kind \in {"create", "invite"}, req[r].pc # "idle", req'[r].pc = "idle"
                 PROVE  AnswerHolds(r)
      OBVIOUS
    <2>1. /\ req \in [Requests -> Request] /\ req[r] \in Request
          /\ ReqOK(req[r])
      BY DEF TeamsInv, TypeOK, ReqInv
    <2>2. ASSUME NEW p \in Requests, NEW t, req' = [req EXCEPT ![p] = t] PROVE p = r /\ req'[r] = t
      BY <2>1, <2>2
    <2>3. ASSUME NEW p \in Requests, NEW answer, Answer(p, answer)
          PROVE  p = r /\ req'[r].answer = answer
      BY <2>2, <2>3 DEF Answer, Answered
    <2>4. ASSUME NEW p \in Requests, NEW pc, Goto(p, pc), pc # "idle" PROVE FALSE
      <3>1. req'[r].pc = IF p = r THEN pc ELSE req[r].pc
        BY <2>1, <2>4 DEF Goto, Request
      <3> QED
        BY <2>4, <3>1
    <2>5. CASE UNCHANGED req
      BY <2>5
    <2>6. CASE Register \/ Relay
      BY <2>5, <2>6 DEF Register, Relay
    <2>7. ASSUME NEW p \in Requests, createHandler(p) \/ inviteHandler(p) \/ grantAdmin(p) PROVE FALSE
      <3>1. PICK t : req' = [req EXCEPT ![p] = t] /\ req[p].pc = "idle"
        BY <2>7 DEF createHandler, inviteHandler, grantAdmin, Begin
      <3> QED
        BY <2>2, <3>1
    <2>8. ASSUME NEW p \in Requests, InsertTeam(p) PROVE FALSE
      <3>1. req'[r].pc = IF p = r THEN "add" ELSE req[r].pc
        BY <2>1, <2>8 DEF InsertTeam, Request
      <3> QED
        BY <3>1
    <2>9. ASSUME NEW p \in Requests, Authorize(p)
          PROVE  req'[r].answer \in {"not found", "forbidden"} /\ UNCHANGED member
      <3>1. RequireTeamRole(req[p].actor, req[p].team, "admin") \in {"ok", "not found", "forbidden"}
        BY DEF RequireTeamRole
      <3> QED
        BY <2>3, <2>4, <2>9, <3>1 DEF Authorize, tables
    <2>10. ASSUME NEW p \in Requests, Lookup(p)
           PROVE  req'[r].answer = "not found" /\ UNCHANGED member
      BY <2>3, <2>4, <2>10 DEF Lookup, tables
    <2>11. ASSUME NEW p \in Requests, AddMember(p)
           PROVE  /\ UNCHANGED member
                  /\ \/ req'[r].answer = "not found"
                     \/ /\ req'[r].answer = "conflict"
                        /\ member[req[r].team][Whom(req[r])] # "none"
      BY <2>3, <2>4, <2>11 DEF AddMember
    <2>12. ASSUME NEW p \in Requests, Enqueue(p) PROVE FALSE
      BY <2>4, <2>12 DEF Enqueue
    <2>13. ASSUME NEW p \in Requests, NEW answer, Stored(p, answer)
           PROVE  /\ req'[r].answer = answer /\ member' # member
                  /\ member[req[r].team][Whom(req[r])] = "none"
      <3>1. p = r /\ req'[r].answer = answer
        BY <2>3, <2>13 DEF Stored
      <3>2. RoleGiven(req[p]) # "none"
        BY DEF RoleGiven
      <3> QED
        BY <2>13, <3>1, <3>2, CommitAdds
    <2>14. ASSUME NEW p \in Requests, Abort(p) PROVE req'[r].answer = "error" /\ UNCHANGED member
      BY <2>3, <2>14 DEF Abort
    <2>15. ASSUME NEW p \in Requests, GrantAdmin(p) PROVE FALSE
      <3>1. p = r
        BY <2>3, <2>4, <2>15 DEF GrantAdmin
      <3> QED
        BY <2>1, <2>15, <3>1 DEF GrantAdmin, ReqOK
    <2>16. ASSUME NEW p \in Requests, GrantRechecks(p) PROVE FALSE
      <3>1. p = r
        BY <2>3, <2>16 DEF GrantRechecks
      <3> QED
        BY <2>1, <2>16, <3>1 DEF GrantRechecks, ReqOK
    <2>17. CASE UNCHANGED vars
      BY <2>5, <2>17 DEF vars
    <2>18. ASSUME NEW p \in Requests, Commit(p) \/ CommitLost(p) PROVE AnswerHolds(r)
      <3>1. PICK answer \in {"ok", "error"} : Stored(p, answer)
        BY <2>18 DEF Commit, CommitLost
      <3>2. /\ req'[r].answer \in {"ok", "error"} /\ member' # member
            /\ member[req[r].team][Whom(req[r])] = "none"
        BY <2>13, <3>1
      <3> QED
        BY <3>2 DEF AnswerHolds
    <2>19. ASSUME NEW p \in Requests, Authorize(p) \/ Lookup(p) \/ AddMember(p) \/ Abort(p)
           PROVE  AnswerHolds(r)
      BY <2>9, <2>10, <2>11, <2>14, <2>19 DEF AnswerHolds
    <2> QED
      BY <2>6, <2>7, <2>8, <2>12, <2>15, <2>16, <2>17, <2>18, <2>19 DEF Next
  <1> QED
    BY <1>1, TeamsInvariant, PTL DEF Spec, InviteAnswers

(* Teams puts messages into the outbox and lets the relay work on them     *)
(* exactly as the abstract outbox allows: the refinement, step by step,    *)
(* with the outbox's status for the messages of Teams.                     *)
THEOREM TeamsImplementOutbox == Spec => Box!AbstractSpec
  <1>1. Init => Box!AbstractInit
    BY DEF Init
  <1>2. ASSUME [Next]_vars PROVE [Box!AbstractNext]_(Box!abstractVars)
    <2>1. ASSUME UNCHANGED outboxVars PROVE UNCHANGED Box!abstractVars
      BY <2>1 DEF outboxVars, Box!abstractVars
    <2>2. CASE UNCHANGED vars
      BY <2>1, <2>2 DEF vars
    <2>3. CASE Register
      BY <2>1, <2>3 DEF Register
    <2>4. CASE Relay
      BY <2>4 DEF Relay, Box!AbstractNext
    <2>5. ASSUME NEW r \in Requests, createHandler(r) \/ inviteHandler(r) \/ grantAdmin(r)
          PROVE  UNCHANGED outboxVars
      BY <2>5 DEF createHandler, inviteHandler, grantAdmin, Begin
    <2>6. ASSUME NEW r \in Requests,
                 \/ InsertTeam(r) \/ Authorize(r) \/ Lookup(r) \/ AddMember(r)
                 \/ Enqueue(r) \/ Abort(r) \/ GrantAdmin(r) \/ GrantRechecks(r)
          PROVE  UNCHANGED outboxVars
      BY <2>6 DEF InsertTeam, Authorize, Lookup, AddMember, Enqueue, Abort, GrantAdmin, GrantRechecks
    <2>7. ASSUME NEW r \in Requests, Commit(r) \/ CommitLost(r)
          PROVE  UNCHANGED outboxVars \/ \E m \in MailIds : Box!Commit(m)
      BY <2>7 DEF Commit, CommitLost, Stored, FreeMails
    <2> QED
      BY <1>2, <2>1, <2>2, <2>3, <2>4, <2>5, <2>6, <2>7 DEF Next, Box!AbstractNext
  <1> QED
    BY <1>1, <1>2, PTL DEF Spec, Box!AbstractSpec
=============================================================================
