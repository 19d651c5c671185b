-------------------------- MODULE TaskAuditProofs --------------------------
(***************************************************************************)
(* The audit trail is exact for any number of concurrent requests, users   *)
(* and inputs.                                                             *)
(***************************************************************************)
EXTENDS TaskAudit, SequenceTheorems, TLAPS

(* The initial state satisfies the invariant.                              *)
LEMMA InitAudit == AuditInit => AuditInv
  <1> SUFFICES ASSUME AuditInit PROVE AuditInv
    OBVIOUS
  <1>1. PICK in \in Inputs : /\ requireAssigneeIsMember(in)
                             /\ task = [values |-> in, completed |-> IF in.status = "done" THEN 1 ELSE 0]
                             /\ first = in
    BY DEF AuditInit, Created
  <1>2. task \in Task
    BY <1>1 DEF Task
  <1>3. put \in [Updates -> UpdateRequest] /\ \A q \in Updates : put[q].pc = "new"
    BY <1>1, <1>2 DEF AuditInit, UpdateRequest
  <1>4. hist \in [Fields -> Seq(TaskChange)] /\ \A f \in Fields : hist[f] = <<>> /\ Len(hist[f]) = 0
    BY DEF AuditInit
  <1>5. AuditTypeOK
    BY <1>1, <1>2, <1>3, <1>4 DEF AuditInit, AuditTypeOK
  <1>6. LockInv
    BY <1>3, NoUpdateAssumption DEF AuditInit, LockInv, Holds
  <1>7. HistoryChain
    BY <1>1, <1>4 DEF HistoryChain, ChainOf
  <1>8. CompletedIffDone
    BY <1>1 DEF CompletedIffDone
  <1>9. AssigneeInv
    BY <1>1, <1>3 DEF AssigneeInv, AssigneeIsMember, requireAssigneeIsMember
  <1>10. AuthorInv
    BY <1>4 DEF AuthorInv, ChangesAreShown
  <1> QED
    BY <1>5, <1>6, <1>7, <1>8, <1>9, <1>10 DEF AuditInv

(* A step of one request that commits nothing: it gets the state t.        *)
LEMMA PrivateStep ==
    ASSUME AuditInv, NEW q \in Updates, NEW t \in UpdateRequest,
           put' = [put EXCEPT ![q] = t], put[q].pc # "done", t.pc # "done",
           UNCHANGED <<task, first, hist, team>>,
           clock' \in Nat, rowLock' \in Updates \cup {NoUpdate}, LockInv',
           t.pc \in {"loaded", "locked", "stored"} => requireAssigneeIsMember(t.input)
    PROVE  AuditInv'
  <1>1. AuditTypeOK'
    BY DEF AuditInv, AuditTypeOK
  <1>2. HistoryChain' /\ CompletedIffDone'
    BY DEF AuditInv, HistoryChain, ChainOf, CompletedIffDone
  <1>3. \A p \in Updates : put'[p] = IF p = q THEN t ELSE put[p]
    BY DEF AuditInv, AuditTypeOK
  <1>4. AssigneeInv'
    <2>1. ASSUME NEW p \in Updates, put'[p].pc \in {"loaded", "locked", "stored"}
          PROVE  requireAssigneeIsMember(put'[p].input)
      BY <1>3, <2>1 DEF AuditInv, AssigneeInv
    <2>2. AssigneeIsMember
      BY DEF AuditInv, AssigneeInv
    <2> QED
      BY <2>1, <2>2 DEF AssigneeInv, AssigneeIsMember, requireAssigneeIsMember
  <1>5. ASSUME NEW p \in Updates, NEW f \in Fields, NEW i \in 1 .. Len(hist[f]), hist[f][i].by = p
        PROVE  put'[p].shown.values = put'[p].input /\ put'[p].pc = "done"
    BY <1>3, <1>5 DEF AuditInv, AuthorInv, ChangesAreShown
  <1>6. AuthorInv'
    BY <1>5 DEF AuthorInv, ChangesAreShown
  <1> QED
    BY <1>1, <1>2, <1>4, <1>6 DEF AuditInv

(* Appending the change of one field extends its chain to the new value.   *)
LEMMA ChainExtends ==
    ASSUME NEW h \in Seq(TaskChange), NEW from, NEW to, NEW next, NEW q, ChainOf(h, from, to),
           NEW c \in Seq(TaskChange),
           c = IF to = next THEN <<>> ELSE <<[old |-> to, new |-> next, by |-> q]>>
    PROVE  ChainOf(h \o c, from, next)
  <1>1. CASE to = next
    BY <1>1 DEF ChainOf
  <1>2. CASE to # next
    <2> DEFINE e == [old |-> to, new |-> next, by |-> q]
               g == h \o <<e>>
    <2>1. c = <<e>> /\ e \in TaskChange
      BY <1>2
    <2>2. /\ Len(g) = Len(h) + 1 /\ g # <<>> /\ Len(h) \in Nat
          /\ g[Len(h) + 1] = e
          /\ \A i \in 1 .. Len(h) : g[i] = h[i]
      BY <2>1
    <2>3. g[1].old = from /\ g[Len(g)].new = next
      <3>1. CASE h = <<>>
        BY <2>2, <3>1 DEF ChainOf
      <3>2. CASE h # <<>>
        BY <2>2, <3>2 DEF ChainOf
      <3> QED
        BY <3>1, <3>2
    <2>4. \A i \in 1 .. Len(g) : g[i].old # g[i].new
      BY <1>2, <2>2 DEF ChainOf
    <2>5. ASSUME NEW i \in 1 .. Len(g) - 1 PROVE g[i].new = g[i + 1].old
      <3>1. CASE i = Len(h)
        BY <2>2, <2>5, <3>1 DEF ChainOf
      <3>2. CASE i < Len(h)
        BY <2>2, <2>5, <3>2 DEF ChainOf
      <3> QED
        BY <2>2, <2>5, <3>1, <3>2
    <2> HIDE DEF g
    <2>6. ChainOf(g, from, next)
      BY <2>2, <2>3, <2>4, <2>5 DEF ChainOf
    <2> QED
      BY <2>1, <2>6 DEF g
  <1> QED
    BY <1>1, <1>2

(* The commit publishes the row together with its history rows.            *)
LEMMA CommitStep == ASSUME AuditInv, NEW q \in Updates, CommitUpdate(q) PROVE AuditInv'
  <1> DEFINE s == put[q]
             t == [s EXCEPT !.pc = "done", !.shown = ReadBack(s)]
             c(f) == addChange(s.old.values, s.new.values, f, q)
  <1>1. /\ s \in UpdateRequest /\ s.pc = "stored" /\ rowLock = q /\ s.old = task
        /\ s.new.values = s.input /\ (s.new.completed # 0 <=> s.input.status = "done")
        /\ hist \in [Fields -> Seq(TaskChange)] /\ put \in [Updates -> UpdateRequest]
        /\ task \in Task /\ s.input \in Inputs /\ s.new \in Task
    BY DEF AuditInv, AuditTypeOK, LockInv, Holds, CommitUpdate, UpdateRequest
  <1>2. t \in UpdateRequest
    BY <1>1 DEF UpdateRequest, ReadBack
  <1>3. /\ task' = s.new /\ rowLock' = NoUpdate /\ UNCHANGED <<first, team, clock>>
        /\ \A p \in Updates : put'[p] = IF p = q THEN t ELSE put[p]
        /\ put' \in [Updates -> UpdateRequest]
        /\ hist' = [f \in Fields |-> hist[f] \o c(f)]
    BY <1>1, <1>2 DEF CommitUpdate
  <1>4. ASSUME NEW f \in Fields PROVE c(f) \in Seq(TaskChange)
    <2>1. s.old.values \in Inputs /\ s.new.values \in Inputs
      BY <1>1 DEF Task
    <2>2. [old |-> s.old.values[f], new |-> s.new.values[f], by |-> q] \in TaskChange
      BY <2>1 DEF TaskChange
    <2> QED
      BY <2>2 DEF addChange
  <1>5. hist' \in [Fields -> Seq(TaskChange)]
    BY <1>1, <1>3, <1>4
  <1>6. AuditTypeOK'
    BY <1>1, <1>3, <1>5 DEF AuditInv, AuditTypeOK
  <1>7. ASSUME NEW p \in Updates PROVE ~Holds(p)'
    <2>1. p # q => ~Holds(p)
      BY <1>1 DEF AuditInv, LockInv
    <2>2. put'[p].pc \notin {"locked", "stored"}
      BY <1>1, <1>3, <2>1 DEF Holds, UpdateRequest
    <2> QED
      BY <2>2 DEF Holds
  <1>8. LockInv'
    BY <1>3, <1>7, NoUpdateAssumption DEF LockInv, Holds
  <1>9. ASSUME NEW f \in Fields PROVE ChainOf(hist'[f], first'[f], task'.values[f])
    <2>1. hist'[f] = hist[f] \o c(f) /\ hist[f] \in Seq(TaskChange) /\ first' = first
      BY <1>1, <1>3
    <2>2. ChainOf(hist[f], first[f], task.values[f])
      BY DEF AuditInv, HistoryChain
    <2>3. c(f) = IF task.values[f] = s.new.values[f] THEN <<>>
                 ELSE <<[old |-> task.values[f], new |-> s.new.values[f], by |-> q]>>
      BY <1>1 DEF addChange
    <2> HIDE DEF c
    <2> QED
      BY <1>3, <1>4, <2>1, <2>2, <2>3, ChainExtends
  <1>10. HistoryChain'
    BY <1>9 DEF HistoryChain, ChainOf
  <1>11. CompletedIffDone'
    BY <1>1, <1>3 DEF CompletedIffDone
  <1>12. AssigneeInv'
    <2>1. requireAssigneeIsMember(s.input) /\ t.pc = "done"
      BY <1>1 DEF AuditInv, AssigneeInv, UpdateRequest
    <2>2. ASSUME NEW p \in Updates, put'[p].pc \in {"loaded", "locked", "stored"}
          PROVE  requireAssigneeIsMember(put'[p].input)
      BY <1>3, <2>1, <2>2 DEF AuditInv, AssigneeInv
    <2> QED
      BY <1>1, <1>3, <2>1, <2>2 DEF AssigneeInv, AssigneeIsMember, requireAssigneeIsMember
  <1>13. ASSUME NEW p \in Updates, NEW f \in Fields, NEW i \in 1 .. Len(hist'[f]), hist'[f][i].by = p
         PROVE  put'[p].shown.values = put'[p].input /\ put'[p].pc = "done"
    <2>1. hist'[f] = hist[f] \o c(f) /\ hist[f] \in Seq(TaskChange)
      BY <1>1, <1>3
    <2>2. CASE i \in 1 .. Len(hist[f])
      <3>1. hist[f][i].by = p
        BY <1>4, <1>13, <2>1, <2>2
      <3>2. put[p].shown.values = put[p].input /\ put[p].pc = "done"
        BY <2>2, <3>1 DEF AuditInv, AuthorInv, ChangesAreShown
      <3> QED
        BY <1>1, <1>3, <3>2
    <2>3. CASE i \notin 1 .. Len(hist[f])
      <3>1. c(f) # <<>>
        <4>1. c(f) = <<>> => hist'[f] = hist[f]
          BY <2>1
        <4> QED
          BY <1>13, <2>3, <4>1
      <3>2. s.old.values[f] # s.new.values[f] /\ c(f) = <<[old |-> s.old.values[f], new |-> s.new.values[f], by |-> q]>>
        BY <3>1 DEF addChange
      <3>3. hist'[f][i].by = q
        BY <1>13, <2>1, <2>3, <3>2
      <3>4. t.shown.values = t.input /\ t.pc = "done"
        BY <1>1, <3>2 DEF ReadBack, UpdateRequest
      <3> QED
        BY <1>3, <1>13, <3>3, <3>4
    <2> QED
      BY <2>2, <2>3
  <1>14. AuthorInv'
    BY <1>13 DEF AuthorInv, ChangesAreShown
  <1> QED
    BY <1>6, <1>8, <1>10, <1>11, <1>12, <1>14 DEF AuditInv

(* Every step of Update and every invitation keeps the invariant.          *)
LEMMA NextAudit == AuditInv /\ [AuditNext]_auditVars => AuditInv'
  <1> SUFFICES ASSUME AuditInv, [AuditNext]_auditVars PROVE AuditInv'
    OBVIOUS
  <1>1. AuditTypeOK /\ \A q \in Updates : put[q] \in UpdateRequest
    BY DEF AuditInv, AuditTypeOK
  <1>2. CASE UNCHANGED auditVars
    <2>1. AuditTypeOK' /\ LockInv'
      BY <1>2 DEF auditVars, AuditInv, AuditTypeOK, LockInv, Holds
    <2>2. HistoryChain' /\ CompletedIffDone'
      BY <1>2 DEF auditVars, AuditInv, HistoryChain, ChainOf, CompletedIffDone
    <2>3. AssigneeInv'
      BY <1>2 DEF auditVars, AuditInv, AssigneeInv, AssigneeIsMember, requireAssigneeIsMember
    <2>4. AuthorInv'
      BY <1>2 DEF auditVars, AuditInv, AuthorInv, ChangesAreShown
    <2> QED
      BY <2>1, <2>2, <2>3, <2>4 DEF AuditInv
  <1>3. ASSUME NEW q \in Updates, Load(q) PROVE AuditInv'
    <2>1. PICK in \in Inputs :
            /\ requireAssigneeIsMember(in)
            /\ put' = [put EXCEPT ![q] = [put[q] EXCEPT !.pc = "loaded", !.input = in, !.snap = task]]
      BY <1>3 DEF Load
    <2> DEFINE t == [put[q] EXCEPT !.pc = "loaded", !.input = in, !.snap = task]
    <2>2. t \in UpdateRequest /\ t.pc = "loaded" /\ t.input = in /\ put[q].pc = "new"
      BY <1>1, <1>3 DEF AuditTypeOK, UpdateRequest, Load
    <2>3. LockInv'
      BY <1>1, <1>3, <2>1, <2>2 DEF AuditInv, LockInv, Holds, Load, AuditTypeOK
    <2> QED
      BY <1>1, <1>3, <2>1, <2>2, <2>3, PrivateStep DEF Load, AuditTypeOK
  <1>4. ASSUME NEW q \in Updates, LockTask(q) PROVE AuditInv'
    <2> DEFINE t == [put[q] EXCEPT !.pc = "locked", !.old = task]
    <2>1. /\ t \in UpdateRequest /\ t.pc = "locked" /\ t.input = put[q].input /\ put[q].pc = "loaded"
          /\ t.old = task /\ requireAssigneeIsMember(t.input)
      BY <1>1, <1>4 DEF AuditInv, AssigneeInv, AuditTypeOK, UpdateRequest, LockTask
    <2>2. \A p \in Updates : put'[p] = IF p = q THEN t ELSE put[p]
      BY <1>1, <1>4 DEF LockTask, AuditTypeOK
    <2>3. LockInv'
      <3> HIDE DEF t
      <3>1. \A p \in Updates : ~Holds(p)
        BY <1>4, NoUpdateAssumption DEF AuditInv, LockInv, LockTask
      <3>2. rowLock' = q /\ task' = task
        BY <1>4 DEF LockTask
      <3> QED
        BY <2>1, <2>2, <3>1, <3>2 DEF LockInv, Holds
    <2> QED
      BY <1>1, <1>4, <2>1, <2>3, PrivateStep DEF LockTask, AuditTypeOK
  <1>5. ASSUME NEW q \in Updates, Store(q) PROVE AuditInv'
    <2> DEFINE n == [values |-> put[q].input, completed |-> CompletedAt(put[q].old, put[q].input)]
               t == [put[q] EXCEPT !.pc = "stored", !.new = n]
    <2>1. put[q].pc = "locked" /\ put[q].old = task /\ put[q].input \in Inputs /\ rowLock = q
          /\ clock \in Nat /\ task \in Task
      BY <1>1, <1>5 DEF AuditInv, LockInv, Holds, Store, UpdateRequest, AuditTypeOK
    <2>2. /\ n \in Task
          /\ n.completed # 0 <=> put[q].input.status = "done"
          /\ task.values.status = "done" /\ put[q].input.status = "done" => n.completed = task.completed
      BY <2>1 DEF AuditInv, CompletedIffDone, CompletedAt, Task
    <2>3. /\ t \in UpdateRequest /\ t.pc = "stored" /\ t.input = put[q].input /\ t.old = task /\ t.new = n
          /\ requireAssigneeIsMember(t.input)
      BY <1>1, <2>1, <2>2 DEF AuditInv, AssigneeInv, UpdateRequest
    <2>4. \A p \in Updates : put'[p] = IF p = q THEN t ELSE put[p]
      BY <1>1, <1>5 DEF Store, AuditTypeOK
    <2> HIDE DEF t
    <2>5. LockInv'
      BY <1>5, <2>1, <2>2, <2>3, <2>4 DEF AuditInv, LockInv, Holds, Store
    <2>6. put' = [put EXCEPT ![q] = t] /\ clock' \in Nat /\ UNCHANGED <<task, first, hist, team, rowLock>>
      BY <1>5, <2>1 DEF Store, t
    <2> QED
      BY <1>1, <2>1, <2>3, <2>5, <2>6, PrivateStep DEF AuditTypeOK
  <1>6. ASSUME NEW q \in Updates, Rollback(q) PROVE AuditInv'
    <2> DEFINE t == [put[q] EXCEPT !.pc = "failed"]
    <2>1. t \in UpdateRequest /\ t.pc = "failed" /\ put[q].pc # "done"
      BY <1>1, <1>6 DEF UpdateRequest, Rollback
    <2>2. \A p \in Updates : put'[p] = IF p = q THEN t ELSE put[p]
      BY <1>1, <1>6 DEF Rollback, AuditTypeOK
    <2>3. LockInv'
      <3> HIDE DEF t
      <3>1. rowLock' = (IF rowLock = q THEN NoUpdate ELSE rowLock) /\ task' = task
        BY <1>6 DEF Rollback
      <3>2. ASSUME NEW p \in Updates PROVE Holds(p)' <=> rowLock' = p
        <4>1. CASE p = q
          BY <2>1, <2>2, <3>1, <4>1, NoUpdateAssumption DEF Holds
        <4>2. CASE p # q
          BY <2>2, <3>1, <4>2, NoUpdateAssumption DEF AuditInv, LockInv, Holds
        <4> QED
          BY <4>1, <4>2
      <3> QED
        BY <2>1, <2>2, <3>1, <3>2 DEF AuditInv, LockInv, Holds
    <2> QED
      BY <1>1, <1>6, <2>1, <2>3, PrivateStep DEF Rollback, AuditTypeOK
  <1>7. ASSUME NEW u \in People, AddMember(u) PROVE AuditInv'
    <2>1. AuditTypeOK' /\ LockInv'
      BY <1>7 DEF AddMember, AuditInv, AuditTypeOK, LockInv, Holds
    <2>2. HistoryChain' /\ CompletedIffDone'
      BY <1>7 DEF AddMember, AuditInv, HistoryChain, ChainOf, CompletedIffDone
    <2>3. AssigneeInv'
      BY <1>7 DEF AddMember, AuditInv, AssigneeInv, AssigneeIsMember, requireAssigneeIsMember
    <2>4. AuthorInv'
      BY <1>7 DEF AddMember, AuditInv, AuthorInv, ChangesAreShown
    <2> QED
      BY <2>1, <2>2, <2>3, <2>4 DEF AuditInv
  <1> QED
    BY <1>2, <1>3, <1>4, <1>5, <1>6, <1>7, CommitStep DEF AuditNext, UpdateTask

(* While a request holds the row lock, what it read is the committed row,  *)
(* and with that the whole of the invariant holds.                         *)
THEOREM AuditInvariant == AuditSpec => []AuditInv
  BY InitAudit, NextAudit, PTL DEF AuditSpec

(* The history of every field is an unbroken chain from creation to now.   *)
THEOREM HistoryNeverDrifts == AuditSpec => []HistoryChain
  <1>1. AuditInv => HistoryChain
    BY DEF AuditInv
  <1> QED
    BY AuditInvariant, <1>1, PTL

(* completed_at is set exactly while the task is done.                     *)
THEOREM CompletionExact == AuditSpec => []CompletedIffDone
  <1>1. AuditInv => CompletedIffDone
    BY DEF AuditInv
  <1> QED
    BY AuditInvariant, <1>1, PTL

(* The assignee is a member of the team, although requireAssigneeIsMember  *)
(* looks before the task is locked: members never leave.                   *)
THEOREM AssigneesBelong == AuditSpec => []AssigneeIsMember
  <1>1. AuditInv => AssigneeIsMember
    BY DEF AuditInv, AssigneeInv
  <1> QED
    BY AuditInvariant, <1>1, PTL

(* A request that changed the task answers with the values it stored.      *)
THEOREM AnswersShowChanges == AuditSpec => []ChangesAreShown
  <1>1. AuditInv => ChangesAreShown
    BY DEF AuditInv, AuthorInv
  <1> QED
    BY AuditInvariant, <1>1, PTL

(* No step moves the completion time of a task that stays done.            *)
THEOREM CompletionStays == AuditSpec => CompletedAtKept
  <1>1. AuditInv /\ [AuditNext]_auditVars =>
          [task.values.status = "done" /\ task'.values.status = "done" =>
              task'.completed = task.completed]_auditVars
    <2> SUFFICES ASSUME AuditInv, AuditNext, task.values.status = "done", task'.values.status = "done"
                 PROVE  task'.completed = task.completed
      OBVIOUS
    <2>1. ASSUME NEW q \in Updates, CommitUpdate(q) PROVE task'.completed = task.completed
      BY <2>1 DEF AuditInv, LockInv, CommitUpdate
    <2>2. CASE UNCHANGED task
      BY <2>2
    <2> QED
      BY <2>1, <2>2 DEF AuditNext, UpdateTask, Load, LockTask, Store, Rollback, AddMember
  <1> QED
    BY AuditInvariant, <1>1, PTL DEF AuditSpec, CompletedAtKept

-----------------------------------------------------------------------------
(* The refinement of AuditedTask.                                          *)

(* Up to its commit a request has no effect, and neither has a rollback.   *)
LEMMA QuietSteps ==
    ASSUME AuditInv, NEW q \in Updates, Load(q) \/ LockTask(q) \/ Store(q) \/ Rollback(q)
    PROVE  UNCHANGED Atomic!atomicVars
  <1>1. /\ put[q].pc # "done" /\ put'[q].pc # "done"
        /\ \A p \in Updates : p # q => put'[p] = put[p]
    <2>1. put \in [Updates -> UpdateRequest]
      BY DEF AuditInv, AuditTypeOK
    <2>2. CASE Load(q)
      BY <2>1, <2>2 DEF Load, UpdateRequest
    <2>3. CASE LockTask(q)
      BY <2>1, <2>3 DEF LockTask, UpdateRequest
    <2>4. CASE Store(q)
      BY <2>1, <2>4 DEF Store, UpdateRequest
    <2>5. CASE Rollback(q)
      BY <2>1, <2>5 DEF Rollback, UpdateRequest
    <2> QED
      BY <2>2, <2>3, <2>4, <2>5
  <1>2. {p \in Updates : put'[p].pc = "done"} = {p \in Updates : put[p].pc = "done"}
    BY <1>1
  <1>3. UNCHANGED <<task, hist, team>>
    BY DEF Load, LockTask, Store, Rollback
  <1> QED
    BY <1>2, <1>3 DEF Atomic!atomicVars

(* A commit is the whole update: what the request read under the lock is   *)
(* the committed row, and the assignee it checked is still a member.       *)
LEMMA CommitApplies ==
    ASSUME AuditInv, NEW q \in Updates, CommitUpdate(q)
    PROVE  Atomic!AtomicNext
  <1> DEFINE s == put[q]
             in == put[q].input
  <1>1. /\ s \in UpdateRequest /\ s.pc = "stored" /\ in \in Inputs /\ s.old = task
        /\ s.new.values = in /\ (s.new.completed # 0 <=> in.status = "done")
        /\ task.values.status = "done" /\ in.status = "done" => s.new.completed = task.completed
        /\ requireAssigneeIsMember(in)
        /\ put \in [Updates -> UpdateRequest]
    BY DEF AuditInv, AuditTypeOK, LockInv, Holds, CommitUpdate, UpdateRequest, AssigneeInv
  <1>2. task' = s.new /\ team' = team
    BY DEF CommitUpdate
  <1>3. hist' = [f \in Fields |-> hist[f] \o Atomic!Moved(task.values, in, f, q)]
    <2>1. hist' = [f \in Fields |-> hist[f] \o addChange(s.old.values, s.new.values, f, q)]
      BY DEF CommitUpdate
    <2>2. \A f : addChange(s.old.values, s.new.values, f, q) = Atomic!Moved(task.values, in, f, q)
      BY <1>1 DEF addChange, Atomic!Moved
    <2> QED
      BY <2>1, <2>2
  <1>4. {p \in Updates : put'[p].pc = "done"} = {p \in Updates : put[p].pc = "done"} \cup {q}
    <2>1. put' = [put EXCEPT ![q] = [put[q] EXCEPT !.pc = "done", !.shown = ReadBack(put[q])]]
      BY DEF CommitUpdate
    <2>2. put'[q].pc = "done" /\ \A p \in Updates : p # q => put'[p] = put[p]
      BY <1>1, <2>1 DEF UpdateRequest
    <2> QED
      BY <2>2
  <1>5. q \notin {p \in Updates : put[p].pc = "done"}
    BY <1>1
  <1>6. Atomic!MayBeAssigned(in)
    BY <1>1 DEF Atomic!MayBeAssigned, requireAssigneeIsMember
  <1>7. /\ task'.values = in /\ (task'.completed # 0 <=> task'.values.status = "done")
        /\ task.values.status = "done" /\ in.status = "done" => task'.completed = task.completed
    BY <1>1, <1>2
  <1>8. PICK v \in Inputs : v = in
    BY <1>1
  <1> HIDE DEF s, in
  <1>9. Atomic!Apply(q, v)
    BY <1>2, <1>3, <1>4, <1>5, <1>6, <1>7, <1>8 DEF Atomic!Apply, Atomic!IsCompleted
  <1> QED
    BY <1>9 DEF Atomic!AtomicNext

LEMMA AuditStepRefines ==
    AuditInv /\ [AuditNext]_auditVars => [Atomic!AtomicNext]_Atomic!atomicVars
  <1> SUFFICES ASSUME AuditInv, [AuditNext]_auditVars
               PROVE  [Atomic!AtomicNext]_Atomic!atomicVars
    OBVIOUS
  <1>1. ASSUME NEW q \in Updates, UpdateTask(q)
        PROVE  [Atomic!AtomicNext]_Atomic!atomicVars
    BY <1>1, QuietSteps, CommitApplies DEF UpdateTask
  <1>2. ASSUME NEW u \in People, AddMember(u)
        PROVE  [Atomic!AtomicNext]_Atomic!atomicVars
    <2>1. Atomic!Join(u)
      BY <1>2 DEF AddMember, Atomic!Join
    <2> QED
      BY <2>1 DEF Atomic!AtomicNext
  <1>3. CASE UNCHANGED auditVars
    BY <1>3 DEF auditVars, Atomic!atomicVars
  <1> QED
    BY <1>1, <1>2, <1>3 DEF AuditNext

(* Whatever the interleaving and the failures, concurrent updates act as   *)
(* if each happened at its commit, alone, or not at all: the transactions  *)
(* of Tasks.Update are serialised by the row lock.                         *)
THEOREM UpdatesAreAtomic == AuditSpec => ImplementsAuditedTask
  <1>1. AuditInit => Atomic!AtomicInit
    <2> SUFFICES ASSUME AuditInit PROVE Atomic!AtomicInit
      OBVIOUS
    <2>1. PICK in \in Inputs : requireAssigneeIsMember(in) /\ task = Created(in)
      BY DEF AuditInit
    <2>2. task.values = in
      BY <2>1 DEF Created
    <2>3. Atomic!MayBeAssigned(task.values)
      BY <2>1, <2>2 DEF requireAssigneeIsMember, Atomic!MayBeAssigned
    <2>4. Atomic!IsCompleted(task)
      BY InitAudit DEF AuditInv, CompletedIffDone, Atomic!IsCompleted
    <2>5. {q \in Updates : put[q].pc = "done"} = {}
      BY DEF AuditInit
    <2>6. hist = [f \in Fields |-> <<>>]
      BY DEF AuditInit
    <2> QED
      BY <2>2, <2>3, <2>4, <2>5, <2>6 DEF Atomic!AtomicInit
  <1> QED
    BY <1>1, AuditStepRefines, AuditInvariant, PTL
       DEF AuditSpec, ImplementsAuditedTask, Atomic!AtomicSpec
=============================================================================
