------------------------- MODULE OutboxRelayProofs -------------------------
(***************************************************************************)
(* Proofs about OutboxRelay for every number of relays, rows, workers,     *)
(* attempts and faults.                                                    *)
(***************************************************************************)
EXTENDS OutboxRelay, TLAPS, SequenceTheorems, FiniteSetTheorems

-----------------------------------------------------------------------------
(* What the operators return.                                              *)

(* A goroutine of dispatch starts with a well-typed state.                 *)
LEMMA NewShardType ==
    ASSUME NEW q \in Seq(Ids)
    PROVE  NewShard(q) \in Shard
  BY DEF NewShard, Shard

(* So do the idle slots between two ticks.                                 *)
LEMMA NoShardsType == NoShards \in [Slots -> Shard]
  <1>1. <<>> \in Seq(Ids)
    OBVIOUS
  <1> QED
    BY <1>1, NewShardType DEF NoShards

(* NewRelay builds a well-typed relay.                                     *)
LEMMA FreshRelayType == FreshRelay \in Relay
  BY DEF FreshRelay, Relay, NoSnap

(* A slice holds rows of the claim only.                                   *)
LEMMA SliceType ==
    ASSUME NEW q \in Seq(Ids), NEW a \in Nat \ {0}, NEW b \in Int, b <= Len(q)
    PROVE  /\ SubSeq(q, a, b) \in Seq(Ids)
           /\ Range(SubSeq(q, a, b)) \subseteq Range(q)
  <1>1. SubSeq(q, a, b) \in Seq(Ids)
    BY SMT
  <1>2. ASSUME NEW x \in Range(SubSeq(q, a, b))
        PROVE  x \in Range(q)
    <2>1. PICK i \in DOMAIN SubSeq(q, a, b) : x = SubSeq(q, a, b)[i]
      BY <1>2 DEF Range
    <2>2. i \in 1 .. Len(SubSeq(q, a, b))
      BY <1>1, <2>1
    <2>3. a + i - 1 \in 1 .. Len(q) /\ x = q[a + i - 1]
      BY <2>1, <2>2, SMT
    <2> QED
      BY <2>3 DEF Range
  <1> QED
    BY <1>1, <1>2

(* The slice that shardBy gives a slot.                                    *)
LEMMA ShardByType ==
    ASSUME NEW q \in Seq(Ids), Len(q) > 0, NEW w \in Slots
    PROVE  /\ shardBy(q, w) \in Seq(Ids)
           /\ Range(shardBy(q, w)) \subseteq Range(q)
  <1> DEFINE workers == IF Workers > Len(q) THEN Len(q) ELSE Workers
             size    == (Len(q) + workers - 1) \div workers
             start   == (w - 1) * size
  <1>1. workers \in Nat \ {0} /\ Len(q) \in Nat
    BY ConfigAssumption
  <1>2. \A x \in Nat, y \in Nat \ {0} : x \div y \in Nat
    BY SMT
  <1>3. size \in Nat
    <2> HIDE DEF workers
    <2> QED BY <1>1, <1>2
  <1>4. \A x, y \in Nat : x * y \in Nat
    BY SMT
  <1>5. start \in Nat
    <2>1. w - 1 \in Nat
      BY ConfigAssumption DEF Slots
    <2> HIDE DEF size
    <2> QED BY <1>3, <1>4, <2>1
  <1>6. shardBy(q, w) = SubSeq(q, start + 1, IF start + size < Len(q) THEN start + size ELSE Len(q))
    BY DEF shardBy
  <1> HIDE DEF workers, size, start
  <1> QED
    BY <1>1, <1>3, <1>5, <1>6, SliceType

-----------------------------------------------------------------------------
(* Type correctness.                                                       *)

(* One goroutine's state changes to t.                                     *)
LEMMA ShardUpdateType ==
    ASSUME TypeOK, NEW r \in Relays, NEW w \in Slots, NEW t \in Shard
    PROVE  [shard EXCEPT ![r][w] = t] \in [Relays -> [Slots -> Shard]]
  BY DEF TypeOK

(* The tick of r ends.                                                     *)
LEMMA TickOverType ==
    ASSUME TypeOK, NEW r \in Relays, NEW pause \in BOOLEAN, TickOver(r, pause)
    PROVE  /\ lock' \in [Ids -> Relays \cup {NoRelay}]
           /\ relay' \in [Relays -> Relay]
           /\ shard' \in [Relays -> [Slots -> Shard]]
  <1>1. lock' \in [Ids -> Relays \cup {NoRelay}]
    BY DEF TypeOK, TickOver, Released
  <1>2. relay' \in [Relays -> Relay]
    <2>1. [FreshRelay EXCEPT !.stopping = relay[r].stopping, !.paused = pause] \in Relay
      BY FreshRelayType DEF TypeOK, Relay
    <2> QED
      BY <2>1 DEF TypeOK, TickOver
  <1>3. shard' \in [Relays -> [Slots -> Shard]]
    BY NoShardsType DEF TypeOK, TickOver
  <1> QED
    BY <1>1, <1>2, <1>3

(* The facts about the state of r and of its goroutine w that TypeOK gives *)
(* and the steps of processShard use.                                      *)
LEMMA HeadTailType ==
    ASSUME NEW q \in Seq(Ids), q # <<>>
    PROVE  /\ Head(q) \in Ids /\ Tail(q) \in Seq(Ids)
           /\ Head(q) \in Range(q) /\ Range(Tail(q)) \subseteq Range(q)
  <1>1. Len(q) \in Nat \ {0} /\ Head(q) = q[1] /\ 1 \in DOMAIN q
    OBVIOUS
  <1>2. Head(q) \in Ids /\ Head(q) \in Range(q)
    BY <1>1 DEF Range
  <1>3. Tail(q) \in Seq(Ids)
    OBVIOUS
  <1>4. ASSUME NEW x \in Range(Tail(q)) PROVE x \in Range(q)
    <2>1. PICK i \in DOMAIN Tail(q) : x = Tail(q)[i]
      BY <1>4 DEF Range
    <2>2. i + 1 \in DOMAIN q /\ x = q[i + 1]
      BY <2>1, <1>1, <1>3
    <2> QED
      BY <2>2 DEF Range
  <1> QED
    BY <1>2, <1>3, <1>4

(* processShard appends one row to pending.                                *)
LEMMA AppendType ==
    ASSUME NEW q \in Seq(Ids), NEW id \in Ids
    PROVE  /\ Append(q, id) \in Seq(Ids)
           /\ Append(q, id) # <<>>
           /\ Range(Append(q, id)) \subseteq Range(q) \cup {id}
  <1>1. Append(q, id) \in Seq(Ids) /\ Len(Append(q, id)) = Len(q) + 1
    OBVIOUS
  <1>2. ASSUME NEW x \in Range(Append(q, id)) PROVE x \in Range(q) \cup {id}
    <2>1. PICK i \in DOMAIN Append(q, id) : x = Append(q, id)[i]
      BY <1>2 DEF Range
    <2>2. i \in 1 .. Len(q) + 1
      BY <2>1, <1>1
    <2>3. CASE i = Len(q) + 1
      BY <2>1, <2>3
    <2>4. CASE i \in 1 .. Len(q)
      <3>1. x = q[i] /\ i \in DOMAIN q
        BY <2>1, <2>4
      <3> QED
        BY <3>1 DEF Range
    <2> QED
      BY <2>2, <2>3, <2>4
  <1> QED
    BY <1>1, <1>2

-----------------------------------------------------------------------------
(* Types and goroutines: TypeOK and ShardInv are inductive together.       *)

(* A step of goroutine w that leaves the claims alone and gives it state t.*)
LEMMA ShardStepOK ==
    ASSUME TypeOK, ShardInv, NEW r \in Relays, NEW w \in Slots, NEW t \in Shard,
           ShardOK(t, Range(relay[r].claimed)),
           shard' = [shard EXCEPT ![r][w] = t],
           \A p \in Relays : relay'[p].claimed = relay[p].claimed
    PROVE  shard' \in [Relays -> [Slots -> Shard]] /\ ShardInv'
  <1>1. shard' \in [Relays -> [Slots -> Shard]]
    BY DEF TypeOK
  <1>2. ASSUME NEW p \in Relays, NEW v \in Slots
        PROVE  ShardOK(shard'[p][v], Range(relay'[p].claimed))
    <2>1. CASE p = r /\ v = w
      <3>1. shard'[p][v] = t
        BY <2>1 DEF TypeOK
      <3> QED BY <2>1, <3>1
    <2>2. CASE ~(p = r /\ v = w)
      <3>1. shard'[p][v] = shard[p][v]
        BY <2>2 DEF TypeOK
      <3> QED BY <3>1 DEF ShardInv
    <2> QED BY <2>1, <2>2
  <1> QED
    BY <1>1, <1>2 DEF ShardInv

(* A goroutine with nothing to do satisfies ShardOK for any claim.         *)
LEMMA NewShardOK ==
    ASSUME NEW q \in Seq(Ids), NEW C, Range(q) \subseteq C
    PROVE  ShardOK(NewShard(q), C)
  <1>1. Range(<<>>) = {}
    BY DEF Range
  <1> QED
    BY <1>1 DEF ShardOK, NewShard

(* A step that replaces all goroutines of r by NoShards.                   *)
LEMMA NoShardsOK ==
    ASSUME TypeOK, ShardInv, NEW r \in Relays,
           shard' = [shard EXCEPT ![r] = NoShards],
           \A p \in Relays \ {r} : relay'[p].claimed = relay[p].claimed
    PROVE  ShardInv'
  <1>1. Range(<<>>) = {} /\ <<>> \in Seq(Ids)
    BY DEF Range
  <1> SUFFICES ASSUME NEW p \in Relays, NEW v \in Slots
               PROVE  ShardOK(shard'[p][v], Range(relay'[p].claimed))
    BY DEF ShardInv
  <1>2. CASE p = r
    <2>1. shard'[p][v] = NewShard(<<>>)
      BY <1>2 DEF TypeOK, NoShards
    <2> QED
      BY <1>1, <2>1, NewShardOK
  <1>3. CASE p # r
    <2>1. shard'[p][v] = shard[p][v]
      BY <1>3 DEF TypeOK
    <2> QED
      BY <2>1, <1>3 DEF ShardInv
  <1> QED
    BY <1>2, <1>3

(* Every step of processShard keeps types and ShardInv.                    *)
LEMMA ShardStepTypes ==
    ASSUME TypeOK, ShardInv, NEW r \in Relays, NEW w \in Slots, ShardStep(r, w)
    PROVE  TypeOK' /\ ShardInv'
  <1> DEFINE s == shard[r][w]
             C == Range(relay[r].claimed)
  <1>1. s \in Shard /\ ShardOK(s, C) /\ relay[r] \in Relay
    BY DEF TypeOK, ShardInv
  <1>2. s.todo \in Seq(Ids) /\ s.pending \in Seq(Ids)
    BY <1>1 DEF Shard
  <1>3. \A S : S \subseteq Ids => [id \in Ids |-> IF id \in S THEN charged[id] + 1 ELSE charged[id]]
                                \in [Ids -> Nat]
    BY DEF TypeOK
  <1> HIDE DEF s, C
  <1>4. \A cause \in {"live", "paused", "shutdown", "budget"} :
            /\ [relay EXCEPT ![r] = [relay[r] EXCEPT !.cause = cause]] \in [Relays -> Relay]
            /\ \A p \in Relays :
                  [relay EXCEPT ![r] = [relay[r] EXCEPT !.cause = cause]][p].claimed = relay[p].claimed
    BY ZenonT(60) DEF TypeOK, Relay
  <1>5. Ended(r, "paused") \in {"live", "paused", "shutdown", "budget"}
    BY <1>1 DEF Ended, Relay
  <1>6. Undelivered(s) \subseteq Range(s.pending) /\ Undelivered(s) \subseteq Ids
    <2>1. s.delivered + 1 \in Nat \ {0} /\ Len(s.pending) \in Int /\ Len(s.pending) <= Len(s.pending)
      BY <1>1, <1>2 DEF Shard
    <2>2. /\ Range(SubSeq(s.pending, s.delivered + 1, Len(s.pending))) \subseteq Range(s.pending)
          /\ SubSeq(s.pending, s.delivered + 1, Len(s.pending)) \in Seq(Ids)
      BY <2>1, <1>2, SliceType
    <2>3. \A q \in Seq(Ids) : Range(q) \subseteq Ids
      BY DEF Range
    <2> QED
      BY <2>2, <2>3 DEF Undelivered
  <1>7. CASE ShardStart(r, w)
    <2> DEFINE t == [s EXCEPT !.pc = IF relay[r].cause = "live" THEN "check" ELSE "done"]
    <2>1. t \in Shard /\ ShardOK(t, C)
      BY <1>1, <1>7 DEF Shard, ShardOK, ShardStart, s
    <2>2. shard' = [shard EXCEPT ![r][w] = t] /\ relay' = relay
      BY <1>7 DEF ShardStart, s
    <2> QED
      BY <1>7, <2>1, <2>2, ShardStepOK DEF TypeOK, ShardStart, C
  <1>8. CASE CheckRow(r, w)
    <2> DEFINE id   == Head(s.todo)
               rest == Tail(s.todo)
               hit  == [s EXCEPT !.pc = IF rest # <<>> THEN "check"
                                        ELSE IF s.pending # <<>> THEN "send" ELSE "done",
                                 !.todo = rest, !.sent = @ \cup {id}]
               miss == [s EXCEPT !.pc = IF rest # <<>> THEN "check"
                                        ELSE IF Append(s.pending, id) # <<>> THEN "send" ELSE "done",
                                 !.todo = rest, !.pending = Append(@, id)]
    <2>1. s.pc = "check" /\ s.todo # <<>>
      BY <1>1, <1>8 DEF CheckRow, ShardOK, s
    <2>2. id \in Ids /\ rest \in Seq(Ids) /\ id \in Range(s.todo) /\ Range(rest) \subseteq Range(s.todo)
      BY <2>1, <1>2, HeadTailType
    <2>3. Append(s.pending, id) \in Seq(Ids) /\ Range(Append(s.pending, id)) \subseteq Range(s.pending) \cup {id}
      BY <2>2, <1>2, AppendType
    <2> HIDE DEF id, rest
    <2>4. hit \in Shard /\ ShardOK(hit, C)
      BY <1>1, <2>1, <2>2 DEF Shard, ShardOK
    <2>5. miss \in Shard /\ ShardOK(miss, C)
      BY <1>1, <2>1, <2>2, <2>3 DEF Shard, ShardOK
    <2>6. /\ \/ shard' = [shard EXCEPT ![r][w] = hit]
             \/ shard' = [shard EXCEPT ![r][w] = miss]
          /\ faults' \in Nat
          /\ UNCHANGED <<outbox, lock, marker, accepted, charged, relay>>
      BY <1>8 DEF CheckRow, WasSent, Fault, TypeOK, s, id, rest
    <2> HIDE DEF hit, miss
    <2>7. shard' \in [Relays -> [Slots -> Shard]] /\ ShardInv'
      BY <2>4, <2>5, <2>6, ShardStepOK DEF C
    <2> QED
      BY <2>6, <2>7 DEF TypeOK
  <1>9. ASSUME NEW A \in SUBSET Range(s.pending), Provider(r, w, A)
        PROVE  TypeOK' /\ ShardInv'
    <2> DEFINE t == [s EXCEPT !.pc = "answer", !.ok = A]
    <2>1. A \subseteq Ids /\ A \subseteq C
      BY <1>1, <1>2, <1>9 DEF ShardOK, Range
    <2>2. t \in Shard /\ ShardOK(t, C)
      BY <1>1, <2>1, <1>9 DEF Shard, ShardOK, Provider, s
    <2>3. shard' = [shard EXCEPT ![r][w] = t] /\ relay' = relay
      BY <1>9 DEF Provider, s
    <2>4. accepted' \in [Ids -> Nat]
      BY <1>9 DEF Provider, TypeOK
    <2> QED
      BY <1>9, <2>2, <2>3, <2>4, ShardStepOK DEF TypeOK, Provider, C
  <1>10. CASE SendAnswered(r, w)
    <2> DEFINE t == [s EXCEPT !.pc = "mark", !.todo = s.pending]
    <2>1. t \in Shard /\ ShardOK(t, C)
      BY <1>1, <1>10 DEF Shard, ShardOK, SendAnswered, s
    <2>2. shard' = [shard EXCEPT ![r][w] = t] /\ relay' = relay
      BY <1>10 DEF SendAnswered, s
    <2> QED
      BY <1>10, <2>1, <2>2, ShardStepOK DEF TypeOK, SendAnswered, C
  <1>11. CASE SendFailed(r, w)
    <2> DEFINE t == [s EXCEPT !.pc = "done", !.paused = TRUE]
    <2>1. t \in Shard /\ ShardOK(t, C)
      BY <1>1 DEF Shard, ShardOK
    <2>2. shard' = [shard EXCEPT ![r][w] = t] /\ faults' \in Nat
      BY <1>11 DEF SendFailed, Fault, TypeOK, s
    <2>3. relay' \in [Relays -> Relay] /\ \A p \in Relays : relay'[p].claimed = relay[p].claimed
      BY <1>4, <1>5, <1>11 DEF SendFailed
    <2>4. shard' \in [Relays -> [Slots -> Shard]] /\ ShardInv'
      BY <2>1, <2>2, <2>3, ShardStepOK DEF C
    <2> QED
      BY <1>11, <2>2, <2>3, <2>4 DEF TypeOK, SendFailed
  <1>12. CASE SendAborted(r, w)
    <2> DEFINE t == [s EXCEPT !.pc = "done", !.paused = relay[r].cause # "shutdown"]
    <2>1. t \in Shard /\ ShardOK(t, C)
      BY <1>1 DEF Shard, ShardOK
    <2>2. shard' = [shard EXCEPT ![r][w] = t] /\ faults' \in Nat /\ relay' = relay
      BY <1>12 DEF SendAborted, Fault, TypeOK, s
    <2>3. shard' \in [Relays -> [Slots -> Shard]] /\ ShardInv'
      BY <2>1, <2>2, ShardStepOK DEF C
    <2> QED
      BY <1>12, <2>2, <2>3 DEF TypeOK, SendAborted
  <1>13. CASE MarkRow(r, w)
    <2> DEFINE id == Head(s.todo)
               t  == [s EXCEPT !.todo = Tail(@),
                               !.pc = IF Tail(s.todo) = <<>> THEN "done" ELSE "mark"]
               rejected  == [t EXCEPT !.retry = @ \cup {id}]
               delivered == [t EXCEPT !.delivered = @ + 1, !.sent = @ \cup {id}]
    <2>1. s.pc = "mark" /\ s.todo # <<>>
      BY <1>1, <1>13 DEF MarkRow, ShardOK, s
    <2>2. id \in Ids /\ Tail(s.todo) \in Seq(Ids) /\ id \in Range(s.todo)
          /\ Range(Tail(s.todo)) \subseteq Range(s.todo)
      BY <2>1, <1>2, HeadTailType
    <2> HIDE DEF id
    <2>3. t \in Shard /\ ShardOK(t, C)
      BY <1>1, <2>1, <2>2 DEF Shard, ShardOK
    <2>4. id \in C
      BY <1>1, <2>2 DEF ShardOK
    <2>5. /\ \/ shard' = [shard EXCEPT ![r][w] = rejected]
             \/ shard' = [shard EXCEPT ![r][w] = delivered]
          /\ UNCHANGED <<outbox, lock, accepted, relay>>
      BY <1>13 DEF MarkRow, s, id
    <2>6. faults' \in Nat /\ marker' \subseteq Ids /\ charged' \in [Ids -> Nat]
      <3>1. \/ Charge({id}) /\ UNCHANGED <<marker, faults>>
            \/ MarkSent(id) /\ UNCHANGED charged
        BY <1>13 DEF MarkRow, s, id
      <3>2. Charge({id}) => charged' \in [Ids -> Nat]
        BY DEF Charge, TypeOK
      <3>3. MarkSent(id) => marker' \subseteq Ids /\ faults' \in Nat
        BY <2>2 DEF MarkSent, Fault, TypeOK
      <3> QED
        BY <3>1, <3>2, <3>3 DEF TypeOK
    <2> HIDE DEF t
    <2>7. rejected \in Shard /\ ShardOK(rejected, C)
      BY <2>2, <2>3, <2>4 DEF Shard, ShardOK
    <2>8. delivered \in Shard /\ ShardOK(delivered, C)
      <3>1. delivered \in Shard
        <4>1. t.delivered + 1 \in Nat /\ t.sent \cup {id} \in SUBSET Ids
          BY <2>2, <2>3 DEF Shard
        <4>2. \A n \in Nat, S \in SUBSET Ids : [t EXCEPT !.delivered = n, !.sent = S] \in Shard
          BY <2>3 DEF Shard
        <4> QED
          BY <4>1, <4>2
      <3>2. /\ delivered.pc = t.pc /\ delivered.todo = t.todo /\ delivered.pending = t.pending
            /\ delivered.ok = t.ok /\ delivered.sent = t.sent \cup {id} /\ delivered.retry = t.retry
        BY <2>3 DEF Shard
      <3> HIDE DEF delivered
      <3> QED
        BY <3>1, <3>2, <2>3, <2>4 DEF ShardOK
    <2> HIDE DEF rejected, delivered
    <2>9. shard' \in [Relays -> [Slots -> Shard]] /\ ShardInv'
      BY <2>5, <2>7, <2>8, ShardStepOK DEF C
    <2> QED
      BY <2>5, <2>6, <2>9 DEF TypeOK
  <1>14. CASE ShardPanics(r, w)
    <2> DEFINE t == [s EXCEPT !.pc = "done", !.retry = @ \cup Undelivered(s)]
    <2>1. t \in Shard /\ ShardOK(t, C)
      BY <1>1, <1>6 DEF Shard, ShardOK
    <2>2. shard' = [shard EXCEPT ![r][w] = t] /\ faults' \in Nat
      BY <1>14 DEF ShardPanics, Fault, TypeOK, s
    <2>3. charged' \in [Ids -> Nat]
      BY <1>3, <1>6, <1>14 DEF ShardPanics, Charge, s
    <2>4. relay' \in [Relays -> Relay] /\ \A p \in Relays : relay'[p].claimed = relay[p].claimed
      BY <1>4, <1>5, <1>14 DEF ShardPanics
    <2>5. shard' \in [Relays -> [Slots -> Shard]] /\ ShardInv'
      BY <2>1, <2>2, <2>4, ShardStepOK DEF C
    <2> QED
      BY <1>14, <2>2, <2>3, <2>4, <2>5 DEF TypeOK, ShardPanics
  <1> QED
    BY <1>7, <1>8, <1>9, <1>10, <1>11, <1>12, <1>13, <1>14 DEF ShardStep, s

(* The table after a settlement, and which rows it leaves alone.           *)
LEMMA SettleRow ==
    ASSUME TypeOK, NEW D \in SUBSET Ids, NEW R \in SUBSET Ids, NEW F \in SUBSET Ids, R \cap F = {},
           NEW id \in Ids
    PROVE  LET new == MarkFailed(Reschedule(Delete(outbox, D), R), F)
           IN  /\ id \in D => /\ new[id].status = "deleted"
                              /\ new[id].attempts = outbox[id].attempts
               /\ (outbox[id].status # "deleted" /\ id \in R \ D) =>
                     /\ new[id].status = "pending"
                     /\ new[id].attempts = outbox[id].attempts + 1
               /\ (outbox[id].status # "deleted" /\ id \in F \ D) =>
                     /\ new[id].status = "failed"
                     /\ new[id].attempts = outbox[id].attempts + 1
               /\ id \notin D \cup R \cup F => new[id] = outbox[id]
               /\ new[id] \in Row
  <1> DEFINE one == Delete(outbox, D)
             two == Reschedule(one, R)
             new == MarkFailed(two, F)
  <1>1. outbox[id] \in Row
    BY DEF TypeOK
  <1>2. one[id] = IF id \in D THEN [outbox[id] EXCEPT !.status = "deleted"] ELSE outbox[id]
    BY DEF Delete
  <1>3. /\ one[id] \in Row /\ one[id].attempts = outbox[id].attempts
        /\ id \in D => one[id].status = "deleted"
        /\ id \notin D => one[id] = outbox[id]
    BY <1>1, <1>2 DEF Row
  <1> HIDE DEF one
  <1>4. two[id] = IF id \in R /\ one[id].status # "deleted"
                  THEN [status |-> "pending", attempts |-> one[id].attempts + 1, due |-> FALSE]
                  ELSE one[id]
    BY DEF Reschedule
  <1>5. two[id] \in Row
    BY <1>3, <1>4 DEF Row
  <1> HIDE DEF two
  <1>6. new[id] = IF id \in F /\ two[id].status # "deleted"
                  THEN [two[id] EXCEPT !.status = "failed", !.attempts = @ + 1] ELSE two[id]
    BY DEF MarkFailed
  <1>7. [two[id] EXCEPT !.status = "failed", !.attempts = @ + 1] \in Row
        /\ [two[id] EXCEPT !.status = "failed", !.attempts = @ + 1].status = "failed"
        /\ [two[id] EXCEPT !.status = "failed", !.attempts = @ + 1].attempts = two[id].attempts + 1
    <2>1. two[id].attempts + 1 \in Nat
      BY <1>5 DEF Row
    <2>2. \A n \in Nat : /\ [two[id] EXCEPT !.status = "failed", !.attempts = n] \in Row
                         /\ [two[id] EXCEPT !.status = "failed", !.attempts = n].status = "failed"
                         /\ [two[id] EXCEPT !.status = "failed", !.attempts = n].attempts = n
      BY <1>5 DEF Row
    <2> QED
      BY <2>1, <2>2
  <1> HIDE DEF new
  <1>8. id \in D => /\ new[id].status = "deleted" /\ new[id].attempts = outbox[id].attempts
    BY <1>3, <1>4, <1>6
  <1>9. (outbox[id].status # "deleted" /\ id \in R \ D) =>
          /\ new[id].status = "pending" /\ new[id].attempts = outbox[id].attempts + 1
    BY <1>3, <1>4, <1>6
  <1>10. (outbox[id].status # "deleted" /\ id \in F \ D) =>
          /\ new[id].status = "failed" /\ new[id].attempts = outbox[id].attempts + 1
    BY <1>3, <1>4, <1>6, <1>7
  <1>11. id \notin D \cup R \cup F => new[id] = outbox[id]
    BY <1>3, <1>4, <1>6
  <1>12. new[id] \in Row
    BY <1>5, <1>6, <1>7
  <1> QED
    BY <1>8, <1>9, <1>10, <1>11, <1>12 DEF new, two, one

(* The rows a settlement deletes, reschedules and fails were claimed.      *)
LEMMA CollectedRows ==
    ASSUME TypeOK, ShardInv, NEW r \in Relays
    PROVE  /\ Sent(r) \subseteq Range(relay[r].claimed) /\ Retried(r) \subseteq Range(relay[r].claimed)
           /\ Exhausted(r) \subseteq Retried(r)
           /\ Sent(r) \subseteq Ids /\ Retried(r) \subseteq Ids
  <1>1. \A w \in Slots : /\ shard[r][w].sent \subseteq Range(relay[r].claimed)
                         /\ shard[r][w].retry \subseteq Range(relay[r].claimed)
    BY DEF ShardInv, ShardOK
  <1>2. \A w \in Slots : shard[r][w].sent \subseteq Ids /\ shard[r][w].retry \subseteq Ids
    BY DEF TypeOK, Shard
  <1> QED
    BY <1>1, <1>2 DEF Sent, Retried, Exhausted

(* Every step of a relay keeps types and ShardInv.                         *)
LEMMA RelayStepTypes ==
    ASSUME TypeOK, ShardInv, NEW r \in Relays, RelayStep(r)
    PROVE  TypeOK' /\ ShardInv'
  <1>1. relay[r] \in Relay /\ relay[r].stopping \in BOOLEAN
    BY DEF TypeOK, Relay
  <1>2. Released(r) \in [Ids -> Relays \cup {NoRelay}]
    BY DEF TypeOK, Released
  <1>3. ASSUME NEW t \in Relay, t.claimed = relay[r].claimed, relay' = [relay EXCEPT ![r] = t],
               shard' = shard
        PROVE  relay' \in [Relays -> Relay] /\ ShardInv'
    <2>1. \A p \in Relays : relay'[p].claimed = relay[p].claimed
      BY <1>3 DEF TypeOK
    <2> QED
      BY <1>3, <2>1 DEF TypeOK, ShardInv
  <1>4. ASSUME NEW pause \in BOOLEAN, TickOver(r, pause)
        PROVE  /\ lock' \in [Ids -> Relays \cup {NoRelay}]
               /\ relay' \in [Relays -> Relay]
               /\ shard' \in [Relays -> [Slots -> Shard]]
               /\ ShardInv'
    <2>1. \A p \in Relays \ {r} : relay'[p].claimed = relay[p].claimed
      BY <1>4 DEF TickOver, TypeOK
    <2>2. ShardInv'
      BY <1>4, <2>1, NoShardsOK DEF TickOver
    <2> QED
      BY <1>4, <2>2, TickOverType
  <1>5. CASE Claim(r)
    <2>1. PICK n \in 1 .. Batch : \E q \in [1 .. n -> Ids] :
          /\ lock' = [id \in Ids |-> IF id \in Range(q) THEN r ELSE lock[id]]
          /\ relay' = [relay EXCEPT ![r] =
                          [relay[r] EXCEPT !.pc = "dispatch", !.tx = "open", !.claimed = q,
                                           !.snap = [id \in Ids |-> outbox[id].attempts]]]
          /\ shard' = [shard EXCEPT ![r] = [w \in Slots |-> NewShard(shardBy(q, w))]]
      BY <1>5 DEF Claim
    <2>2. PICK q \in [1 .. n -> Ids] :
          /\ lock' = [id \in Ids |-> IF id \in Range(q) THEN r ELSE lock[id]]
          /\ relay' = [relay EXCEPT ![r] =
                          [relay[r] EXCEPT !.pc = "dispatch", !.tx = "open", !.claimed = q,
                                           !.snap = [id \in Ids |-> outbox[id].attempts]]]
          /\ shard' = [shard EXCEPT ![r] = [w \in Slots |-> NewShard(shardBy(q, w))]]
      BY <2>1
    <2>3. q \in Seq(Ids) /\ Len(q) > 0
      BY ConfigAssumption
    <2>4. \A w \in Slots : shardBy(q, w) \in Seq(Ids) /\ Range(shardBy(q, w)) \subseteq Range(q)
      BY <2>3, ShardByType
    <2>5. lock' \in [Ids -> Relays \cup {NoRelay}]
      BY <2>2 DEF TypeOK
    <2>6. relay' \in [Relays -> Relay]
      <3>1. [id \in Ids |-> outbox[id].attempts] \in [Ids -> Nat]
        BY DEF TypeOK, Row
      <3>2. \A f \in [Ids -> Nat] : [relay[r] EXCEPT !.pc = "dispatch", !.tx = "open",
                                                     !.claimed = q, !.snap = f] \in Relay
        BY <1>1, <2>3 DEF Relay
      <3> QED
        BY <2>2, <3>1, <3>2 DEF TypeOK
    <2>7. shard' \in [Relays -> [Slots -> Shard]]
      BY <2>2, <2>4, NewShardType DEF TypeOK
    <2>8. ShardInv'
      <3> SUFFICES ASSUME NEW p \in Relays, NEW v \in Slots
                   PROVE  ShardOK(shard'[p][v], Range(relay'[p].claimed))
        BY DEF ShardInv
      <3>1. CASE p = r
        <4>1. shard'[p][v] = NewShard(shardBy(q, v))
          BY <2>2, <3>1 DEF TypeOK
        <4>2. relay'[p].claimed = q
          BY <1>1, <2>2, <3>1 DEF TypeOK, Relay
        <4> QED
          BY <2>4, <4>1, <4>2, NewShardOK
      <3>2. CASE p # r
        <4>1. shard'[p][v] = shard[p][v] /\ relay'[p] = relay[p]
          BY <2>2, <3>2 DEF TypeOK
        <4> QED
          BY <4>1 DEF ShardInv
      <3> QED
        BY <3>1, <3>2
    <2> QED
      BY <1>5, <2>5, <2>6, <2>7, <2>8 DEF TypeOK, Claim
  <1>6. CASE Settle(r)
    <2>1. outbox' \in [Ids -> Row]
      <3> DEFINE D == Sent(r)
                 F == Exhausted(r)
                 R == Retried(r) \ F
      <3>1. D \in SUBSET Ids /\ R \in SUBSET Ids /\ F \in SUBSET Ids /\ R \cap F = {}
        BY CollectedRows
      <3>2. outbox' = MarkFailed(Reschedule(Delete(outbox, D), R), F)
        BY <1>6 DEF Settle
      <3> HIDE DEF D, R, F
      <3>3. \A id \in Ids : outbox'[id] \in Row
        BY <3>1, <3>2, SettleRow
      <3>4. outbox' = [id \in Ids |-> outbox'[id]]
        BY <3>2 DEF MarkFailed
      <3> QED
        BY <3>3, <3>4
    <2> QED
      BY <1>4, <1>6, <2>1 DEF TypeOK, Settle
  <1>7. CASE TickFails(r)
    BY <1>4, <1>7 DEF TypeOK, TickFails
  <1>8. CASE TickPanics(r)
    <2>1. TickOver(r, TRUE)
      BY <1>8 DEF TickPanics
    <2>2. faults' \in Nat
      BY <1>8 DEF TickPanics, Fault, TypeOK
    <2> QED
      BY <1>4, <1>8, <2>1, <2>2 DEF TypeOK, TickPanics
  <1>9. CASE Stop(r)
    <2> DEFINE t == [relay[r] EXCEPT !.stopping = TRUE, !.cause = Ended(r, "shutdown")]
    <2>1. t \in Relay /\ t.claimed = relay[r].claimed
      BY <1>1 DEF Relay, Ended
    <2> QED
      BY <1>3, <1>9, <2>1 DEF TypeOK, Stop
  <1>10. CASE Exit(r)
    <2> DEFINE t == [relay[r] EXCEPT !.pc = "stopped"]
    <2>1. t \in Relay /\ t.claimed = relay[r].claimed
      BY <1>1 DEF Relay
    <2> QED
      BY <1>3, <1>10, <2>1 DEF TypeOK, Exit
  <1>11. CASE BudgetExpires(r)
    <2> DEFINE t == [relay[r] EXCEPT !.cause = "budget"]
    <2>1. t \in Relay /\ t.claimed = relay[r].claimed
      BY <1>1 DEF Relay
    <2> QED
      BY <1>3, <1>11, <2>1 DEF TypeOK, BudgetExpires
  <1>12. CASE PauseOver(r)
    <2> DEFINE t == [relay[r] EXCEPT !.paused = FALSE]
    <2>1. t \in Relay /\ t.claimed = relay[r].claimed
      BY <1>1 DEF Relay
    <2> QED
      BY <1>3, <1>12, <2>1 DEF TypeOK, PauseOver
  <1>13. CASE LoseTx(r)
    <2> DEFINE t == [relay[r] EXCEPT !.tx = "lost"]
    <2>1. t \in Relay /\ t.claimed = relay[r].claimed
      BY <1>1 DEF Relay
    <2>2. faults' \in Nat /\ lock' \in [Ids -> Relays \cup {NoRelay}]
      BY <1>2, <1>13 DEF LoseTx, Fault, TypeOK
    <2> QED
      BY <1>3, <1>13, <2>1, <2>2 DEF TypeOK, LoseTx
  <1>14. CASE Crash(r)
    <2>1. faults' \in Nat /\ lock' \in [Ids -> Relays \cup {NoRelay}]
      BY <1>2, <1>14 DEF Crash, Fault, TypeOK
    <2>2. /\ relay' \in [Relays -> Relay]
          /\ \A p \in Relays \ {r} : relay'[p].claimed = relay[p].claimed
      BY <1>14, FreshRelayType DEF Crash, TypeOK
    <2>3. shard' \in [Relays -> [Slots -> Shard]]
      BY <1>14, NoShardsType DEF Crash, TypeOK
    <2>4. ShardInv'
      BY <1>14, <2>2, NoShardsOK DEF Crash
    <2> QED
      BY <1>14, <2>1, <2>2, <2>3, <2>4 DEF TypeOK, Crash
  <1> QED
    BY <1>5, <1>6, <1>7, <1>8, <1>9, <1>10, <1>11, <1>12, <1>13, <1>14 DEF RelayStep

(* Every step on a row keeps types and ShardInv.                           *)
LEMMA RowStepTypes ==
    ASSUME TypeOK, ShardInv, NEW id \in Ids, RowStep(id)
    PROVE  TypeOK' /\ ShardInv'
  <1>1. CASE Enqueue(id)
    <2>1. outbox' \in [Ids -> Row]
      BY <1>1 DEF Enqueue, TypeOK, Row
    <2> QED
      BY <1>1, <2>1 DEF TypeOK, ShardInv, Enqueue
  <1>2. CASE RetryDue(id)
    <2>1. outbox' \in [Ids -> Row]
      BY <1>2 DEF RetryDue, TypeOK, Row
    <2> QED
      BY <1>2, <2>1 DEF TypeOK, ShardInv, RetryDue
  <1>3. CASE MarkerExpires(id)
    <2>1. faults' \in Nat /\ marker' \subseteq Ids
      BY <1>3 DEF MarkerExpires, Fault, TypeOK
    <2> QED
      BY <1>3, <2>1 DEF TypeOK, ShardInv, MarkerExpires
  <1> QED
    BY <1>1, <1>2, <1>3 DEF RowStep

(* The types hold initially.                                               *)
LEMMA InitTypes == Init => TypeOK /\ ShardInv
  <1> SUFFICES ASSUME Init PROVE TypeOK /\ ShardInv
    OBVIOUS
  <1>1. TypeOK
    <2>1. outbox \in [Ids -> Row]
      BY DEF Init, Row
    <2>2. relay \in [Relays -> Relay] /\ shard \in [Relays -> [Slots -> Shard]]
      BY FreshRelayType, NoShardsType DEF Init
    <2> QED
      BY <2>1, <2>2 DEF Init, TypeOK
  <1>2. ShardInv
    <2>1. \A r \in Relays, w \in Slots : shard[r][w] = NewShard(<<>>)
      BY DEF Init, NoShards
    <2>2. Range(<<>>) = {} /\ <<>> \in Seq(Ids)
      BY DEF Range
    <2> QED
      BY <2>1, <2>2, NewShardOK DEF ShardInv
  <1> QED
    BY <1>1, <1>2

(* Every step of relays, shards and rows keeps the types.                  *)
LEMMA NextTypes == TypeOK /\ ShardInv /\ [Next]_vars => TypeOK' /\ ShardInv'
  <1> SUFFICES ASSUME TypeOK, ShardInv, [Next]_vars PROVE TypeOK' /\ ShardInv'
    OBVIOUS
  <1>1. CASE UNCHANGED vars
    BY <1>1 DEF vars, TypeOK, ShardInv
  <1>2. CASE Next
    BY <1>2, ShardStepTypes, RelayStepTypes, RowStepTypes DEF Next
  <1> QED
    BY <1>1, <1>2

(* Type correctness: processShard's loops never read past their rows, and  *)
(* no step leaves the state the declarations describe.                     *)
THEOREM TypeCorrect == Spec => []TypeOK
  <1>1. Spec => [](TypeOK /\ ShardInv)
    BY InitTypes, NextTypes, PTL DEF Spec
  <1> QED
    BY <1>1, PTL

-----------------------------------------------------------------------------
(* The table, the locks and the relays under each kind of step.            *)

(* Goroutines touch neither the table nor the locks nor the claims.        *)
LEMMA ShardStepFrame ==
    ASSUME TypeOK, NEW r \in Relays, NEW w \in Slots, ShardStep(r, w)
    PROVE  /\ outbox' = outbox /\ lock' = lock
           /\ \A p \in Relays : /\ relay'[p].tx = relay[p].tx
                                /\ relay'[p].claimed = relay[p].claimed
                                /\ relay'[p].snap = relay[p].snap
  <1>1. outbox' = outbox /\ lock' = lock
    BY DEF ShardStep, ShardStart, CheckRow, Provider, SendAnswered, SendFailed, SendAborted,
           MarkRow, ShardPanics
  <1>2. \/ relay' = relay
        \/ \E cause : relay' = [relay EXCEPT ![r] = [relay[r] EXCEPT !.cause = cause]]
    BY DEF ShardStep, ShardStart, CheckRow, Provider, SendAnswered, SendFailed, SendAborted,
           MarkRow, ShardPanics
  <1>3. CASE relay' = relay
    BY <1>1, <1>3
  <1>4. ASSUME NEW cause, relay' = [relay EXCEPT ![r] = [relay[r] EXCEPT !.cause = cause]]
        PROVE  \A p \in Relays : /\ relay'[p].tx = relay[p].tx
                                 /\ relay'[p].claimed = relay[p].claimed
                                 /\ relay'[p].snap = relay[p].snap
    BY <1>4 DEF TypeOK, Relay
  <1> QED
    BY <1>1, <1>2, <1>3, <1>4

(* What a settlement does to a row: only rows of the claim, which are      *)
(* pending with the attempts that were read, and one outcome for each.     *)
LEMMA SettledRow ==
    ASSUME TypeOK, ShardInv, TxInv, NEW r \in Relays, Settle(r), NEW id \in Ids
    PROVE  /\ id \in Sent(r) \cup Retried(r) =>
                 /\ id \in Range(relay[r].claimed)
                 /\ outbox[id].status = "pending"
                 /\ outbox[id].attempts = relay[r].snap[id]
           /\ id \in Sent(r) =>
                 /\ outbox'[id].status = "deleted"
                 /\ outbox'[id].attempts = outbox[id].attempts
           /\ id \in (Retried(r) \ Exhausted(r)) \ Sent(r) =>
                 /\ outbox'[id].status = "pending"
                 /\ outbox'[id].attempts = outbox[id].attempts + 1
                 /\ relay[r].snap[id] + 1 < MaxAttempts
           /\ id \in Exhausted(r) \ Sent(r) =>
                 /\ outbox'[id].status = "failed"
                 /\ outbox'[id].attempts = outbox[id].attempts + 1
                 /\ relay[r].snap[id] + 1 >= MaxAttempts
           /\ id \notin Sent(r) \cup Retried(r) => outbox'[id] = outbox[id]
  <1> DEFINE D == Sent(r)
             F == Exhausted(r)
             R == Retried(r) \ F
  <1>1. /\ D \in SUBSET Ids /\ R \in SUBSET Ids /\ F \in SUBSET Ids /\ R \cap F = {}
        /\ R \cup F = Retried(r)
    BY CollectedRows
  <1>2. outbox' = MarkFailed(Reschedule(Delete(outbox, D), R), F)
    BY DEF Settle
  <1>3. id \in Sent(r) \cup Retried(r) =>
                 /\ id \in Range(relay[r].claimed)
                 /\ outbox[id].status = "pending"
                 /\ outbox[id].attempts = relay[r].snap[id]
    BY CollectedRows DEF TxInv, Settle
  <1>4. relay[r].snap[id] \in Nat
    BY DEF TypeOK, Relay
  <1>5. /\ id \in R => relay[r].snap[id] + 1 < MaxAttempts
        /\ id \in F => relay[r].snap[id] + 1 >= MaxAttempts
    BY <1>4, ConfigAssumption DEF Exhausted
  <1> HIDE DEF D, R, F
  <1>6. /\ id \in D => /\ outbox'[id].status = "deleted"
                       /\ outbox'[id].attempts = outbox[id].attempts
        /\ (outbox[id].status # "deleted" /\ id \in R \ D) =>
              /\ outbox'[id].status = "pending"
              /\ outbox'[id].attempts = outbox[id].attempts + 1
        /\ (outbox[id].status # "deleted" /\ id \in F \ D) =>
              /\ outbox'[id].status = "failed"
              /\ outbox'[id].attempts = outbox[id].attempts + 1
        /\ id \notin D \cup R \cup F => outbox'[id] = outbox[id]
    BY <1>1, <1>2, SettleRow
  <1> QED
    BY <1>1, <1>3, <1>5, <1>6 DEF D, R, F

(* The end of r's tick, or of r: r holds no claim, the others keep theirs. *)
LEMMA TickOverFrame ==
    ASSUME TypeOK, NEW r \in Relays,
           \/ \E pause \in BOOLEAN : TickOver(r, pause)
           \/ Crash(r)
    PROVE  /\ Range(relay'[r].claimed) = {}
           /\ \A p \in Relays \ {r} : relay'[p] = relay[p] /\ shard'[p] = shard[p]
           /\ \A p \in Relays \ {r} : \A id \in Ids : lock[id] = p => lock'[id] = p
           /\ \A w \in Slots : shard'[r][w] = NewShard(<<>>)
  <1>1. Range(<<>>) = {}
    BY DEF Range
  <1>2. lock' = Released(r) /\ shard' = [shard EXCEPT ![r] = NoShards]
    BY DEF TickOver, Crash
  <1>3. PICK t : t.claimed = <<>> /\ relay' = [relay EXCEPT ![r] = t]
    <2>1. CASE Crash(r)
      BY <2>1 DEF Crash, FreshRelay
    <2>2. ASSUME NEW pause \in BOOLEAN, TickOver(r, pause)
          PROVE  \E t : t.claimed = <<>> /\ relay' = [relay EXCEPT ![r] = t]
      <3>1. [FreshRelay EXCEPT !.stopping = relay[r].stopping, !.paused = pause].claimed = <<>>
        BY DEF FreshRelay
      <3> QED
        BY <2>2, <3>1 DEF TickOver
    <2> QED
      BY <2>1, <2>2
  <1>4. relay'[r] = t /\ \A p \in Relays \ {r} : relay'[p] = relay[p] /\ shard'[p] = shard[p]
    BY <1>2, <1>3 DEF TypeOK
  <1>5. \A p \in Relays \ {r} : \A id \in Ids : lock[id] = p => lock'[id] = p
    BY <1>2, NoRelayAssumption DEF Released, TypeOK
  <1>6. \A w \in Slots : shard'[r][w] = NewShard(<<>>)
    BY <1>2 DEF TypeOK, NoShards
  <1> QED
    BY <1>1, <1>3, <1>4, <1>5, <1>6

(* What a claim takes: unlocked, pending rows.                             *)
LEMMA ClaimFrame ==
    ASSUME TypeOK, NEW r \in Relays, Claim(r)
    PROVE  \E q \in Seq(Ids) :
              /\ Range(q) \subseteq Ids
              /\ \A id \in Range(q) : /\ outbox[id].status = "pending" /\ lock[id] = NoRelay
                                      /\ lock'[id] = r
              /\ \A id \in Ids \ Range(q) : lock'[id] = lock[id]
              /\ \A p \in Relays \ {r} : relay'[p] = relay[p] /\ shard'[p] = shard[p]
              /\ relay'[r].claimed = q
              /\ relay'[r].snap = [id \in Ids |-> outbox[id].attempts]
              /\ \A w \in Slots : \E x : shard'[r][w] = NewShard(x)
  <1>1. PICK n \in 1 .. Batch : \E q \in [1 .. n -> Ids] :
          /\ IsClaim(q)
          /\ lock' = [id \in Ids |-> IF id \in Range(q) THEN r ELSE lock[id]]
          /\ relay' = [relay EXCEPT ![r] =
                          [relay[r] EXCEPT !.pc = "dispatch", !.tx = "open", !.claimed = q,
                                           !.snap = [id \in Ids |-> outbox[id].attempts]]]
          /\ shard' = [shard EXCEPT ![r] = [w \in Slots |-> NewShard(shardBy(q, w))]]
    BY DEF Claim
  <1>2. PICK q \in [1 .. n -> Ids] :
          /\ IsClaim(q)
          /\ lock' = [id \in Ids |-> IF id \in Range(q) THEN r ELSE lock[id]]
          /\ relay' = [relay EXCEPT ![r] =
                          [relay[r] EXCEPT !.pc = "dispatch", !.tx = "open", !.claimed = q,
                                           !.snap = [id \in Ids |-> outbox[id].attempts]]]
          /\ shard' = [shard EXCEPT ![r] = [w \in Slots |-> NewShard(shardBy(q, w))]]
    BY <1>1
  <1>3. q \in Seq(Ids) /\ Range(q) \subseteq Ids
    BY ConfigAssumption DEF Range
  <1>4. \A id \in Range(q) : outbox[id].status = "pending" /\ lock[id] = NoRelay
    BY <1>2 DEF IsClaim, Claimable
  <1>5. /\ \A id \in Range(q) : lock'[id] = r
        /\ \A id \in Ids \ Range(q) : lock'[id] = lock[id]
    BY <1>2, <1>3
  <1>6. \A p \in Relays \ {r} : relay'[p] = relay[p] /\ shard'[p] = shard[p]
    BY <1>2 DEF TypeOK
  <1>7. relay'[r].claimed = q /\ relay'[r].snap = [id \in Ids |-> outbox[id].attempts]
    BY <1>2 DEF TypeOK, Relay
  <1>8. \A w \in Slots : shard'[r][w] = NewShard(shardBy(q, w))
    BY <1>2 DEF TypeOK
  <1> QED
    BY <1>3, <1>4, <1>5, <1>6, <1>7, <1>8

(* Stop, Exit, BudgetExpires and PauseOver change flags of r only; LoseTx  *)
(* also ends its transaction.                                              *)
LEMMA FlagFrame ==
    ASSUME TypeOK, NEW r \in Relays,
           Stop(r) \/ Exit(r) \/ BudgetExpires(r) \/ PauseOver(r) \/ LoseTx(r)
    PROVE  /\ UNCHANGED <<outbox, marker, accepted, charged, shard>>
           /\ \A p \in Relays : relay'[p].claimed = relay[p].claimed /\ relay'[p].snap = relay[p].snap
           /\ \A p \in Relays : relay'[p].tx = "open" => relay[p].tx = "open"
           /\ \A p \in Relays, id \in Ids :
                 (relay'[p].tx = "open" /\ lock[id] = p) => lock'[id] = p
  <1>1. CASE Stop(r) \/ Exit(r) \/ BudgetExpires(r) \/ PauseOver(r)
    <2>1. UNCHANGED <<outbox, marker, accepted, charged, shard, lock>>
      BY <1>1 DEF Stop, Exit, BudgetExpires, PauseOver
    <2>2. \A p \in Relays : /\ relay'[p].claimed = relay[p].claimed /\ relay'[p].snap = relay[p].snap
                            /\ relay'[p].tx = relay[p].tx
      <3>1. CASE Stop(r)
        BY <3>1 DEF Stop, TypeOK, Relay
      <3>2. CASE Exit(r)
        BY <3>2 DEF Exit, TypeOK, Relay
      <3>3. CASE BudgetExpires(r)
        BY <3>3 DEF BudgetExpires, TypeOK, Relay
      <3>4. CASE PauseOver(r)
        BY <3>4 DEF PauseOver, TypeOK, Relay
      <3> QED
        BY <1>1, <3>1, <3>2, <3>3, <3>4
    <2> QED
      BY <2>1, <2>2
  <1>2. CASE LoseTx(r)
    <2>1. \A p \in Relays : relay'[p].claimed = relay[p].claimed /\ relay'[p].snap = relay[p].snap
      BY <1>2 DEF LoseTx, TypeOK, Relay
    <2>2. relay'[r].tx = "lost" /\ \A p \in Relays \ {r} : relay'[p] = relay[p]
      BY <1>2 DEF LoseTx, TypeOK, Relay
    <2>3. \A p \in Relays \ {r}, id \in Ids : lock[id] = p => lock'[id] = p
      BY <1>2 DEF LoseTx, Released, TypeOK
    <2> QED
      BY <1>2, <2>1, <2>2, <2>3 DEF LoseTx
  <1> QED
    BY <1>1, <1>2

(* The steps that end a tick without storing anything.                     *)
LEMMA AbandonFrame ==
    ASSUME NEW r \in Relays, TickFails(r) \/ TickPanics(r) \/ Crash(r)
    PROVE  /\ UNCHANGED <<outbox, marker, accepted, charged>>
           /\ \/ \E pause \in BOOLEAN : TickOver(r, pause)
              \/ Crash(r)
  <1>1. CASE TickFails(r)
    BY <1>1 DEF TickFails
  <1>2. CASE TickPanics(r)
    BY <1>2 DEF TickPanics
  <1>3. CASE Crash(r)
    BY <1>3 DEF Crash
  <1> QED
    BY <1>1, <1>2, <1>3

(* The statuses and attempts of the rows change in Settle and Enqueue only.*)
LEMMA RowStepFrame ==
    ASSUME TypeOK, NEW id \in Ids, RowStep(id)
    PROVE  /\ UNCHANGED <<lock, accepted, charged, relay, shard>>
           /\ marker' \subseteq marker
           /\ \A x \in Ids : /\ outbox'[x].attempts = outbox[x].attempts
                             /\ \/ outbox'[x].status = outbox[x].status
                                \/ outbox[x].status = "none" /\ outbox'[x].status = "pending"
  <1>1. CASE Enqueue(id)
    BY <1>1 DEF Enqueue, TypeOK, Row
  <1>2. CASE RetryDue(id)
    BY <1>2 DEF RetryDue, TypeOK, Row
  <1>3. CASE MarkerExpires(id)
    BY <1>3 DEF MarkerExpires
  <1> QED
    BY <1>1, <1>2, <1>3 DEF RowStep

-----------------------------------------------------------------------------
(* TxInv: a relay with an open transaction owns its rows.                  *)

(* Every step keeps what an open transaction owns, and the attempts.       *)
LEMMA TxStep ==
    ASSUME TypeOK, ShardInv, TxInv, [Next]_vars
    PROVE  TxInv'
  <1> SUFFICES ASSUME NEW p \in Relays, NEW id \in Range(relay'[p].claimed)
               PROVE  /\ outbox'[id].status # "none"
                      /\ relay'[p].tx = "open" => /\ lock'[id] = p
                                                  /\ outbox'[id].status = "pending"
                                                  /\ outbox'[id].attempts = relay'[p].snap[id]
    BY DEF TxInv
  <1> DEFINE Owned == /\ outbox'[id].status # "none"
                      /\ relay'[p].tx = "open" => /\ lock'[id] = p
                                                  /\ outbox'[id].status = "pending"
                                                  /\ outbox'[id].attempts = relay'[p].snap[id]
  <1>0. TypeOK'
    BY NextTypes
  <1>1. id \in Ids
    BY <1>0 DEF TypeOK, Relay, Range
  <1>2. CASE UNCHANGED vars
    BY <1>2 DEF vars, TxInv
  <1>3. ASSUME NEW r \in Relays, NEW w \in Slots, ShardStep(r, w)
        PROVE  Owned
    BY <1>3, ShardStepFrame DEF TxInv
  <1>4. ASSUME NEW r \in Relays, Claim(r)
        PROVE  Owned
    <2>1. PICK q \in Seq(Ids) :
              /\ \A x \in Range(q) : /\ outbox[x].status = "pending" /\ lock[x] = NoRelay
                                     /\ lock'[x] = r
              /\ \A x \in Ids \ Range(q) : lock'[x] = lock[x]
              /\ \A v \in Relays \ {r} : relay'[v] = relay[v]
              /\ relay'[r].claimed = q
              /\ relay'[r].snap = [x \in Ids |-> outbox[x].attempts]
      BY <1>4, ClaimFrame
    <2>2. outbox' = outbox
      BY <1>4 DEF Claim
    <2>3. CASE p = r
      BY <1>1, <2>1, <2>2, <2>3
    <2>4. CASE p # r
      BY <1>1, <2>1, <2>2, <2>4, NoRelayAssumption DEF TxInv
    <2> QED
      BY <2>3, <2>4
  <1>5. ASSUME NEW r \in Relays, Settle(r)
        PROVE  Owned
    <2>1. \E pause \in BOOLEAN : TickOver(r, pause)
      BY <1>5 DEF Settle
    <2>2. p # r /\ relay'[p] = relay[p] /\ (lock[id] = p => lock'[id] = p)
      BY <1>1, <2>1, TickOverFrame
    <2>3. outbox[id].status # "none" /\
          (relay[p].tx = "open" => /\ lock[id] = p /\ outbox[id].status = "pending"
                                   /\ outbox[id].attempts = relay[p].snap[id])
      BY <2>2 DEF TxInv
    <2>4. outbox'[id].status # "none"
      BY <1>1, <1>5, <2>3, SettledRow
    <2>5. ASSUME relay[p].tx = "open" PROVE outbox'[id] = outbox[id]
      <3>1. id \notin Range(relay[r].claimed)
        BY <1>5, <2>2, <2>3, <2>5 DEF TxInv, Settle
      <3> QED
        BY <1>1, <1>5, <3>1, SettledRow
    <2> QED
      BY <2>2, <2>3, <2>4, <2>5
  <1>6. ASSUME NEW r \in Relays, TickFails(r) \/ TickPanics(r) \/ Crash(r)
        PROVE  Owned
    <2>1. outbox' = outbox
      BY <1>6, AbandonFrame
    <2>2. Range(relay'[r].claimed) = {}
      BY <1>6, AbandonFrame, TickOverFrame
    <2>3. p # r
      BY <2>2
    <2>4. relay'[p] = relay[p] /\ (lock[id] = p => lock'[id] = p)
      BY <1>1, <1>6, <2>3, AbandonFrame, TickOverFrame
    <2> QED
      BY <2>1, <2>4 DEF TxInv
  <1>7. ASSUME NEW r \in Relays, Stop(r) \/ Exit(r) \/ BudgetExpires(r) \/ PauseOver(r) \/ LoseTx(r)
        PROVE  Owned
    BY <1>1, <1>7, FlagFrame DEF TxInv
  <1>8. ASSUME NEW x \in Ids, RowStep(x)
        PROVE  Owned
    BY <1>1, <1>8, RowStepFrame DEF TxInv
  <1> QED
    BY <1>2, <1>3, <1>4, <1>5, <1>6, <1>7, <1>8 DEF Next, RelayStep

-----------------------------------------------------------------------------
(* Every step but Settle and RowStep leaves the table alone.               *)
LEMMA TableFrame ==
    ASSUME TypeOK, [Next]_vars
    PROVE  \/ outbox' = outbox
           \/ \E r \in Relays : Settle(r)
           \/ \E id \in Ids : RowStep(id)
  <1>1. CASE UNCHANGED vars
    BY <1>1 DEF vars
  <1>2. ASSUME NEW r \in Relays, NEW w \in Slots, ShardStep(r, w) PROVE outbox' = outbox
    BY <1>2, ShardStepFrame
  <1>3. ASSUME NEW r \in Relays, RelayStep(r), ~Settle(r) PROVE outbox' = outbox
    BY <1>3, FlagFrame, AbandonFrame DEF RelayStep, Claim
  <1> QED
    BY <1>1, <1>2, <1>3 DEF Next

(* AttemptsInv: attempts stay below MaxAttempts until the row fails.       *)
LEMMA AttemptsStep ==
    ASSUME TypeOK, ShardInv, TxInv, AttemptsInv, [Next]_vars
    PROVE  AttemptsInv'
  <1> SUFFICES ASSUME NEW id \in Ids
               PROVE  /\ outbox'[id].status = "failed" => outbox'[id].attempts = MaxAttempts
                      /\ outbox'[id].status = "pending" => outbox'[id].attempts < MaxAttempts
                      /\ outbox'[id].status = "none" => outbox'[id].attempts = 0
    BY DEF AttemptsInv, DeadLetterAtMaxAttempts
  <1>1. /\ outbox[id].status = "failed" => outbox[id].attempts = MaxAttempts
        /\ outbox[id].status = "pending" => outbox[id].attempts < MaxAttempts
        /\ outbox[id].status = "none" => outbox[id].attempts = 0
        /\ outbox[id].attempts \in Nat
    BY DEF AttemptsInv, DeadLetterAtMaxAttempts, TypeOK, Row
  <1>2. CASE outbox' = outbox
    BY <1>1, <1>2
  <1>3. ASSUME NEW r \in Relays, Settle(r)
        PROVE  /\ outbox'[id].status = "failed" => outbox'[id].attempts = MaxAttempts
               /\ outbox'[id].status = "pending" => outbox'[id].attempts < MaxAttempts
               /\ outbox'[id].status = "none" => outbox'[id].attempts = 0
    <2>1. CASE id \in Sent(r)
      BY <1>3, <2>1, SettledRow
    <2>2. CASE id \in (Retried(r) \ Exhausted(r)) \ Sent(r)
      BY <1>1, <1>3, <2>2, SettledRow
    <2>3. CASE id \in Exhausted(r) \ Sent(r)
      <3>1. id \in Retried(r)
        BY <2>3 DEF Exhausted
      <3> QED
        BY <1>1, <1>3, <2>3, <3>1, SettledRow, ConfigAssumption
    <2>4. CASE id \notin Sent(r) \cup Retried(r)
      BY <1>1, <1>3, <2>4, SettledRow
    <2> QED
      BY <2>1, <2>2, <2>3, <2>4
  <1>4. ASSUME NEW x \in Ids, RowStep(x)
        PROVE  /\ outbox'[id].status = "failed" => outbox'[id].attempts = MaxAttempts
               /\ outbox'[id].status = "pending" => outbox'[id].attempts < MaxAttempts
               /\ outbox'[id].status = "none" => outbox'[id].attempts = 0
    BY <1>1, <1>4, RowStepFrame, ConfigAssumption
  <1> QED
    BY <1>2, <1>3, <1>4, TableFrame

-----------------------------------------------------------------------------
(* DeliveryInv: what is recorded as sent was accepted by the provider.     *)

(* A step of a goroutine changes only its own state.                       *)
LEMMA OtherShards ==
    ASSUME TypeOK, NEW r \in Relays, NEW w \in Slots, ShardStep(r, w),
           NEW p \in Relays, NEW v \in Slots, ~(p = r /\ v = w)
    PROVE  shard'[p][v] = shard[p][v]
  <1>1. \A t : [shard EXCEPT ![r][w] = t][p][v] = shard[p][v]
    BY DEF TypeOK
  <1>2. \E t : shard' = [shard EXCEPT ![r][w] = t]
    BY DEF ShardStep, ShardStart, CheckRow, Provider, SendAnswered, SendFailed, SendAborted,
           MarkRow, ShardPanics
  <1> QED
    BY <1>1, <1>2

(* What a step of a goroutine adds to its sets, and to the histories.      *)
LEMMA ShardStepEffect ==
    ASSUME TypeOK, ShardInv, NEW r \in Relays, NEW w \in Slots, ShardStep(r, w)
    PROVE  /\ \A id \in Ids : accepted'[id] >= accepted[id] /\ charged'[id] >= charged[id]
           /\ \A id \in marker' : id \in marker \/ id \in shard[r][w].ok
           /\ \A id \in shard'[r][w].sent :
                 id \in shard[r][w].sent \/ id \in marker \/ id \in shard[r][w].ok
           /\ \A id \in shard'[r][w].ok : id \in shard[r][w].ok \/ accepted'[id] = accepted[id] + 1
           /\ \A id \in shard'[r][w].retry :
                 id \in shard[r][w].retry \/ charged'[id] = charged[id] + 1
  <1> DEFINE s == shard[r][w]
             t == shard'[r][w]
             Effect == /\ \A id \in Ids : accepted'[id] >= accepted[id] /\ charged'[id] >= charged[id]
                       /\ \A id \in marker' : id \in marker \/ id \in s.ok
                       /\ \A id \in t.sent : id \in s.sent \/ id \in marker \/ id \in s.ok
                       /\ \A id \in t.ok : id \in s.ok \/ accepted'[id] = accepted[id] + 1
                       /\ \A id \in t.retry : id \in s.retry \/ charged'[id] = charged[id] + 1
  <1> SUFFICES Effect
    OBVIOUS
  <1>1. s \in Shard
    BY DEF TypeOK
  <1>2. \A x : [shard EXCEPT ![r][w] = x][r][w] = x
    BY DEF TypeOK
  <1>3. \A id \in Ids : accepted[id] \in Nat /\ charged[id] \in Nat
    BY DEF TypeOK
  <1>4. CASE ShardStart(r, w)
    <2>1. t = [s EXCEPT !.pc = IF relay[r].cause = "live" THEN "check" ELSE "done"]
      BY <1>2, <1>4 DEF ShardStart
    <2>2. t.sent = s.sent /\ t.ok = s.ok /\ t.retry = s.retry
      BY <1>1, <2>1 DEF Shard
    <2> QED
      BY <1>3, <1>4, <2>2 DEF ShardStart
  <1>5. CASE CheckRow(r, w)
    <2> DEFINE row  == Head(s.todo)
               rest == Tail(s.todo)
               hit  == [s EXCEPT !.pc = IF rest # <<>> THEN "check"
                                        ELSE IF s.pending # <<>> THEN "send" ELSE "done",
                                 !.todo = rest, !.sent = @ \cup {row}]
               miss == [s EXCEPT !.pc = IF rest # <<>> THEN "check"
                                        ELSE IF Append(s.pending, row) # <<>> THEN "send" ELSE "done",
                                 !.todo = rest, !.pending = Append(@, row)]
    <2>1. (t = hit /\ row \in marker) \/ t = miss
      BY <1>2, <1>5 DEF CheckRow, WasSent
    <2>2. /\ hit.ok = s.ok /\ hit.retry = s.retry /\ hit.sent = s.sent \cup {row}
          /\ miss.ok = s.ok /\ miss.retry = s.retry /\ miss.sent = s.sent
      BY <1>1 DEF Shard
    <2>3. UNCHANGED <<marker, accepted, charged>>
      BY <1>5 DEF CheckRow
    <2> HIDE DEF hit, miss, row, t
    <2> QED
      BY <1>3, <2>1, <2>2, <2>3
  <1>6. ASSUME NEW A \in SUBSET Range(s.pending), Provider(r, w, A)
        PROVE  Effect
    <2>1. t = [s EXCEPT !.pc = "answer", !.ok = A]
      BY <1>2, <1>6 DEF Provider
    <2>2. t.sent = s.sent /\ t.ok = A /\ t.retry = s.retry
      BY <1>1, <2>1 DEF Shard
    <2>3. A \subseteq Ids
      BY <1>1 DEF Shard, Range
    <2>4. /\ \A id \in A : accepted'[id] = accepted[id] + 1
          /\ \A id \in Ids \ A : accepted'[id] = accepted[id]
          /\ UNCHANGED <<marker, charged>>
      BY <1>6, <2>3 DEF Provider
    <2> HIDE DEF t
    <2> QED
      BY <1>3, <2>2, <2>3, <2>4
  <1>7. CASE SendAnswered(r, w)
    <2>1. t = [s EXCEPT !.pc = "mark", !.todo = s.pending]
      BY <1>2, <1>7 DEF SendAnswered
    <2>2. t.sent = s.sent /\ t.ok = s.ok /\ t.retry = s.retry
      BY <1>1, <2>1 DEF Shard
    <2> QED
      BY <1>3, <1>7, <2>2 DEF SendAnswered
  <1>8. CASE SendFailed(r, w)
    <2>1. t = [s EXCEPT !.pc = "done", !.paused = TRUE]
      BY <1>2, <1>8 DEF SendFailed
    <2>2. t.sent = s.sent /\ t.ok = s.ok /\ t.retry = s.retry
      BY <1>1, <2>1 DEF Shard
    <2> QED
      BY <1>3, <1>8, <2>2 DEF SendFailed
  <1>9. CASE SendAborted(r, w)
    <2>1. t = [s EXCEPT !.pc = "done", !.paused = relay[r].cause # "shutdown"]
      BY <1>2, <1>9 DEF SendAborted
    <2>2. t.sent = s.sent /\ t.ok = s.ok /\ t.retry = s.retry
      BY <1>1, <2>1 DEF Shard
    <2> QED
      BY <1>3, <1>9, <2>2 DEF SendAborted
  <1>10. CASE MarkRow(r, w)
    <2> DEFINE row == Head(s.todo)
               u   == [s EXCEPT !.todo = Tail(@),
                                !.pc = IF Tail(s.todo) = <<>> THEN "done" ELSE "mark"]
               rejected  == [u EXCEPT !.retry = @ \cup {row}]
               delivered == [u EXCEPT !.delivered = @ + 1, !.sent = @ \cup {row}]
    <2>1. /\ rejected.sent = s.sent /\ rejected.ok = s.ok /\ rejected.retry = s.retry \cup {row}
          /\ delivered.sent = s.sent \cup {row} /\ delivered.ok = s.ok /\ delivered.retry = s.retry
      BY <1>1 DEF Shard
    <2>2. row \in Ids
      <3>1. s.todo # <<>> /\ s.todo \in Seq(Ids)
        BY <1>1, <1>10 DEF MarkRow, ShardInv, ShardOK, Shard
      <3> QED
        BY <3>1, HeadTailType
    <2>3. accepted' = accepted
      BY <1>10 DEF MarkRow
    <2>4. \/ t = rejected /\ marker' = marker /\ Charge({row})
          \/ /\ t = delivered /\ row \in s.ok /\ charged' = charged
             /\ marker' = marker \/ marker' = marker \cup {row}
      BY <1>2, <1>10 DEF MarkRow, MarkSent
    <2>5. Charge({row}) => /\ charged'[row] = charged[row] + 1
                           /\ \A id \in Ids : charged'[id] >= charged[id]
      BY <1>3, <2>2 DEF Charge
    <2> HIDE DEF rejected, delivered, row, t
    <2> QED
      BY <1>3, <2>1, <2>3, <2>4, <2>5
  <1>11. CASE ShardPanics(r, w)
    <2>1. t = [s EXCEPT !.pc = "done", !.retry = @ \cup Undelivered(s)]
      BY <1>2, <1>11 DEF ShardPanics
    <2>2. t.sent = s.sent /\ t.ok = s.ok /\ t.retry = s.retry \cup Undelivered(s)
      BY <1>1, <2>1 DEF Shard
    <2>3. Charge(Undelivered(s)) /\ UNCHANGED <<marker, accepted>>
      BY <1>11 DEF ShardPanics
    <2>4. t.retry \subseteq Ids
      <3>1. TypeOK'
        BY ShardStepTypes
      <3> QED
        BY <3>1 DEF TypeOK, Shard
    <2>5. /\ \A id \in Undelivered(s) \cap Ids : charged'[id] = charged[id] + 1
          /\ \A id \in Ids : charged'[id] >= charged[id]
      BY <1>3, <2>3 DEF Charge
    <2> HIDE DEF t
    <2> QED
      BY <1>3, <2>2, <2>3, <2>4, <2>5
  <1> QED
    BY <1>4, <1>5, <1>6, <1>7, <1>8, <1>9, <1>10, <1>11 DEF ShardStep

(* A relay step takes nothing from the histories and adds nothing to the   *)
(* sets of a goroutine; it adds no marker.                                 *)
LEMMA RelayStepEffect ==
    ASSUME TypeOK, NEW r \in Relays, RelayStep(r)
    PROVE  /\ UNCHANGED <<marker, accepted, charged>>
           /\ \A p \in Relays, v \in Slots :
                 \/ shard'[p][v] = shard[p][v]
                 \/ p = r /\ \E q : shard'[p][v] = NewShard(q)
  <1>1. CASE Claim(r)
    <2>1. PICK q \in Seq(Ids) :
              /\ \A p \in Relays \ {r} : shard'[p] = shard[p]
              /\ \A w \in Slots : \E x : shard'[r][w] = NewShard(x)
      BY <1>1, ClaimFrame
    <2> QED
      BY <1>1, <2>1 DEF Claim
  <1>2. CASE Settle(r)
    <2>1. \E pause \in BOOLEAN : TickOver(r, pause)
      BY <1>2 DEF Settle
    <2> QED
      BY <1>2, <2>1, TickOverFrame DEF Settle
  <1>3. CASE TickFails(r) \/ TickPanics(r) \/ Crash(r)
    BY <1>3, AbandonFrame, TickOverFrame
  <1>4. CASE Stop(r) \/ Exit(r) \/ BudgetExpires(r) \/ PauseOver(r) \/ LoseTx(r)
    BY <1>4, FlagFrame
  <1> QED
    BY <1>1, <1>2, <1>3, <1>4 DEF RelayStep

(* Every step keeps "sent" true of accepted messages only.                 *)
LEMMA DeliveryStep ==
    ASSUME TypeOK, ShardInv, TxInv, DeliveryInv, [Next]_vars
    PROVE  DeliveryInv'
  <1>1. TypeOK' /\ \A id \in Ids : accepted[id] \in Nat /\ accepted'[id] \in Nat
    BY NextTypes DEF TypeOK
  <1>2. CASE UNCHANGED vars
    BY <1>2 DEF vars, DeliveryInv, DeletedWasDelivered
  <1>3. ASSUME NEW r \in Relays, NEW w \in Slots, ShardStep(r, w)
        PROVE  DeliveryInv'
    <2>1. outbox' = outbox /\ \A id \in Ids : accepted'[id] >= accepted[id]
      BY <1>3, ShardStepFrame, ShardStepEffect
    <2>2. DeletedWasDelivered'
      BY <1>1, <2>1 DEF DeliveryInv, DeletedWasDelivered
    <2>3. \A id \in marker' : accepted'[id] >= 1
      <3>1. \A id \in marker' : id \in Ids /\ (id \in marker \/ id \in shard[r][w].ok)
        BY <1>1, <1>3, ShardStepEffect DEF TypeOK
      <3> QED
        BY <1>1, <2>1, <3>1 DEF DeliveryInv
    <2>4. ASSUME NEW p \in Relays, NEW v \in Slots,
                 NEW id \in shard'[p][v].ok \cup shard'[p][v].sent
          PROVE  accepted'[id] >= 1
      <3>1. id \in Ids
        <4>1. shard'[p][v] \in Shard
          BY <1>1 DEF TypeOK
        <4>2. \A t \in Shard : t.ok \subseteq Ids /\ t.sent \subseteq Ids
          BY DEF Shard
        <4> QED
          BY <4>1, <4>2
      <3>2. CASE p = r /\ v = w
        <4>1. \/ id \in shard[r][w].sent \/ id \in marker \/ id \in shard[r][w].ok
              \/ accepted'[id] = accepted[id] + 1
          BY <1>3, <3>2, ShardStepEffect
        <4> QED
          BY <1>1, <2>1, <3>1, <4>1 DEF DeliveryInv
      <3>3. CASE ~(p = r /\ v = w)
        <4>1. shard'[p][v] = shard[p][v]
          BY <1>3, <3>3, OtherShards
        <4> QED
          BY <1>1, <2>1, <3>1, <4>1 DEF DeliveryInv
      <3> QED
        BY <3>2, <3>3
    <2> QED
      BY <2>2, <2>3, <2>4 DEF DeliveryInv
  <1>4. ASSUME NEW r \in Relays, RelayStep(r)
        PROVE  DeliveryInv'
    <2>1. UNCHANGED <<marker, accepted>>
      BY <1>4, RelayStepEffect
    <2>2. \A p \in Relays, v \in Slots :
            /\ shard'[p][v].ok \subseteq shard[p][v].ok
            /\ shard'[p][v].sent \subseteq shard[p][v].sent
      <3>1. \A q : NewShard(q).ok = {} /\ NewShard(q).sent = {}
        BY DEF NewShard
      <3> QED
        BY <1>4, <3>1, RelayStepEffect
    <2>3. DeletedWasDelivered'
      <3> SUFFICES ASSUME NEW id \in Ids, outbox'[id].status = "deleted"
                   PROVE  accepted[id] >= 1
        BY <2>1 DEF DeletedWasDelivered
      <3>1. CASE outbox' = outbox
        BY <3>1 DEF DeliveryInv, DeletedWasDelivered
      <3>2. CASE Settle(r)
        <4>1. id \in Sent(r) \/ outbox'[id] = outbox[id]
          BY <3>2, SettledRow DEF Exhausted
        <4>2. \A x \in Sent(r) : accepted[x] >= 1
          BY DEF Sent, DeliveryInv
        <4> QED
          BY <4>1, <4>2 DEF DeliveryInv, DeletedWasDelivered
      <3> QED
        BY <1>4, <3>1, <3>2, FlagFrame, AbandonFrame DEF RelayStep, Claim
    <2> QED
      BY <2>1, <2>2, <2>3 DEF DeliveryInv
  <1>5. ASSUME NEW x \in Ids, RowStep(x)
        PROVE  DeliveryInv'
    BY <1>5, RowStepFrame DEF DeliveryInv, DeletedWasDelivered
  <1> QED
    BY <1>2, <1>3, <1>4, <1>5 DEF Next

-----------------------------------------------------------------------------
(* ChargeInv: no attempt is counted that was not charged.                  *)

(* Every step keeps the attempts below what was charged.                   *)
LEMMA ChargeStep ==
    ASSUME TypeOK, ShardInv, TxInv, ChargeInv, [Next]_vars
    PROVE  ChargeInv'
  <1>1. TypeOK' /\ \A id \in Ids : /\ charged[id] \in Nat /\ charged'[id] \in Nat
                                   /\ outbox[id].attempts \in Nat
    BY NextTypes DEF TypeOK, Row
  <1>2. \A p \in Relays, v \in Slots : shard'[p][v].retry \subseteq Ids
    BY <1>1 DEF TypeOK, Shard
  <1>3. CASE UNCHANGED vars
    BY <1>3 DEF vars, ChargeInv, AttemptsAreCharged
  <1>4. ASSUME NEW r \in Relays, NEW w \in Slots, ShardStep(r, w)
        PROVE  ChargeInv'
    <2>1. /\ outbox' = outbox /\ \A id \in Ids : charged'[id] >= charged[id]
          /\ \A p \in Relays : relay'[p].tx = relay[p].tx
      BY <1>4, ShardStepFrame, ShardStepEffect
    <2>2. AttemptsAreCharged'
      BY <1>1, <2>1 DEF ChargeInv, AttemptsAreCharged
    <2>3. ASSUME NEW p \in Relays, NEW v \in Slots, NEW id \in shard'[p][v].retry,
                 relay'[p].tx = "open"
          PROVE  outbox'[id].attempts < charged'[id]
      <3>1. id \in shard[p][v].retry \/ charged'[id] = charged[id] + 1
        BY <1>4, <2>3, OtherShards, ShardStepEffect
      <3> QED
        BY <1>1, <1>2, <2>1, <2>3, <3>1 DEF ChargeInv, AttemptsAreCharged
    <2> QED
      BY <2>2, <2>3 DEF ChargeInv
  <1>5. ASSUME NEW r \in Relays, RelayStep(r)
        PROVE  ChargeInv'
    <2>1. charged' = charged
      BY <1>5, RelayStepEffect
    <2>2. ASSUME NEW p \in Relays, NEW v \in Slots, NEW id \in shard'[p][v].retry,
                 relay'[p].tx = "open"
          PROVE  /\ id \in shard[p][v].retry /\ relay[p].tx = "open"
                 /\ Settle(r) => p # r
      <3>1. \A q : NewShard(q).retry = {}
        BY DEF NewShard
      <3>2. shard'[p][v] = shard[p][v]
        BY <1>5, <2>2, <3>1, RelayStepEffect
      <3>3. CASE Claim(r)
        <4>1. p # r
          <5>1. \A u \in Slots : \E x : shard'[r][u] = NewShard(x)
            BY <3>3, ClaimFrame
          <5> QED
            BY <2>2, <3>1, <5>1
        <4>2. relay'[p] = relay[p]
          BY <3>3, <4>1, ClaimFrame, ZenonT(60)
        <4> QED
          BY <2>2, <3>2, <4>1, <4>2
      <3>4. CASE Settle(r) \/ TickFails(r) \/ TickPanics(r) \/ Crash(r)
        <4>1. (\E pause \in BOOLEAN : TickOver(r, pause)) \/ Crash(r)
          BY <3>4, AbandonFrame DEF Settle
        <4>2. p # r
          BY <2>2, <3>1, <4>1, TickOverFrame
        <4>3. relay'[p] = relay[p]
          BY <4>1, <4>2, TickOverFrame
        <4> QED
          BY <2>2, <3>2, <4>2, <4>3
      <3>5. CASE Stop(r) \/ Exit(r) \/ BudgetExpires(r) \/ PauseOver(r) \/ LoseTx(r)
        <4>1. relay[p].tx = "open"
          BY <2>2, <3>5, FlagFrame
        <4> QED
          BY <2>2, <3>2, <3>4, <4>1
      <3> QED
        BY <1>5, <3>3, <3>4, <3>5 DEF RelayStep
    <2>3. CASE outbox' = outbox
      BY <2>1, <2>2, <2>3 DEF ChargeInv, AttemptsAreCharged
    <2>4. CASE Settle(r)
      <3>1. ASSUME NEW id \in Ids PROVE outbox'[id].attempts <= charged[id]
        <4>1. CASE id \in Retried(r)
          <5>1. outbox[id].attempts < charged[id]
            BY <2>4, <4>1 DEF Retried, ChargeInv, Settle
          <5>2. outbox'[id].attempts \in {outbox[id].attempts, outbox[id].attempts + 1}
            BY <2>4, <4>1, SettledRow
          <5> QED
            BY <1>1, <5>1, <5>2
        <4>2. CASE id \notin Retried(r)
          <5>1. outbox'[id].attempts = outbox[id].attempts
            BY <2>4, <4>2, SettledRow
          <5> QED
            BY <5>1 DEF ChargeInv, AttemptsAreCharged
        <4> QED
          BY <4>1, <4>2
      <3>2. ASSUME NEW p \in Relays, NEW v \in Slots, NEW id \in shard'[p][v].retry,
                   relay'[p].tx = "open"
            PROVE  outbox'[id].attempts < charged'[id]
        <4>1. id \in shard[p][v].retry /\ relay[p].tx = "open" /\ p # r /\ id \in Ids
          BY <1>2, <2>2, <2>4, <3>2
        <4>2. id \in Range(relay[p].claimed)
          BY <4>1 DEF ShardInv, ShardOK
        <4>3. id \notin Range(relay[r].claimed)
          BY <2>4, <4>1, <4>2 DEF TxInv, Settle
        <4>4. outbox'[id] = outbox[id]
          BY <2>4, <4>1, <4>3, SettledRow
        <4> QED
          BY <2>1, <4>1, <4>4 DEF ChargeInv
      <3> QED
        BY <2>1, <3>1, <3>2 DEF ChargeInv, AttemptsAreCharged
    <2> QED
      BY <1>5, <2>3, <2>4, FlagFrame, AbandonFrame DEF RelayStep, Claim
  <1>6. ASSUME NEW x \in Ids, RowStep(x)
        PROVE  ChargeInv'
    <2>1. \A p \in Relays, v \in Slots : \A id \in shard[p][v].retry : id \in Ids
      BY DEF TypeOK, Shard
    <2> QED
      BY <1>6, <2>1, RowStepFrame DEF ChargeInv, AttemptsAreCharged
  <1> QED
    BY <1>3, <1>4, <1>5, <1>6 DEF Next

-----------------------------------------------------------------------------
(* PlaceInv: where the rows of a tick are.                                 *)

(* The head of a list of rows and what is left of it.                      *)
LEMMA HeadTailRows ==
    ASSUME NEW q \in Seq(Ids), q # <<>>
    PROVE  /\ Range(q) = {Head(q)} \cup Range(Tail(q))
           /\ IsInjective(q) => IsInjective(Tail(q)) /\ Head(q) \notin Range(Tail(q))
  <1>1. /\ Len(q) \in Nat \ {0} /\ Head(q) = q[1] /\ DOMAIN q = 1 .. Len(q)
        /\ DOMAIN Tail(q) = 1 .. Len(q) - 1
        /\ \A i \in 1 .. Len(q) - 1 : Tail(q)[i] = q[i + 1] /\ i + 1 \in 1 .. Len(q)
    OBVIOUS
  <1>2. Range(q) = {q[i] : i \in 1 .. Len(q)}
    BY <1>1 DEF Range
  <1>3. Range(Tail(q)) = {q[i + 1] : i \in 1 .. Len(q) - 1}
    BY <1>1 DEF Range
  <1>4. ASSUME NEW i \in 1 .. Len(q), i # 1 PROVE i - 1 \in 1 .. Len(q) - 1 /\ (i - 1) + 1 = i
    <2>1. Len(q) \in Nat
      BY <1>1
    <2> QED
      BY <1>4, <2>1
  <1>5. ASSUME NEW x \in Range(q) PROVE x \in {Head(q)} \cup Range(Tail(q))
    <2>1. PICK i \in 1 .. Len(q) : x = q[i]
      BY <1>2, <1>5
    <2>2. CASE i = 1
      BY <1>1, <2>1, <2>2
    <2>3. CASE i # 1
      <3>1. Tail(q)[i - 1] = q[i] /\ i - 1 \in DOMAIN Tail(q)
        BY <1>1, <1>4, <2>3
      <3> QED
        BY <2>1, <3>1 DEF Range
    <2> QED
      BY <2>2, <2>3
  <1>6. Range(q) = {Head(q)} \cup Range(Tail(q))
    BY <1>5, HeadTailType
  <1>7. ASSUME IsInjective(q) PROVE IsInjective(Tail(q)) /\ Head(q) \notin Range(Tail(q))
    <2>1. \A i, j \in 1 .. Len(q) : q[i] = q[j] => i = j
      BY <1>1, <1>7 DEF IsInjective
    <2>2. IsInjective(Tail(q))
      <3> SUFFICES ASSUME NEW i \in 1 .. Len(q) - 1, NEW j \in 1 .. Len(q) - 1, q[i + 1] = q[j + 1]
                   PROVE  i = j
        BY <1>1 DEF IsInjective
      <3>1. i + 1 = j + 1
        BY <1>1, <2>1
      <3> QED
        BY <3>1
    <2>3. ASSUME NEW i \in 1 .. Len(q) - 1 PROVE q[i + 1] # q[1]
      <3>1. 1 \in 1 .. Len(q) /\ i + 1 \in 1 .. Len(q) /\ i + 1 # 1
        BY <1>1
      <3> QED
        BY <2>1, <3>1
    <2>4. Head(q) \notin Range(Tail(q))
      BY <1>1, <1>3, <2>3
    <2> QED
      BY <2>2, <2>4
  <1> QED
    BY <1>6, <1>7

(* The rows of a list with one more.                                       *)
LEMMA AppendRows ==
    ASSUME NEW q \in Seq(Ids), NEW id \in Ids
    PROVE  Range(Append(q, id)) = Range(q) \cup {id}
  <1>1. /\ Len(q) \in Nat /\ Len(Append(q, id)) = Len(q) + 1 /\ Append(q, id) \in Seq(Ids)
        /\ \A i \in 1 .. Len(q) : Append(q, id)[i] = q[i]
        /\ Append(q, id)[Len(q) + 1] = id
    OBVIOUS
  <1>2. DOMAIN Append(q, id) = 1 .. Len(q) + 1 /\ DOMAIN q = 1 .. Len(q)
    BY <1>1
  <1>3. ASSUME NEW x \in Range(q) \cup {id} PROVE x \in Range(Append(q, id))
    <2>1. CASE x = id
      BY <1>1, <1>2, <2>1 DEF Range
    <2>2. CASE x \in Range(q)
      <3>1. PICK i \in 1 .. Len(q) : x = q[i]
        BY <1>2, <2>2 DEF Range
      <3>2. i \in DOMAIN Append(q, id) /\ Append(q, id)[i] = x
        BY <1>1, <1>2, <3>1
      <3> QED
        BY <3>2 DEF Range
    <2> QED
      BY <1>3, <2>1, <2>2
  <1> QED
    BY <1>3, AppendType

(* shardBy: an ascending claim is cut into slices that share no row.       *)
LEMMA SlicesApart ==
    ASSUME NEW q \in Seq(Ids), Len(q) > 0, \A i, j \in DOMAIN q : i < j => q[i] < q[j]
    PROVE  /\ \A w \in Slots : IsInjective(shardBy(q, w))
           /\ \A w, v \in Slots : w # v => Range(shardBy(q, w)) \cap Range(shardBy(q, v)) = {}
  <1> DEFINE workers == IF Workers > Len(q) THEN Len(q) ELSE Workers
             size    == (Len(q) + workers - 1) \div workers
             start(w) == (w - 1) * size
             end(w)  == IF start(w) + size < Len(q) THEN start(w) + size ELSE Len(q)
  <1>1. workers \in Nat \ {0} /\ Len(q) \in Nat /\ DOMAIN q = 1 .. Len(q)
    BY ConfigAssumption
  <1>2. \A x \in Nat, y \in Nat \ {0} : x \div y \in Nat
    BY SMT
  <1>3. size \in Nat
    <2> HIDE DEF workers
    <2> QED BY <1>1, <1>2
  <1>4. \A x, y \in Nat : x * y \in Nat
    BY SMT
  <1>5. \A w \in Slots : w - 1 \in Nat /\ w \in Nat
    BY ConfigAssumption DEF Slots
  <1>6. \A w \in Slots : shardBy(q, w) = SubSeq(q, start(w) + 1, end(w))
    BY DEF shardBy
  <1> HIDE DEF workers, size
  <1>7. \A w \in Slots : start(w) \in Nat
    BY <1>3, <1>4, <1>5
  <1>8. ASSUME NEW w \in Slots, NEW v \in Slots, w < v PROVE start(w) + size <= start(v)
    <2>1. \A x, y, z \in Nat : x < y => x * z + z <= y * z
      <3> SUFFICES ASSUME NEW x \in Nat, NEW y \in Nat, NEW z \in Nat, x < y
                   PROVE  x * z + z <= y * z
        OBVIOUS
      <3>1. PICK k \in Nat : y = x + 1 + k
        <4>1. y - x - 1 \in Nat /\ y = x + 1 + (y - x - 1)
          OBVIOUS
        <4> QED
          BY <4>1
      <3>2. y * z = x * z + z + k * z
        BY <3>1, SMT
      <3>3. k * z \in Nat /\ x * z \in Nat
        BY <1>4
      <3> QED
        BY <3>2, <3>3
    <2>2. w - 1 < v - 1
      BY <1>5, <1>8
    <2> QED
      BY <1>3, <1>5, <2>1, <2>2
  <1> HIDE DEF start
  <1>9. ASSUME NEW w \in Slots
        PROVE  /\ DOMAIN shardBy(q, w) \subseteq Nat
               /\ \A i \in DOMAIN shardBy(q, w) :
                  /\ shardBy(q, w)[i] = q[start(w) + i]
                  /\ start(w) + i \in 1 .. Len(q) /\ start(w) < start(w) + i
                  /\ start(w) + i <= start(w) + size
    <2>1. start(w) \in Nat /\ end(w) \in Int /\ end(w) <= Len(q) /\ end(w) <= start(w) + size
      BY <1>1, <1>3, <1>7
    <2> HIDE DEF end
    <2>2. shardBy(q, w) = SubSeq(q, start(w) + 1, end(w))
      BY <1>6
    <2>3. DOMAIN SubSeq(q, start(w) + 1, end(w)) = 1 .. end(w) - start(w)
      BY <2>1, <1>1, SMT
    <2>4. ASSUME NEW i \in 1 .. end(w) - start(w)
          PROVE  SubSeq(q, start(w) + 1, end(w))[i] = q[start(w) + i]
      BY <2>1, <2>4, <1>1, SMTT(30)
    <2>5. ASSUME NEW i \in 1 .. end(w) - start(w)
          PROVE  /\ start(w) + i \in 1 .. Len(q) /\ start(w) < start(w) + i
                 /\ start(w) + i <= start(w) + size
      BY <2>1, <1>1, <1>3
    <2>6. 1 .. end(w) - start(w) \subseteq Nat
      BY <2>1
    <2> QED
      BY <2>2, <2>3, <2>4, <2>5, <2>6
  <1>10. \A i, j \in DOMAIN q : q[i] = q[j] => i = j
    <2>1. \A i \in DOMAIN q : q[i] \in Nat
      <3>1. \A i \in DOMAIN q : q[i] \in Ids
        OBVIOUS
      <3> QED
        BY <3>1, IdsAssumption
    <2>2. \A i, j \in DOMAIN q : i \in Int /\ j \in Int
      BY <1>1
    <2> QED
      BY <2>1, <2>2
  <1>11. ASSUME NEW w \in Slots PROVE IsInjective(shardBy(q, w))
    <2> SUFFICES ASSUME NEW i \in DOMAIN shardBy(q, w), NEW j \in DOMAIN shardBy(q, w),
                        shardBy(q, w)[i] = shardBy(q, w)[j]
                 PROVE  i = j
      BY DEF IsInjective
    <2>1. start(w) + i = start(w) + j
      BY <1>1, <1>9, <1>10
    <2> QED
      BY <1>7, <1>9, <2>1
  <1>12. ASSUME NEW w \in Slots, NEW v \in Slots, w < v,
                NEW x \in Range(shardBy(q, w)), x \in Range(shardBy(q, v))
         PROVE  FALSE
    <2>1. PICK i \in DOMAIN shardBy(q, w) : x = shardBy(q, w)[i]
      BY <1>12 DEF Range
    <2>2. PICK j \in DOMAIN shardBy(q, v) : x = shardBy(q, v)[j]
      BY <1>12 DEF Range
    <2>3. start(w) + i = start(v) + j
      <3>1. q[start(w) + i] = x /\ start(w) + i \in DOMAIN q
        BY <1>1, <1>9, <2>1
      <3>2. q[start(v) + j] = x /\ start(v) + j \in DOMAIN q
        BY <1>1, <1>9, <2>2
      <3> QED
        BY <1>10, <3>1, <3>2
    <2>4. start(w) + i <= start(w) + size /\ start(v) < start(v) + j
      BY <1>9, <2>1, <2>2
    <2>5. start(w) + size <= start(v)
      BY <1>8, <1>12
    <2>6. start(w) \in Nat /\ start(v) \in Nat /\ size \in Nat /\ i \in Nat /\ j \in Nat
      BY <1>3, <1>7, <1>9
    <2> QED
      BY <2>3, <2>4, <2>5, <2>6
  <1>13. \A w, v \in Slots : w # v => w < v \/ v < w
    BY <1>5
  <1> QED
    BY <1>11, <1>12, <1>13

(* Division as the provers know it.                                        *)
LEMMA Division ==
    ASSUME NEW x \in Nat, NEW y \in Nat \ {0}
    PROVE  /\ x \div y \in Nat
           /\ (x \div y) * y <= x /\ x < (x \div y) * y + y
  BY SMT

LEMMA LessByFactor ==
    ASSUME NEW x \in Nat, NEW y \in Nat, NEW z \in Nat, x * z < y * z
    PROVE  x < y
  <1> SUFFICES ASSUME ~(x < y) PROVE FALSE
    OBVIOUS
  <1>1. PICK k \in Nat : x = y + k
    <2>1. x - y \in Nat /\ x = y + (x - y)
      OBVIOUS
    <2> QED
      BY <2>1
  <1>2. x * z = y * z + k * z
    BY <1>1, SMT
  <1>3. k * z \in Nat /\ y * z \in Nat
    BY SMT
  <1> QED
    BY <1>2, <1>3

(* shardBy loses no row: the slices of the slots cover the claim.          *)
LEMMA SlicesCover ==
    ASSUME NEW q \in Seq(Ids), Len(q) > 0, NEW i \in DOMAIN q
    PROVE  \E w \in Slots : q[i] \in Range(shardBy(q, w))
  <1> DEFINE n       == Len(q)
             workers == IF Workers > n THEN n ELSE Workers
             size    == (n + workers - 1) \div workers
             k       == (i - 1) \div size
             start   == k * size
             end     == IF start + size < n THEN start + size ELSE n
  <1>1. workers \in Nat \ {0} /\ workers <= Workers /\ Workers \in Nat /\ n \in Nat \ {0} /\ i \in 1 .. n
    BY ConfigAssumption
  <1> HIDE DEF workers
  <1>2. /\ size \in Nat /\ n + workers - 1 < size * workers + workers
        /\ size * workers \in Nat
    <2>1. n + workers - 1 \in Nat
      BY <1>1
    <2>2. size \in Nat /\ n + workers - 1 < size * workers + workers
      BY <1>1, <2>1, Division
    <2> HIDE DEF size
    <2>3. size * workers \in Nat
      BY <1>1, <2>2, SMT
    <2> QED
      BY <2>2, <2>3
  <1> HIDE DEF n, size
  <1>3. n <= size * workers
    <2> DEFINE p == size * workers
    <2>1. p \in Nat /\ n + workers - 1 < p + workers
      BY <1>2
    <2> HIDE DEF p
    <2>2. n <= p
      BY <1>1, <2>1
    <2> QED
      BY <2>2 DEF p
  <1>4. size # 0
    <2>1. size = 0 => size * workers = 0
      BY <1>1, SMT
    <2> QED
      BY <1>1, <1>3, <2>1
  <1>5. k \in Nat /\ start <= i - 1 /\ i - 1 < start + size
    <2>1. i - 1 \in Nat /\ size \in Nat \ {0}
      BY <1>1, <1>2, <1>4
    <2> QED
      BY <2>1, Division
  <1> HIDE DEF k
  <1>6. start \in Nat /\ k < workers
    <2>1. start \in Nat
      BY <1>2, <1>5, SMT
    <2>2. start < size * workers
      <3> DEFINE p == size * workers
      <3> HIDE DEF p, start
      <3>1. p \in Nat /\ n <= p
        BY <1>2, <1>3 DEF p
      <3>2. start < p
        BY <1>1, <1>5, <2>1, <3>1
      <3> QED
        BY <3>2 DEF p
    <2>3. size * workers = workers * size
      BY <1>1, <1>2, SMT
    <2>4. k * size < workers * size
      BY <2>2, <2>3
    <2> QED
      BY <1>1, <1>2, <1>5, <2>1, <2>4, LessByFactor
  <1>7. k + 1 \in Slots
    BY <1>1, <1>5, <1>6 DEF Slots
  <1>8. shardBy(q, k + 1) = SubSeq(q, start + 1, end)
    <2>1. (k + 1) - 1 = k
      BY <1>5
    <2> QED
      BY <2>1 DEF shardBy, n, workers, size
  <1> HIDE DEF start
  <1>9. end \in Int /\ end <= n /\ i <= end /\ start < i
    BY <1>1, <1>2, <1>5, <1>6
  <1> HIDE DEF end
  <1>10. SubSeq(q, start + 1, end)[i - start] = q[i] /\ i - start \in DOMAIN SubSeq(q, start + 1, end)
    <2>1. i - start \in 1 .. end - start /\ start + (i - start) = i
      BY <1>1, <1>6, <1>9
    <2>2. DOMAIN SubSeq(q, start + 1, end) = 1 .. end - start
      BY <1>6, <1>9, SMT DEF n
    <2>3. ASSUME NEW j \in 1 .. end - start
          PROVE  SubSeq(q, start + 1, end)[j] = q[start + j]
      BY <1>6, <1>9, <2>3, SMTT(30) DEF n
    <2> QED
      BY <2>1, <2>2, <2>3
  <1>11. q[i] \in Range(SubSeq(q, start + 1, end))
    BY <1>10 DEF Range
  <1> QED
    BY <1>7, <1>8, <1>11

(* dispatch hands every claimed row to exactly one goroutine, and to it    *)
(* once, whatever the size of the claim and the number of workers: shardBy *)
(* neither drops a row nor lets two shards send it.                        *)
THEOREM ShardsPartitionTheClaim ==
    ASSUME NEW q \in Seq(Ids), Len(q) > 0, \A i, j \in DOMAIN q : i < j => q[i] < q[j]
    PROVE  /\ Range(q) = UNION {Range(shardBy(q, w)) : w \in Slots}
           /\ \A w, v \in Slots : w # v => Range(shardBy(q, w)) \cap Range(shardBy(q, v)) = {}
           /\ \A w \in Slots : IsInjective(shardBy(q, w))
  <1>1. \A x \in Range(q) : \E w \in Slots : x \in Range(shardBy(q, w))
    BY SlicesCover DEF Range
  <1>2. \A w \in Slots : Range(shardBy(q, w)) \subseteq Range(q)
    BY ShardByType
  <1>3. Range(q) = UNION {Range(shardBy(q, w)) : w \in Slots}
    BY <1>1, <1>2
  <1> QED
    BY <1>3, SlicesApart

(* What goroutine w of r does to a row without a fault: it leaves what was *)
(* accepted, or offers the message to the provider.                        *)
Kept(r, w, id) ==
    /\ accepted'[id] = accepted[id]
    /\ id \in Safe(shard'[r][w]) => id \in Safe(shard[r][w]) \cup marker

Offered(r, w, id) ==
    /\ accepted'[id] = accepted[id] + 1
    /\ relay[r].cause = "live" /\ id \in Checked(shard[r][w])
    /\ id \in Safe(shard'[r][w])
    /\ id \notin Safe(shard[r][w]) /\ id \notin Unsent(shard'[r][w])

(* Where the rows of a goroutine go in one step of processShard.           *)
LEMMA ShardStepPlaces ==
    ASSUME TypeOK, ShardInv, PlaceInv, NEW r \in Relays, NEW w \in Slots, ShardStep(r, w)
    PROVE  /\ Work(shard'[r][w]) \subseteq Work(shard[r][w])
           /\ Unsent(shard'[r][w]) \subseteq Unsent(shard[r][w])
           /\ Placed(shard'[r][w])
           /\ marker \subseteq marker'
           /\ \A p \in Relays : /\ relay'[p].pc = relay[p].pc
                                /\ relay'[p].cause = "live" => relay[p].cause = "live"
           /\ \/ faults' = faults + 1 /\ accepted' = accepted
              \/ /\ faults' = faults
                 /\ Safe(shard[r][w]) \subseteq Safe(shard'[r][w])
                 /\ Checked(shard'[r][w]) \subseteq Checked(shard[r][w]) \cup (Ids \ marker)
                       \/ relay'[r].cause # "live"
                 /\ \A id \in Ids : Kept(r, w, id) \/ Offered(r, w, id)
  <1> DEFINE s == shard[r][w]
             t == shard'[r][w]
             Moves == Work(t) \subseteq Work(s) /\ Unsent(t) \subseteq Unsent(s) /\ Placed(t)
             Causes == \A p \in Relays : /\ relay'[p].pc = relay[p].pc
                                         /\ relay'[p].cause = "live" => relay[p].cause = "live"
             Paid == faults' = faults + 1 /\ accepted' = accepted
             Free == /\ faults' = faults
                     /\ Safe(s) \subseteq Safe(t)
                     /\ Checked(t) \subseteq Checked(s) \cup (Ids \ marker)
                           \/ relay'[r].cause # "live"
                     /\ \A id \in Ids : Kept(r, w, id) \/ Offered(r, w, id)
             Goal == Moves /\ marker \subseteq marker' /\ Causes /\ (Paid \/ Free)
  <1> SUFFICES Goal
    OBVIOUS
  <1>1. s \in Shard /\ Placed(s) /\ ShardOK(s, Range(relay[r].claimed))
    BY DEF TypeOK, PlaceInv, ShardInv
  <1>2. \A x : [shard EXCEPT ![r][w] = x][r][w] = x
    BY DEF TypeOK
  <1>3. s.todo \in Seq(Ids) /\ s.pending \in Seq(Ids) /\ s.ok \subseteq Ids /\ s.sent \subseteq Ids
    BY <1>1 DEF Shard
  <1>4. relay' = relay => Causes
    OBVIOUS
  <1>5. relay' = [relay EXCEPT ![r] = [relay[r] EXCEPT !.cause = Ended(r, "paused")]] => Causes
    <2>1. relay[r] \in Relay /\ relay \in [Relays -> Relay]
      BY DEF TypeOK
    <2>2. Ended(r, "paused") # "live"
      BY DEF Ended
    <2> QED
      BY <2>1, <2>2 DEF Relay
  <1>6. CASE ShardStart(r, w)
    <2>1. t = [s EXCEPT !.pc = IF relay[r].cause = "live" THEN "check" ELSE "done"] /\ s.pc = "start"
      BY <1>2, <1>6 DEF ShardStart
    <2>2. /\ t.todo = s.todo /\ t.pending = s.pending /\ t.ok = s.ok /\ t.sent = s.sent
          /\ t.retry = s.retry /\ t.pc \in {"check", "done"}
      BY <1>1, <2>1 DEF Shard
    <2>3. UNCHANGED <<marker, accepted, faults, relay>>
      BY <1>6 DEF ShardStart
    <2> HIDE DEF s, t
    <2>4. Moves
      BY <1>1, <2>1, <2>2 DEF Work, Unsent, Checked, Placed
    <2>5. Safe(t) = Safe(s) /\ Checked(t) \subseteq Checked(s)
      BY <2>1, <2>2 DEF Safe, Checked
    <2> QED
      BY <1>4, <2>3, <2>4, <2>5 DEF Kept, s, t
  <1>7. CASE CheckRow(r, w)
    <2> DEFINE row  == Head(s.todo)
               rest == Tail(s.todo)
               hit  == [s EXCEPT !.pc = IF rest # <<>> THEN "check"
                                        ELSE IF s.pending # <<>> THEN "send" ELSE "done",
                                 !.todo = rest, !.sent = @ \cup {row}]
               miss == [s EXCEPT !.pc = IF rest # <<>> THEN "check"
                                        ELSE IF Append(s.pending, row) # <<>> THEN "send" ELSE "done",
                                 !.todo = rest, !.pending = Append(@, row)]
    <2>1. s.pc = "check" /\ s.todo # <<>>
      BY <1>1, <1>7 DEF CheckRow, ShardOK
    <2>2. /\ Range(s.todo) = {row} \cup Range(rest) /\ row \in Ids
          /\ IsInjective(rest) /\ row \notin Range(rest)
          /\ Range(Append(s.pending, row)) = Range(s.pending) \cup {row}
      BY <1>1, <1>3, <2>1, HeadTailRows, HeadTailType, AppendRows DEF Placed
    <2>3. Range(s.todo) \cap (Range(s.pending) \cup s.sent) = {} /\ Range(s.pending) \cap s.sent = {}
      BY <1>1, <2>1 DEF Placed
    <2>4. /\ hit.pc \in {"check", "send", "done"} /\ hit.todo = rest /\ hit.pending = s.pending
          /\ hit.ok = s.ok /\ hit.sent = s.sent \cup {row} /\ hit.retry = s.retry
          /\ miss.pc \in {"check", "send", "done"} /\ miss.todo = rest
          /\ miss.pending = Append(s.pending, row)
          /\ miss.ok = s.ok /\ miss.sent = s.sent /\ miss.retry = s.retry
      BY <1>1 DEF Shard
    <2>5. \/ t = hit /\ row \in marker /\ faults' = faults
          \/ t = miss /\ row \notin marker /\ faults' = faults
          \/ t = miss /\ relay[r].cause # "live" /\ faults' = faults
          \/ t = miss /\ faults' = faults + 1
      BY <1>2, <1>7 DEF CheckRow, WasSent, Fault
    <2>6. UNCHANGED <<marker, accepted, relay>>
      BY <1>7 DEF CheckRow
    <2> HIDE DEF hit, miss, row, rest, s, t
    <2>7. t = hit => /\ Work(t) \subseteq Work(s) /\ Unsent(t) \subseteq Unsent(s) /\ Placed(t)
                     /\ Safe(t) = Safe(s) \cup {row} /\ Checked(t) \subseteq Checked(s)
      BY <2>1, <2>2, <2>3, <2>4 DEF Work, Unsent, Checked, Placed, Safe
    <2>8. t = miss => /\ Work(t) \subseteq Work(s) /\ Unsent(t) \subseteq Unsent(s) /\ Placed(t)
                      /\ Safe(t) = Safe(s) /\ Checked(t) \subseteq Checked(s) \cup {row}
      BY <2>1, <2>2, <2>3, <2>4 DEF Work, Unsent, Checked, Placed, Safe
    <2>9. CASE t = hit /\ row \in marker /\ faults' = faults
      BY <1>4, <2>6, <2>7, <2>9 DEF Kept, s, t
    <2>10. CASE t = miss /\ row \notin marker /\ faults' = faults
      BY <1>4, <2>2, <2>6, <2>8, <2>10 DEF Kept, s, t
    <2>11. CASE t = miss /\ relay[r].cause # "live" /\ faults' = faults
      BY <1>4, <2>6, <2>8, <2>11 DEF Kept, s, t
    <2>12. CASE t = miss /\ faults' = faults + 1
      BY <1>4, <2>6, <2>8, <2>12 DEF s, t
    <2> QED
      BY <2>5, <2>9, <2>10, <2>11, <2>12
  <1>8. ASSUME NEW A \in SUBSET Range(s.pending), Provider(r, w, A)
        PROVE  Goal
    <2>1. t = [s EXCEPT !.pc = "answer", !.ok = A] /\ s.pc = "send" /\ relay[r].cause = "live"
      BY <1>2, <1>8 DEF Provider
    <2>2. /\ t.todo = s.todo /\ t.pending = s.pending /\ t.ok = A /\ t.sent = s.sent
          /\ t.retry = s.retry /\ t.pc = "answer"
      BY <1>1, <2>1 DEF Shard
    <2>3. /\ UNCHANGED <<marker, faults, relay>>
          /\ accepted' = [id \in Ids |-> IF id \in A THEN accepted[id] + 1 ELSE accepted[id]]
      BY <1>8 DEF Provider
    <2>4. Range(s.pending) \cap s.sent = {}
      BY <1>1, <2>1 DEF Placed
    <2> HIDE DEF s, t
    <2>5. Moves
      BY <1>8, <2>1, <2>2 DEF Work, Unsent, Checked, Placed
    <2>6. /\ Safe(s) = s.sent /\ Safe(t) = s.sent \cup A /\ Checked(t) = {} /\ Unsent(t) = {}
          /\ A \subseteq Checked(s) /\ A \cap Safe(s) = {}
      BY <1>8, <2>1, <2>2, <2>4 DEF Safe, Checked, Unsent
    <2>7. ASSUME NEW id \in Ids PROVE Kept(r, w, id) \/ Offered(r, w, id)
      <3>1. CASE id \in A
        BY <2>1, <2>3, <2>6, <3>1 DEF Offered, s, t
      <3>2. CASE id \notin A
        BY <2>3, <2>6, <3>2 DEF Kept, s, t
      <3> QED
        BY <3>1, <3>2
    <2> QED
      BY <1>4, <2>3, <2>5, <2>6, <2>7 DEF s, t
  <1>9. CASE SendAnswered(r, w)
    <2>1. t = [s EXCEPT !.pc = "mark", !.todo = s.pending] /\ s.pc = "answer"
      BY <1>2, <1>9 DEF SendAnswered
    <2>2. /\ t.todo = s.pending /\ t.pending = s.pending /\ t.ok = s.ok /\ t.sent = s.sent
          /\ t.retry = s.retry /\ t.pc = "mark"
      BY <1>1, <2>1 DEF Shard
    <2>3. UNCHANGED <<marker, accepted, faults, relay>>
      BY <1>9 DEF SendAnswered
    <2> HIDE DEF s, t
    <2>4. Moves
      BY <2>1, <2>2 DEF Work, Unsent, Checked, Placed
    <2>5. Safe(t) = Safe(s) /\ Checked(t) = {}
      BY <2>1, <2>2 DEF Safe, Checked
    <2> QED
      BY <1>4, <2>3, <2>4, <2>5 DEF Kept, s, t
  <1>10. CASE SendFailed(r, w)
    <2>1. t = [s EXCEPT !.pc = "done", !.paused = TRUE]
      BY <1>2, <1>10 DEF SendFailed
    <2>2. /\ t.todo = s.todo /\ t.pending = s.pending /\ t.ok = s.ok /\ t.sent = s.sent
          /\ t.retry = s.retry /\ t.pc = "done"
      BY <1>1, <2>1 DEF Shard
    <2>3. /\ UNCHANGED <<marker, accepted>> /\ faults' = faults + 1
          /\ relay' = [relay EXCEPT ![r] = [relay[r] EXCEPT !.cause = Ended(r, "paused")]]
      BY <1>10 DEF SendFailed, Fault
    <2> HIDE DEF s, t
    <2>4. Moves
      BY <2>2 DEF Work, Unsent, Checked, Placed
    <2> QED
      BY <1>5, <2>3, <2>4 DEF s, t
  <1>11. CASE SendAborted(r, w)
    <2> DEFINE pause == relay[r].cause # "shutdown"
    <2>1. t = [s EXCEPT !.pc = "done", !.paused = pause] /\ s.pc \in {"send", "answer"}
      BY <1>2, <1>11 DEF SendAborted
    <2>2. /\ t.todo = s.todo /\ t.pending = s.pending /\ t.ok = s.ok /\ t.sent = s.sent
          /\ t.retry = s.retry /\ t.pc = "done"
      <3> HIDE DEF pause
      <3> QED
        BY <1>1, <2>1 DEF Shard
    <2>3. /\ UNCHANGED <<marker, accepted, relay>> /\ relay[r].cause # "live"
          /\ \/ faults' = faults + 1
             \/ faults' = faults /\ ~(s.pc = "answer" /\ s.ok # {})
      BY <1>11 DEF SendAborted, Fault
    <2> HIDE DEF s, t
    <2>4. Moves
      BY <2>2 DEF Work, Unsent, Checked, Placed
    <2>5. ~(s.pc = "answer" /\ s.ok # {}) => Safe(t) = Safe(s)
      BY <2>1, <2>2 DEF Safe
    <2>6. Checked(t) = {}
      BY <2>2 DEF Checked
    <2> QED
      BY <1>4, <2>3, <2>4, <2>5, <2>6 DEF Kept, s, t
  <1>12. CASE MarkRow(r, w)
    <2> DEFINE row == Head(s.todo)
               u   == [s EXCEPT !.todo = Tail(@),
                                !.pc = IF Tail(s.todo) = <<>> THEN "done" ELSE "mark"]
               rejected  == [u EXCEPT !.retry = @ \cup {row}]
               delivered == [u EXCEPT !.delivered = @ + 1, !.sent = @ \cup {row}]
    <2>1. s.pc = "mark" /\ s.todo # <<>>
      BY <1>1, <1>12 DEF MarkRow, ShardOK
    <2>2. /\ Range(s.todo) = {row} \cup Range(Tail(s.todo)) /\ row \in Ids
          /\ Tail(s.todo) = <<>> => Range(Tail(s.todo)) = {}
      <3>1. Range(<<>>) = {}
        BY DEF Range
      <3> QED
        BY <1>3, <2>1, <3>1, HeadTailRows, HeadTailType
    <2>3. /\ rejected.todo = Tail(s.todo) /\ rejected.pending = s.pending /\ rejected.ok = s.ok
          /\ rejected.sent = s.sent /\ rejected.retry = s.retry \cup {row}
          /\ rejected.pc = IF Tail(s.todo) = <<>> THEN "done" ELSE "mark"
          /\ delivered.todo = Tail(s.todo) /\ delivered.pending = s.pending /\ delivered.ok = s.ok
          /\ delivered.sent = s.sent \cup {row} /\ delivered.retry = s.retry
          /\ delivered.pc = IF Tail(s.todo) = <<>> THEN "done" ELSE "mark"
      BY <1>1 DEF Shard
    <2>4. UNCHANGED <<accepted, relay>> /\ marker \subseteq marker'
      BY <1>12 DEF MarkRow, MarkSent
    <2>5. \/ t = rejected /\ row \notin s.ok /\ faults' = faults
          \/ t = delivered /\ row \in s.ok /\ faults' = faults
          \/ t = delivered /\ faults' = faults + 1
      BY <1>2, <1>12 DEF MarkRow, MarkSent, Fault
    <2> HIDE DEF rejected, delivered, row, s, t
    <2>6. t = rejected \/ t = delivered => Moves
      BY <2>1, <2>2, <2>3 DEF Work, Unsent, Checked, Placed
    <2>7. /\ t = rejected /\ row \notin s.ok => Safe(t) = Safe(s)
          /\ t = delivered /\ row \in s.ok => Safe(t) = Safe(s)
          /\ t = rejected \/ t = delivered => Checked(t) = {}
      BY <2>1, <2>2, <2>3 DEF Safe, Checked
    <2> QED
      BY <1>4, <2>4, <2>5, <2>6, <2>7 DEF Kept, s, t
  <1>13. CASE ShardPanics(r, w)
    <2>1. t = [s EXCEPT !.pc = "done", !.retry = @ \cup Undelivered(s)]
      BY <1>2, <1>13 DEF ShardPanics
    <2>2. /\ t.todo = s.todo /\ t.pending = s.pending /\ t.ok = s.ok /\ t.sent = s.sent
          /\ t.retry = s.retry \cup Undelivered(s) /\ t.pc = "done"
      BY <1>1, <2>1 DEF Shard
    <2>3. /\ UNCHANGED <<marker, accepted>> /\ faults' = faults + 1
          /\ relay' = [relay EXCEPT ![r] = [relay[r] EXCEPT !.cause = Ended(r, "paused")]]
      BY <1>13 DEF ShardPanics, Fault
    <2>4. Undelivered(s) \subseteq Range(s.pending)
      <3>1. s.delivered + 1 \in Nat \ {0} /\ Len(s.pending) \in Int /\ Len(s.pending) <= Len(s.pending)
        BY <1>1, <1>3 DEF Shard
      <3> QED
        BY <1>3, <3>1, SliceType DEF Undelivered
    <2> HIDE DEF s, t
    <2>5. Moves
      BY <2>2, <2>4 DEF Work, Unsent, Checked, Placed
    <2> QED
      BY <1>5, <2>3, <2>5 DEF s, t
  <1> QED
    BY <1>6, <1>7, <1>8, <1>9, <1>10, <1>11, <1>12, <1>13 DEF ShardStep, s

(* The parts of a goroutine's rows.                                        *)
LEMMA WorkParts ==
    ASSUME NEW s
    PROVE  /\ Safe(s) \subseteq Work(s) /\ Unsent(s) \subseteq Work(s)
           /\ Checked(s) \subseteq Unsent(s)
           /\ Placed(s) => Safe(s) \cap Unsent(s) = {}
  BY DEF Safe, Work, Unsent, Checked, Placed

(* A goroutine before its first row.                                       *)
LEMMA FreshWork ==
    ASSUME NEW q
    PROVE  /\ Work(NewShard(q)) = Range(q) /\ Safe(NewShard(q)) = {} /\ Checked(NewShard(q)) = {}
           /\ IsInjective(q) => Placed(NewShard(q))
  <1>1. Range(<<>>) = {}
    BY DEF Range
  <1> QED
    BY <1>1 DEF Work, NewShard, Safe, Checked, Placed

(* A slot without a goroutine has no rows.                                 *)
LEMMA NoWork ==
    /\ Work(NewShard(<<>>)) = {} /\ Placed(NewShard(<<>>))
    /\ Safe(NewShard(<<>>)) = {} /\ Unsent(NewShard(<<>>)) = {} /\ Checked(NewShard(<<>>)) = {}
  <1>1. Range(<<>>) = {} /\ IsInjective(<<>>)
    BY DEF Range, IsInjective
  <1> QED
    BY <1>1, FreshWork, WorkParts

(* The rows of a goroutine are rows of its relay's claim.                  *)
LEMMA WorkIsClaimed ==
    ASSUME ShardInv, NEW r \in Relays, NEW w \in Slots
    PROVE  Work(shard[r][w]) \subseteq Range(relay[r].claimed)
  BY DEF ShardInv, ShardOK, Work

(* A row is with at most one goroutine of an open transaction, and with at *)
(* most one goroutine of each relay.                                       *)
LEMMA OneHolder ==
    ASSUME TypeOK, ShardInv, TxInv, PlaceInv,
           NEW r \in Relays, NEW p \in Relays, NEW w \in Slots, NEW v \in Slots,
           r = p \/ (relay[r].tx = "open" /\ relay[p].tx = "open"),
           NEW id \in Work(shard[r][w]), id \in Work(shard[p][v])
    PROVE  r = p /\ w = v
  <1>1. r = p
    BY WorkIsClaimed DEF TxInv
  <1> QED
    BY <1>1 DEF PlaceInv

(* The end of r's tick, or of r, leaves it without a transaction.          *)
LEMMA TickOverTx ==
    ASSUME TypeOK, NEW r \in Relays,
           \/ \E pause \in BOOLEAN : TickOver(r, pause)
           \/ Crash(r)
    PROVE  relay'[r].tx = "none"
  <1>1. CASE Crash(r)
    BY <1>1 DEF Crash, FreshRelay, TypeOK
  <1>2. ASSUME NEW pause \in BOOLEAN, TickOver(r, pause)
        PROVE  relay'[r].tx = "none"
    <2>1. [FreshRelay EXCEPT !.stopping = relay[r].stopping, !.paused = pause].tx = "none"
      BY DEF FreshRelay
    <2> QED
      BY <1>2, <2>1 DEF TickOver, TypeOK
  <1> QED
    BY <1>1, <1>2

(* A claim gives each goroutine a slice of its own.                        *)
LEMMA ClaimSlices ==
    ASSUME TypeOK, NEW r \in Relays, Claim(r)
    PROVE  /\ relay'[r].pc = "dispatch" /\ relay'[r].tx = "open"
           /\ \A p \in Relays \ {r} : relay'[p] = relay[p] /\ shard'[p] = shard[p]
           /\ \E q \in Seq(Ids) :
                 /\ \A w \in Slots : /\ shard'[r][w] = NewShard(shardBy(q, w))
                                     /\ IsInjective(shardBy(q, w))
                 /\ \A w, v \in Slots :
                       w # v => Range(shardBy(q, w)) \cap Range(shardBy(q, v)) = {}
  <1>1. PICK n \in 1 .. Batch : \E q \in [1 .. n -> Ids] :
          /\ IsClaim(q)
          /\ relay' = [relay EXCEPT ![r] =
                          [relay[r] EXCEPT !.pc = "dispatch", !.tx = "open", !.claimed = q,
                                           !.snap = [id \in Ids |-> outbox[id].attempts]]]
          /\ shard' = [shard EXCEPT ![r] = [w \in Slots |-> NewShard(shardBy(q, w))]]
    BY DEF Claim
  <1>2. PICK q \in [1 .. n -> Ids] :
          /\ IsClaim(q)
          /\ relay' = [relay EXCEPT ![r] =
                          [relay[r] EXCEPT !.pc = "dispatch", !.tx = "open", !.claimed = q,
                                           !.snap = [id \in Ids |-> outbox[id].attempts]]]
          /\ shard' = [shard EXCEPT ![r] = [w \in Slots |-> NewShard(shardBy(q, w))]]
    BY <1>1
  <1>3. q \in Seq(Ids) /\ Len(q) > 0
    BY ConfigAssumption
  <1>4. \A i, j \in DOMAIN q : i < j => q[i] < q[j]
    BY <1>2 DEF IsClaim
  <1>5. /\ \A w \in Slots : IsInjective(shardBy(q, w))
        /\ \A w, v \in Slots : w # v => Range(shardBy(q, w)) \cap Range(shardBy(q, v)) = {}
    BY <1>3, <1>4, SlicesApart
  <1>6. /\ \A p \in Relays \ {r} : relay'[p] = relay[p] /\ shard'[p] = shard[p]
        /\ \A w \in Slots : shard'[r][w] = NewShard(shardBy(q, w))
    BY <1>2 DEF TypeOK
  <1>7. relay'[r].pc = "dispatch" /\ relay'[r].tx = "open"
    BY <1>2 DEF TypeOK, Relay
  <1> QED
    BY <1>3, <1>5, <1>6, <1>7

(* Stop, Exit, BudgetExpires and PauseOver leave the transactions and end  *)
(* contexts only.                                                          *)
LEMMA FlagTx ==
    ASSUME TypeOK, NEW r \in Relays, Stop(r) \/ Exit(r) \/ BudgetExpires(r) \/ PauseOver(r)
    PROVE  /\ faults' = faults
           /\ \A p \in Relays : /\ relay'[p].tx = relay[p].tx
                                /\ relay'[p].pc # "dispatch" => relay[p].pc # "dispatch"
                                /\ relay'[p].cause = "live" => relay[p].cause = "live"
  <1>1. faults' = faults
    BY DEF Stop, Exit, BudgetExpires, PauseOver
  <1>2. CASE Stop(r)
    <2>1. Ended(r, "shutdown") = "live" => relay[r].cause = "live"
      BY DEF Ended
    <2> QED
      BY <1>1, <1>2, <2>1 DEF Stop, TypeOK, Relay
  <1>3. CASE Exit(r)
    BY <1>1, <1>3 DEF Exit, TypeOK, Relay
  <1>4. CASE BudgetExpires(r)
    BY <1>1, <1>4 DEF BudgetExpires, TypeOK, Relay
  <1>5. CASE PauseOver(r)
    BY <1>1, <1>5 DEF PauseOver, TypeOK, Relay
  <1> QED
    BY <1>2, <1>3, <1>4, <1>5

(* LoseTx takes r's transaction.                                           *)
LEMMA LoseTxFrame ==
    ASSUME TypeOK, NEW r \in Relays, LoseTx(r)
    PROVE  /\ relay[r].tx = "open" /\ relay'[r].tx = "lost" /\ relay'[r].pc = relay[r].pc
           /\ \A p \in Relays \ {r} : relay'[p] = relay[p]
           /\ faults' = faults + 1
  BY DEF LoseTx, Fault, TypeOK, Relay

(* PlaceInv is kept.                                                       *)
LEMMA PlaceStep ==
    ASSUME TypeOK, ShardInv, PlaceInv, [Next]_vars
    PROVE  PlaceInv'
  <1> DEFINE Fits(p) ==
               /\ relay'[p].pc # "dispatch" => relay'[p].tx = "none"
               /\ relay'[p].tx = "none" => Range(relay'[p].claimed) = {}
               /\ \A w \in Slots : Placed(shard'[p][w])
               /\ \A w, v \in Slots : w # v => Work(shard'[p][w]) \cap Work(shard'[p][v]) = {}
  <1> SUFFICES ASSUME NEW p \in Relays PROVE Fits(p)
    BY DEF PlaceInv
  <1>1. /\ relay[p].pc # "dispatch" => relay[p].tx = "none"
        /\ relay[p].tx = "none" => Range(relay[p].claimed) = {}
        /\ \A w \in Slots : Placed(shard[p][w])
        /\ \A w, v \in Slots : w # v => Work(shard[p][w]) \cap Work(shard[p][v]) = {}
    BY DEF PlaceInv
  <1>2. relay'[p] = relay[p] /\ shard'[p] = shard[p] => Fits(p)
    BY <1>1
  <1>3. CASE UNCHANGED vars
    BY <1>2, <1>3 DEF vars
  <1>4. ASSUME NEW r \in Relays, NEW w \in Slots, ShardStep(r, w) PROVE Fits(p)
    <2>1. \A v \in Slots : /\ Work(shard'[p][v]) \subseteq Work(shard[p][v])
                          /\ Placed(shard'[p][v])
      BY <1>1, <1>4, ShardStepPlaces, OtherShards
    <2>2. /\ relay'[p].tx = relay[p].tx /\ relay'[p].claimed = relay[p].claimed
          /\ relay'[p].pc = relay[p].pc
      BY <1>4, ShardStepFrame, ShardStepPlaces
    <2> QED
      BY <1>1, <2>1, <2>2
  <1>5. ASSUME NEW r \in Relays, Claim(r) PROVE Fits(p)
    <2>1. CASE p # r
      BY <1>2, <1>5, <2>1, ClaimSlices
    <2>2. CASE p = r
      <3>1. PICK q \in Seq(Ids) :
                 /\ \A w \in Slots : /\ shard'[r][w] = NewShard(shardBy(q, w))
                                     /\ IsInjective(shardBy(q, w))
                 /\ \A w, v \in Slots :
                       w # v => Range(shardBy(q, w)) \cap Range(shardBy(q, v)) = {}
        BY <1>5, ClaimSlices
      <3>2. relay'[r].pc = "dispatch" /\ relay'[r].tx = "open"
        BY <1>5, ClaimSlices
      <3>3. \A w \in Slots : /\ Work(shard'[r][w]) = Range(shardBy(q, w))
                            /\ Placed(shard'[r][w])
        BY <3>1, FreshWork
      <3> QED
        BY <2>2, <3>1, <3>2, <3>3
    <2> QED
      BY <2>1, <2>2
  <1>6. ASSUME NEW r \in Relays, Settle(r) \/ TickFails(r) \/ TickPanics(r) \/ Crash(r)
        PROVE  Fits(p)
    <2>1. (\E pause \in BOOLEAN : TickOver(r, pause)) \/ Crash(r)
      BY <1>6, AbandonFrame DEF Settle
    <2>2. CASE p # r
      BY <1>2, <2>1, <2>2, TickOverFrame
    <2>3. CASE p = r
      <3>1. Range(relay'[r].claimed) = {} /\ \A w \in Slots : shard'[r][w] = NewShard(<<>>)
        BY <2>1, TickOverFrame
      <3>2. relay'[r].tx = "none"
        BY <2>1, TickOverTx
      <3> QED
        BY <2>3, <3>1, <3>2, NoWork
    <2> QED
      BY <2>2, <2>3
  <1>7. ASSUME NEW r \in Relays, Stop(r) \/ Exit(r) \/ BudgetExpires(r) \/ PauseOver(r)
        PROVE  Fits(p)
    <2>1. shard' = shard /\ relay'[p].claimed = relay[p].claimed
      BY <1>7, FlagFrame
    <2>2. /\ relay'[p].tx = relay[p].tx
          /\ relay'[p].pc # "dispatch" => relay[p].pc # "dispatch"
      BY <1>7, FlagTx
    <2> QED
      BY <1>1, <2>1, <2>2
  <1>8. ASSUME NEW r \in Relays, LoseTx(r) PROVE Fits(p)
    <2>1. shard' = shard
      BY <1>8, FlagFrame
    <2>2. CASE p # r
      BY <1>2, <1>8, <2>1, <2>2, LoseTxFrame
    <2>3. CASE p = r
      <3>1. relay[r].tx = "open" /\ relay'[r].tx = "lost" /\ relay'[r].pc = relay[r].pc
        BY <1>8, LoseTxFrame
      <3> QED
        BY <1>1, <2>1, <2>3, <3>1
    <2> QED
      BY <2>2, <2>3
  <1>9. ASSUME NEW id \in Ids, RowStep(id) PROVE Fits(p)
    BY <1>2, <1>9, RowStepFrame
  <1> QED
    BY <1>3, <1>4, <1>5, <1>6, <1>7, <1>8, <1>9 DEF Next, RelayStep

-----------------------------------------------------------------------------
(* DebtInv: every delivery after the first has been paid for.              *)

(* A step that sends nothing, and adds nothing to come without a fault.    *)
LEMMA DebtKept ==
    ASSUME TypeOK, NEW id \in Ids, PaidFor(id),
           Astray(id)' \subseteq Astray(id), accepted'[id] = accepted[id],
           \/ faults' = faults /\ (Deliverable(id)' => Deliverable(id))
           \/ faults' = faults + 1
    PROVE  PaidFor(id)'
  <1>1. IsFiniteSet(Astray(id)) /\ Cardinality(Astray(id)) \in Nat
    BY FS_CardinalityType DEF PaidFor
  <1>2. /\ IsFiniteSet(Astray(id)') /\ Cardinality(Astray(id)') \in Nat
        /\ Cardinality(Astray(id)') <= Cardinality(Astray(id))
    BY <1>1, FS_Subset, FS_CardinalityType
  <1>3. accepted[id] \in Nat /\ faults \in Nat
    BY DEF TypeOK
  <1> DEFINE a == Cardinality(Astray(id))
             b == Cardinality(Astray(id)')
             c == IF Deliverable(id) THEN 1 ELSE 0
             d == IF Deliverable(id)' THEN 1 ELSE 0
  <1>4. c \in 0 .. 1 /\ d \in 0 .. 1 /\ (faults' = faults => d <= c)
    BY <1>3
  <1>5. accepted[id] + a + c <= 1 + faults
    BY DEF PaidFor
  <1> HIDE DEF a, b, c, d
  <1>6. accepted'[id] + b + d <= 1 + faults'
    BY <1>1, <1>2, <1>3, <1>4, <1>5 DEF a, b
  <1> QED
    BY <1>2, <1>6 DEF PaidFor, b, d

(* Goroutines end no transaction and settle no row: what is secured stays  *)
(* so, and without a fault no delivery is added to those to come.          *)
LEMMA ShardStepDebts ==
    ASSUME TypeOK, ShardInv, PlaceInv, NEW r \in Relays, NEW w \in Slots, ShardStep(r, w),
           NEW id \in Ids
    PROVE  /\ Astray(id)' \subseteq Astray(id)
           /\ faults' = faults => (Secured(id) => Secured(id)')
           /\ faults' = faults => (Deliverable(id)' => Deliverable(id))
  <1>1. \A p \in Relays, v \in Slots : ~(p = r /\ v = w) => shard'[p][v] = shard[p][v]
    BY OtherShards
  <1>2. /\ outbox' = outbox
        /\ \A p \in Relays : relay'[p].tx = relay[p].tx
    BY ShardStepFrame
  <1>3. /\ Unsent(shard'[r][w]) \subseteq Unsent(shard[r][w])
        /\ marker \subseteq marker'
        /\ \A p \in Relays : relay'[p].cause = "live" => relay[p].cause = "live"
    BY ShardStepPlaces
  <1>4. faults' = faults => /\ Safe(shard[r][w]) \subseteq Safe(shard'[r][w])
                            /\ \/ Checked(shard'[r][w]) \subseteq Checked(shard[r][w]) \cup (Ids \ marker)
                               \/ relay'[r].cause # "live"
    <2>1. faults \in Nat
      BY DEF TypeOK
    <2>2. faults + 1 # faults
      BY <2>1
    <2> QED
      BY <2>2, ShardStepPlaces
  <1>5. Astray(id)' \subseteq Astray(id)
    <2> SUFFICES ASSUME NEW p \in Relays, relay'[p].tx = "lost",
                        NEW v \in Slots, id \in Unsent(shard'[p][v])
                 PROVE  relay[p].tx = "lost" /\ id \in Unsent(shard[p][v])
      BY DEF Astray
    <2> QED
      BY <1>1, <1>2, <1>3
  <1>6. ASSUME faults' = faults, Secured(id) PROVE Secured(id)'
    <2>1. PICK p \in Relays, v \in Slots : relay[p].tx = "open" /\ id \in Safe(shard[p][v])
      BY <1>6 DEF Secured
    <2>2. relay'[p].tx = "open" /\ id \in Safe(shard'[p][v])
      BY <1>1, <1>2, <1>4, <1>6, <2>1
    <2> QED
      BY <2>2 DEF Secured
  <1>7. ASSUME faults' = faults, Deliverable(id)' PROVE Deliverable(id)
    <2>1. outbox[id].status \in {"none", "pending"} /\ ~Secured(id)
      BY <1>2, <1>6, <1>7 DEF Deliverable
    <2>2. CASE id \notin marker'
      BY <1>3, <2>1, <2>2 DEF Deliverable
    <2>3. CASE Sending(id)'
      <3>1. PICK p \in Relays, v \in Slots :
               relay'[p].tx = "open" /\ relay'[p].cause = "live" /\ id \in Checked(shard'[p][v])
        BY <2>3 DEF Sending
      <3>2. relay[p].tx = "open" /\ relay[p].cause = "live"
        BY <1>2, <1>3, <3>1
      <3>3. id \in Checked(shard[p][v]) \/ id \notin marker
        BY <1>1, <1>4, <1>7, <3>1
      <3> QED
        BY <2>1, <3>2, <3>3 DEF Deliverable, Sending
    <2> QED
      BY <1>7, <2>2, <2>3 DEF Deliverable
  <1> QED
    BY <1>5, <1>6, <1>7

(* A message that is offered within an open transaction was to be offered, *)
(* and is not to be offered again.                                         *)
LEMMA OfferedOpen ==
    ASSUME TypeOK, ShardInv, TxInv, PlaceInv, NEW r \in Relays, NEW w \in Slots, ShardStep(r, w),
           NEW id \in Ids, Offered(r, w, id), relay[r].tx = "open"
    PROVE  /\ outbox[id].status = "pending" /\ ~Secured(id) /\ Secured(id)'
           /\ Deliverable(id) /\ ~Deliverable(id)'
  <1>1. id \in Work(shard[r][w]) /\ id \in Checked(shard[r][w])
    BY WorkParts DEF Offered
  <1>2. outbox[id].status = "pending"
    BY <1>1, WorkIsClaimed DEF TxInv
  <1>3. ~Secured(id)
    <2> SUFFICES ASSUME NEW p \in Relays, NEW v \in Slots, relay[p].tx = "open",
                        id \in Safe(shard[p][v])
                 PROVE  FALSE
      BY DEF Secured
    <2>1. id \in Work(shard[p][v])
      BY WorkParts
    <2>2. p = r /\ v = w
      BY <1>1, <2>1, OneHolder
    <2> QED
      BY <2>2 DEF Offered
  <1>4. relay'[r].tx = "open"
    BY ShardStepFrame
  <1>5. Secured(id)'
    BY <1>4 DEF Secured, Offered
  <1>6. Sending(id)
    BY <1>1 DEF Sending, Offered
  <1> QED
    BY <1>2, <1>3, <1>5, <1>6 DEF Deliverable

(* A message that is offered after the transaction was lost is no longer   *)
(* astray with that relay.                                                 *)
LEMMA OfferedLost ==
    ASSUME TypeOK, ShardInv, TxInv, PlaceInv, NEW r \in Relays, NEW w \in Slots, ShardStep(r, w),
           NEW id \in Ids, Offered(r, w, id), relay[r].tx = "lost"
    PROVE  r \in Astray(id) /\ Astray(id)' \subseteq Astray(id) \ {r}
  <1>1. id \in Work(shard[r][w]) /\ id \in Unsent(shard[r][w])
    BY WorkParts DEF Offered
  <1>2. r \in Astray(id)
    BY <1>1 DEF Astray
  <1>3. ASSUME NEW v \in Slots, id \in Unsent(shard'[r][v]) PROVE FALSE
    <2>1. CASE v = w
      BY <1>3, <2>1 DEF Offered
    <2>2. CASE v # w
      <3>1. shard'[r][v] = shard[r][v]
        BY <2>2, OtherShards
      <3>2. id \in Work(shard[r][v])
        BY <1>3, <3>1, WorkParts
      <3> QED
        BY <1>1, <2>2, <3>2, OneHolder
    <2> QED
      BY <2>1, <2>2
  <1>4. Astray(id)' \subseteq Astray(id)
    BY ShardStepDebts
  <1>5. r \notin Astray(id)'
    BY <1>3 DEF Astray
  <1> QED
    BY <1>2, <1>4, <1>5

(* Goroutines: what is offered was counted among the deliveries to come.   *)
LEMMA ShardStepPaid ==
    ASSUME TypeOK, ShardInv, TxInv, PlaceInv, NEW r \in Relays, NEW w \in Slots, ShardStep(r, w),
           NEW id \in Ids, PaidFor(id)
    PROVE  PaidFor(id)'
  <1>1. Astray(id)' \subseteq Astray(id) /\ (faults' = faults => (Deliverable(id)' => Deliverable(id)))
    BY ShardStepDebts
  <1>2. CASE faults' = faults + 1 /\ accepted' = accepted
    BY <1>1, <1>2, DebtKept
  <1>3. CASE faults' = faults /\ Kept(r, w, id)
    BY <1>1, <1>3, DebtKept DEF Kept
  <1>4. CASE faults' = faults /\ Offered(r, w, id)
    <2>1. IsFiniteSet(Astray(id)) /\ Cardinality(Astray(id)) \in Nat
      BY FS_CardinalityType DEF PaidFor
    <2>2. accepted[id] \in Nat /\ faults \in Nat /\ accepted'[id] = accepted[id] + 1
      BY <1>4 DEF TypeOK, Offered
    <2> DEFINE a == Cardinality(Astray(id))
               b == Cardinality(Astray(id)')
               c == IF Deliverable(id) THEN 1 ELSE 0
               d == IF Deliverable(id)' THEN 1 ELSE 0
    <2>3. accepted[id] + a + c <= 1 + faults
      BY DEF PaidFor
    <2>4. c \in Nat /\ d \in Nat
      OBVIOUS
    <2>5. IsFiniteSet(Astray(id)') /\ b \in Nat /\ b + d + 1 <= a + c
      <3>1. CASE relay[r].tx = "open"
        <4>1. IsFiniteSet(Astray(id)') /\ b \in Nat /\ b <= a
          BY <1>1, <2>1, FS_Subset, FS_CardinalityType
        <4>2. c = 1 /\ d = 0
          BY <1>4, <3>1, OfferedOpen
        <4> QED
          BY <2>1, <4>1, <4>2
      <3>2. CASE relay[r].tx = "lost"
        <4>1. r \in Astray(id) /\ Astray(id)' \subseteq Astray(id) \ {r}
          BY <1>4, <3>2, OfferedLost
        <4>2. IsFiniteSet(Astray(id) \ {r}) /\ Cardinality(Astray(id) \ {r}) = a - 1
          BY <2>1, <4>1, FS_RemoveElement
        <4>3. IsFiniteSet(Astray(id)') /\ b \in Nat /\ b <= a - 1
          BY <4>1, <4>2, FS_Subset, FS_CardinalityType
        <4>4. d <= c
          BY <1>1, <1>4
        <4> HIDE DEF a, b, c, d
        <4> QED
          BY <2>1, <2>4, <4>3, <4>4 DEF a
      <3>3. relay[r].tx # "none"
        <4>1. id \in Work(shard[r][w])
          BY <1>4, WorkParts DEF Offered
        <4> QED
          BY <4>1, WorkIsClaimed DEF PlaceInv
      <3> QED
        BY <3>1, <3>2, <3>3 DEF TypeOK, Relay
    <2> HIDE DEF a, b, c, d
    <2>6. accepted'[id] + b + d <= 1 + faults'
      BY <1>4, <2>1, <2>2, <2>3, <2>4, <2>5 DEF a
    <2> QED
      BY <2>5, <2>6 DEF PaidFor, b, d
  <1> QED
    BY <1>2, <1>3, <1>4, ShardStepPlaces

(* The end of r's tick, or of r, secures nothing and sends nothing: what   *)
(* is still secured or sending is with another relay.                      *)
LEMMA TickOverDebts ==
    ASSUME TypeOK, NEW r \in Relays, NEW id \in Ids,
           \/ \E pause \in BOOLEAN : TickOver(r, pause)
           \/ Crash(r)
    PROVE  /\ Astray(id)' \subseteq Astray(id)
           /\ Secured(id)' => Secured(id)
           /\ Sending(id)' => Sending(id)
           /\ Secured(id) => \/ Secured(id)'
                             \/ relay[r].tx = "open" /\ \E w \in Slots : id \in Safe(shard[r][w])
  <1>1. relay'[r].tx = "none"
    BY TickOverTx
  <1>2. \A p \in Relays \ {r} : relay'[p] = relay[p] /\ shard'[p] = shard[p]
    BY TickOverFrame
  <1>3. Astray(id)' \subseteq Astray(id)
    BY <1>1, <1>2 DEF Astray
  <1>4. Secured(id)' => Secured(id)
    BY <1>1, <1>2 DEF Secured
  <1>5. Sending(id)' => Sending(id)
    BY <1>1, <1>2 DEF Sending
  <1>6. ASSUME Secured(id), ~(relay[r].tx = "open" /\ \E w \in Slots : id \in Safe(shard[r][w]))
        PROVE  Secured(id)'
    <2>1. PICK p \in Relays, w \in Slots : relay[p].tx = "open" /\ id \in Safe(shard[p][w])
      BY <1>6 DEF Secured
    <2>2. p # r
      BY <1>6, <2>1
    <2> QED
      BY <1>2, <2>1, <2>2 DEF Secured
  <1> QED
    BY <1>3, <1>4, <1>5, <1>6

(* At the end of a tick the goroutines are done, so that what is safe is   *)
(* what collect returns as sent.                                           *)
LEMMA SafeIsSent ==
    ASSUME NEW r \in Relays, AllDone(r), NEW id
    PROVE  (\E w \in Slots : id \in Safe(shard[r][w])) <=> id \in Sent(r)
  <1>1. ASSUME NEW w \in Slots PROVE Safe(shard[r][w]) = shard[r][w].sent
    BY DEF AllDone, Safe
  <1> QED
    BY <1>1 DEF Sent

(* A claim secures nothing, and its rows have yet to pass the dedup.       *)
LEMMA ClaimDebts ==
    ASSUME TypeOK, ShardInv, PlaceInv, NEW r \in Relays, Claim(r), NEW id \in Ids
    PROVE  /\ Astray(id)' \subseteq Astray(id)
           /\ Secured(id)' <=> Secured(id)
           /\ Sending(id)' <=> Sending(id)
  <1>1. relay[r].tx = "none"
    BY DEF Claim, PlaceInv
  <1>2. relay'[r].tx = "open" /\ \A p \in Relays \ {r} : relay'[p] = relay[p] /\ shard'[p] = shard[p]
    BY ClaimSlices
  <1>3. \A w \in Slots : Safe(shard'[r][w]) = {} /\ Checked(shard'[r][w]) = {}
    BY ClaimSlices, FreshWork
  <1>4. Astray(id)' \subseteq Astray(id)
    BY <1>2 DEF Astray
  <1>5. Secured(id)' <=> Secured(id)
    BY <1>1, <1>2, <1>3 DEF Secured
  <1>6. Sending(id)' <=> Sending(id)
    BY <1>1, <1>2, <1>3 DEF Sending
  <1> QED
    BY <1>4, <1>5, <1>6

(* A lost transaction adds one relay to those astray; what that relay has  *)
(* not sent it has not secured either.                                     *)
LEMMA LoseTxPaid ==
    ASSUME TypeOK, ShardInv, TxInv, PlaceInv, NEW r \in Relays, LoseTx(r),
           NEW id \in Ids, PaidFor(id)
    PROVE  PaidFor(id)'
  <1>1. /\ relay[r].tx = "open" /\ relay'[r].tx = "lost" /\ faults' = faults + 1
        /\ \A p \in Relays \ {r} : relay'[p] = relay[p]
    BY LoseTxFrame
  <1>2. shard' = shard /\ outbox' = outbox /\ marker' = marker /\ accepted' = accepted
    BY FlagFrame
  <1>3. Astray(id)' \subseteq Astray(id) \cup {r}
    BY <1>1, <1>2 DEF Astray
  <1>4. CASE r \notin Astray(id)'
    <2>1. Astray(id)' \subseteq Astray(id)
      BY <1>3, <1>4
    <2> QED
      BY <1>1, <1>2, <2>1, DebtKept
  <1>5. CASE r \in Astray(id)'
    <2>1. PICK v \in Slots : id \in Unsent(shard[r][v])
      BY <1>2, <1>5 DEF Astray
    <2>2. Secured(id) => Secured(id)'
      <3> SUFFICES ASSUME NEW p \in Relays, NEW w \in Slots, relay[p].tx = "open",
                          id \in Safe(shard[p][w])
                   PROVE  Secured(id)'
        BY DEF Secured
      <3>1. CASE p # r
        BY <1>1, <1>2, <3>1 DEF Secured
      <3>2. CASE p = r
        <4>1. id \in Work(shard[r][v]) /\ id \in Work(shard[r][w])
          BY <2>1, <3>2, WorkParts
        <4>2. v = w
          BY <4>1, OneHolder
        <4>3. Placed(shard[r][v])
          BY DEF PlaceInv
        <4> QED
          BY <2>1, <3>2, <4>2, <4>3, WorkParts
      <3> QED
        BY <3>1, <3>2
    <2>3. Sending(id)' => Sending(id)
      BY <1>1, <1>2 DEF Sending
    <2>4. Deliverable(id)' => Deliverable(id)
      BY <1>2, <2>2, <2>3 DEF Deliverable
    <2> DEFINE a == Cardinality(Astray(id))
               b == Cardinality(Astray(id)')
               c == IF Deliverable(id) THEN 1 ELSE 0
               d == IF Deliverable(id)' THEN 1 ELSE 0
    <2>5. IsFiniteSet(Astray(id)) /\ a \in Nat /\ accepted[id] + a + c <= 1 + faults
      BY FS_CardinalityType DEF PaidFor
    <2>6. /\ IsFiniteSet(Astray(id) \cup {r}) /\ Cardinality(Astray(id) \cup {r}) \in Nat
          /\ Cardinality(Astray(id) \cup {r}) <= a + 1
      <3>1. /\ IsFiniteSet(Astray(id) \cup {r})
            /\ \/ Cardinality(Astray(id) \cup {r}) = a
               \/ Cardinality(Astray(id) \cup {r}) = a + 1
        BY <2>5, FS_AddElement
      <3> QED
        BY <2>5, <3>1
    <2>7. IsFiniteSet(Astray(id)') /\ b \in Nat /\ b <= a + 1
      <3>1. IsFiniteSet(Astray(id)') /\ b \in Nat /\ b <= Cardinality(Astray(id) \cup {r})
        BY <1>3, <2>6, FS_Subset, FS_CardinalityType
      <3> QED
        BY <2>5, <2>6, <3>1
    <2>8. c \in Nat /\ d \in Nat /\ d <= c
      BY <2>4
    <2>9. accepted[id] \in Nat /\ faults \in Nat
      BY DEF TypeOK
    <2> HIDE DEF a, b, c, d
    <2>10. accepted'[id] + b + d <= 1 + faults'
      BY <1>1, <1>2, <2>5, <2>7, <2>8, <2>9
    <2> QED
      BY <2>7, <2>10 DEF PaidFor, b, d
  <1> QED
    BY <1>4, <1>5

(* DebtInv is kept.                                                        *)
LEMMA DebtStep ==
    ASSUME TypeOK, ShardInv, TxInv, PlaceInv, DebtInv, [Next]_vars
    PROVE  DebtInv'
  <1> SUFFICES ASSUME NEW id \in Ids PROVE PaidFor(id)'
    BY DEF DebtInv
  <1>1. PaidFor(id)
    BY DEF DebtInv
  <1>2. CASE UNCHANGED vars
    <2>1. /\ accepted'[id] = accepted[id] /\ faults' = faults /\ Astray(id)' \subseteq Astray(id)
          /\ Secured(id) => Secured(id)'
          /\ Sending(id)' => Sending(id)
          /\ outbox' = outbox /\ marker' = marker
      BY <1>2 DEF vars, Astray, Secured, Sending
    <2> QED
      BY <1>1, <2>1, DebtKept DEF Deliverable
  <1>3. ASSUME NEW r \in Relays, NEW w \in Slots, ShardStep(r, w) PROVE PaidFor(id)'
    BY <1>1, <1>3, ShardStepPaid
  <1>4. ASSUME NEW r \in Relays, Claim(r) PROVE PaidFor(id)'
    <2>1. UNCHANGED <<outbox, marker, accepted, faults>>
      BY <1>4 DEF Claim
    <2>2. Deliverable(id)' => Deliverable(id)
      BY <1>4, <2>1, ClaimDebts DEF Deliverable
    <2>3. Astray(id)' \subseteq Astray(id)
      BY <1>4, ClaimDebts
    <2> QED
      BY <1>1, <2>1, <2>2, <2>3, DebtKept
  <1>5. ASSUME NEW r \in Relays, Settle(r) PROVE PaidFor(id)'
    <2>1. \E pause \in BOOLEAN : TickOver(r, pause)
      BY <1>5 DEF Settle
    <2>2. UNCHANGED <<marker, accepted, faults>> /\ AllDone(r)
      BY <1>5 DEF Settle
    <2>3. /\ Astray(id)' \subseteq Astray(id)
          /\ Sending(id)' => Sending(id)
          /\ Secured(id) => Secured(id)' \/ id \in Sent(r)
      BY <2>1, <2>2, TickOverDebts, SafeIsSent
    <2>4. /\ id \in Sent(r) => outbox'[id].status = "deleted"
          /\ id \in Retried(r) => outbox[id].status = "pending"
          /\ id \notin Sent(r) \cup Retried(r) => outbox'[id] = outbox[id]
      BY <1>5, SettledRow
    <2>5. Deliverable(id)' => Deliverable(id)
      BY <2>2, <2>3, <2>4 DEF Deliverable
    <2> QED
      BY <1>1, <2>2, <2>3, <2>5, DebtKept
  <1>6. ASSUME NEW r \in Relays, TickFails(r) PROVE PaidFor(id)'
    <2>1. (\E pause \in BOOLEAN : TickOver(r, pause)) /\ relay[r].tx = "lost"
          /\ UNCHANGED <<outbox, marker, accepted, faults>>
      BY <1>6 DEF TickFails
    <2>2. /\ Astray(id)' \subseteq Astray(id)
          /\ Sending(id)' => Sending(id)
          /\ Secured(id) => Secured(id)'
      BY <2>1, TickOverDebts
    <2>3. Deliverable(id)' => Deliverable(id)
      BY <2>1, <2>2 DEF Deliverable
    <2> QED
      BY <1>1, <2>1, <2>2, <2>3, DebtKept
  <1>7. ASSUME NEW r \in Relays, TickPanics(r) \/ Crash(r) PROVE PaidFor(id)'
    <2>1. accepted' = accepted /\ ((\E pause \in BOOLEAN : TickOver(r, pause)) \/ Crash(r))
      BY <1>7, AbandonFrame
    <2>2. faults' = faults + 1
      BY <1>7 DEF TickPanics, Crash, Fault
    <2>3. Astray(id)' \subseteq Astray(id)
      BY <2>1, TickOverDebts
    <2> QED
      BY <1>1, <2>1, <2>2, <2>3, DebtKept
  <1>8. ASSUME NEW r \in Relays, Stop(r) \/ Exit(r) \/ BudgetExpires(r) \/ PauseOver(r)
        PROVE  PaidFor(id)'
    <2>1. UNCHANGED <<outbox, marker, accepted, shard>>
      BY <1>8, FlagFrame
    <2>2. /\ faults' = faults
          /\ \A p \in Relays : /\ relay'[p].tx = relay[p].tx
                               /\ relay'[p].cause = "live" => relay[p].cause = "live"
      BY <1>8, FlagTx
    <2>3. /\ Astray(id)' \subseteq Astray(id)
          /\ Secured(id) => Secured(id)'
          /\ Sending(id)' => Sending(id)
      BY <2>1, <2>2 DEF Astray, Secured, Sending
    <2>4. Deliverable(id)' => Deliverable(id)
      BY <2>1, <2>3 DEF Deliverable
    <2> QED
      BY <1>1, <2>1, <2>2, <2>3, <2>4, DebtKept
  <1>9. ASSUME NEW r \in Relays, LoseTx(r) PROVE PaidFor(id)'
    BY <1>1, <1>9, LoseTxPaid
  <1>10. ASSUME NEW x \in Ids, RowStep(x) PROVE PaidFor(id)'
    <2>1. /\ UNCHANGED <<accepted, relay, shard>>
          /\ \/ outbox'[id].status = outbox[id].status
             \/ outbox[id].status = "none" /\ outbox'[id].status = "pending"
      BY <1>10, RowStepFrame
    <2>2. /\ Astray(id)' \subseteq Astray(id)
          /\ Secured(id) => Secured(id)'
          /\ Sending(id)' => Sending(id)
      BY <2>1 DEF Astray, Secured, Sending
    <2>3. (faults' = faults /\ marker' = marker) \/ faults' = faults + 1
      BY <1>10 DEF RowStep, Enqueue, RetryDue, MarkerExpires, Fault
    <2>4. marker' = marker => (Deliverable(id)' => Deliverable(id))
      BY <2>1, <2>2 DEF Deliverable
    <2> QED
      BY <1>1, <2>1, <2>2, <2>3, <2>4, DebtKept
  <1> QED
    BY <1>2, <1>3, <1>4, <1>5, <1>6, <1>7, <1>8, <1>9, <1>10 DEF Next, RelayStep

-----------------------------------------------------------------------------
(* CleanInv: before the first fault every acceptance is settled.           *)

(* Faults only grow.                                                       *)
LEMMA FaultsGrow ==
    ASSUME TypeOK, [Next]_vars, faults' = 0
    PROVE  faults = 0 /\ faults' # faults + 1
  <1>1. faults \in Nat
    BY DEF TypeOK
  <1> DEFINE Grow == faults' = faults \/ faults' = faults + 1
  <1>2. ASSUME NEW r \in Relays, NEW w \in Slots, ShardStep(r, w) PROVE Grow
    BY <1>2 DEF ShardStep, ShardStart, CheckRow, WasSent, Provider, SendAnswered, SendFailed,
                SendAborted, MarkRow, MarkSent, ShardPanics, Fault
  <1>3. ASSUME NEW r \in Relays, RelayStep(r) PROVE Grow
    BY <1>3 DEF RelayStep, Claim, Settle, TickFails, TickPanics, Stop, Exit, BudgetExpires,
                PauseOver, LoseTx, Crash, Fault
  <1>4. ASSUME NEW id \in Ids, RowStep(id) PROVE Grow
    BY <1>4 DEF RowStep, Enqueue, RetryDue, MarkerExpires, Fault
  <1>5. Grow
    BY <1>2, <1>3, <1>4 DEF Next, vars
  <1> QED
    BY <1>1, <1>5

(* CleanInv is kept.                                                       *)
LEMMA CleanStep ==
    ASSUME TypeOK, ShardInv, TxInv, PlaceInv, DeliveryInv, CleanInv, [Next]_vars
    PROVE  CleanInv'
  <1> SUFFICES ASSUME faults' = 0
               PROVE  /\ \A p \in Relays : relay'[p].tx # "lost"
                      /\ \A id \in Ids : accepted'[id] =
                            IF outbox'[id].status = "deleted" \/ Secured(id)' THEN 1 ELSE 0
    BY DEF CleanInv
  <1>1. faults = 0 /\ faults' # faults + 1
    BY FaultsGrow
  <1>2. \A p \in Relays : relay[p].tx # "lost"
    BY <1>1 DEF CleanInv
  <1> DEFINE Settled(id)  == outbox[id].status = "deleted" \/ Secured(id)
             SettledP(id) == outbox'[id].status = "deleted" \/ Secured(id)'
             Goal == /\ \A p \in Relays : relay'[p].tx # "lost"
                     /\ \A id \in Ids : accepted'[id] = IF SettledP(id) THEN 1 ELSE 0
  <1>3. \A id \in Ids : accepted[id] = IF Settled(id) THEN 1 ELSE 0
    BY <1>1 DEF CleanInv
  <1>4. ASSUME \A p \in Relays : relay'[p].tx = "lost" => relay[p].tx = "lost",
               accepted' = accepted,
               \A id \in Ids : SettledP(id) <=> Settled(id)
        PROVE  Goal
    BY <1>2, <1>3, <1>4
  <1>5. CASE UNCHANGED vars
    <2>1. \A id \in Ids : SettledP(id) <=> Settled(id)
      BY <1>5 DEF vars, Secured
    <2> QED
      BY <1>4, <1>5, <2>1 DEF vars
  <1>6. ASSUME NEW r \in Relays, NEW w \in Slots, ShardStep(r, w) PROVE Goal
    <2>1. /\ outbox' = outbox
          /\ \A p \in Relays : relay'[p].tx = relay[p].tx
      BY <1>6, ShardStepFrame
    <2>2. faults' = faults /\ \A id \in Ids : Kept(r, w, id) \/ Offered(r, w, id)
      BY <1>1, <1>6, ShardStepPlaces
    <2>3. ASSUME NEW id \in Ids PROVE accepted'[id] = IF SettledP(id) THEN 1 ELSE 0
      <3>1. Secured(id) => Secured(id)'
        BY <1>6, <2>2, ShardStepDebts
      <3>2. CASE Kept(r, w, id)
        <4>1. ASSUME Secured(id)' PROVE Secured(id) \/ id \in marker
          <5>1. PICK p \in Relays, v \in Slots : relay'[p].tx = "open" /\ id \in Safe(shard'[p][v])
            BY <4>1 DEF Secured
          <5>2. id \in Safe(shard[p][v]) \/ id \in marker
            BY <1>6, <3>2, <5>1, OtherShards DEF Kept
          <5> QED
            BY <2>1, <5>1, <5>2 DEF Secured
        <4>2. id \in marker => Settled(id)
          <5>1. id \in marker => accepted[id] >= 1
            BY DEF DeliveryInv
          <5>2. ~(0 >= 1)
            OBVIOUS
          <5> QED
            BY <1>3, <5>1, <5>2
        <4>3. SettledP(id) <=> Settled(id)
          BY <2>1, <3>1, <4>1, <4>2
        <4>4. accepted'[id] = accepted[id]
          BY <3>2 DEF Kept
        <4> QED
          BY <1>3, <4>3, <4>4
      <3>3. CASE Offered(r, w, id)
        <4>1. relay[r].tx = "open"
          <5>1. id \in Work(shard[r][w])
            BY <3>3, WorkParts DEF Offered
          <5>2. relay[r].tx # "none"
            BY <5>1, WorkIsClaimed DEF PlaceInv
          <5> QED
            BY <1>2, <5>2 DEF TypeOK, Relay
        <4>2. ~Settled(id) /\ SettledP(id)
          BY <1>6, <3>3, <4>1, OfferedOpen
        <4>3. accepted[id] = 0 /\ accepted'[id] = accepted[id] + 1
          BY <1>3, <3>3, <4>2 DEF Offered
        <4> QED
          BY <4>2, <4>3
      <3> QED
        BY <2>2, <3>2, <3>3
    <2> QED
      BY <1>2, <2>1, <2>3
  <1>7. ASSUME NEW r \in Relays, Claim(r) PROVE Goal
    <2>1. UNCHANGED <<outbox, accepted>>
      BY <1>7 DEF Claim
    <2>2. \A p \in Relays : relay'[p].tx = "lost" => relay[p].tx = "lost"
      BY <1>7, ClaimSlices
    <2>3. \A id \in Ids : SettledP(id) <=> Settled(id)
      BY <1>7, <2>1, ClaimDebts
    <2> QED
      BY <1>4, <2>1, <2>2, <2>3
  <1>8. ASSUME NEW r \in Relays, Settle(r) PROVE Goal
    <2>1. (\E pause \in BOOLEAN : TickOver(r, pause)) \/ Crash(r)
      BY <1>8 DEF Settle
    <2>2. accepted' = accepted /\ AllDone(r) /\ relay[r].tx = "open"
      BY <1>8 DEF Settle
    <2>3. \A p \in Relays : relay'[p].tx = "lost" => relay[p].tx = "lost"
      BY <2>1, TickOverTx, TickOverFrame
    <2>4. ASSUME NEW id \in Ids PROVE SettledP(id) <=> Settled(id)
      <3>1. /\ Secured(id)' => Secured(id)
            /\ Secured(id) => Secured(id)' \/ id \in Sent(r)
        BY <2>1, <2>2, TickOverDebts, SafeIsSent
      <3>2. id \in Sent(r) => Secured(id)
        BY <2>2, SafeIsSent DEF Secured
      <3>3. /\ id \in Sent(r) => outbox'[id].status = "deleted"
            /\ id \notin Sent(r) => (outbox'[id].status = "deleted" <=> outbox[id].status = "deleted")
        BY <1>8, SettledRow, CollectedRows
      <3> QED
        BY <3>1, <3>2, <3>3
    <2> QED
      BY <1>4, <2>2, <2>3, <2>4
  <1>9. ASSUME NEW r \in Relays, TickFails(r) \/ TickPanics(r) \/ LoseTx(r) \/ Crash(r) PROVE Goal
    BY <1>1, <1>2, <1>9 DEF TickFails, TickPanics, LoseTx, Crash, Fault
  <1>10. ASSUME NEW r \in Relays, Stop(r) \/ Exit(r) \/ BudgetExpires(r) \/ PauseOver(r) PROVE Goal
    <2>1. UNCHANGED <<outbox, accepted, shard>>
      BY <1>10, FlagFrame
    <2>2. \A p \in Relays : relay'[p].tx = relay[p].tx
      BY <1>10, FlagTx
    <2>3. \A id \in Ids : SettledP(id) <=> Settled(id)
      BY <2>1, <2>2 DEF Secured
    <2> QED
      BY <1>4, <2>1, <2>2, <2>3
  <1>11. ASSUME NEW x \in Ids, RowStep(x) PROVE Goal
    <2>1. UNCHANGED <<accepted, relay, shard>>
      BY <1>11, RowStepFrame
    <2>2. \A id \in Ids : outbox'[id].status = "deleted" <=> outbox[id].status = "deleted"
      BY <1>11, RowStepFrame
    <2>3. \A id \in Ids : SettledP(id) <=> Settled(id)
      BY <2>1, <2>2 DEF Secured
    <2> QED
      BY <1>4, <2>1, <2>3
  <1> QED
    BY <1>5, <1>6, <1>7, <1>8, <1>9, <1>10, <1>11 DEF Next, RelayStep

-----------------------------------------------------------------------------
(* The inductive invariant.                                                *)

(* The inductive invariant holds initially.                                *)
LEMMA InitIInv == Init => IInv
  <1> SUFFICES ASSUME Init PROVE IInv
    OBVIOUS
  <1>1. TypeOK /\ ShardInv
    BY InitTypes
  <1>2. Range(<<>>) = {}
    BY DEF Range
  <1>3. TxInv
    BY <1>2 DEF Init, TxInv, FreshRelay
  <1>4. AttemptsInv
    BY DEF Init, AttemptsInv, DeadLetterAtMaxAttempts
  <1>5. \A r \in Relays, w \in Slots :
          shard[r][w].ok = {} /\ shard[r][w].sent = {} /\ shard[r][w].retry = {}
    BY DEF Init, NoShards, NewShard
  <1>6. DeliveryInv
    BY <1>5 DEF Init, DeliveryInv, DeletedWasDelivered
  <1>7. ChargeInv
    BY <1>5 DEF Init, ChargeInv, AttemptsAreCharged
  <1>8. \A r \in Relays : /\ relay[r] = FreshRelay
                          /\ \A w \in Slots : shard[r][w] = NewShard(<<>>)
    BY DEF Init, NoShards
  <1>9. PlaceInv
    <2>1. FreshRelay.tx = "none" /\ Range(FreshRelay.claimed) = {}
      BY <1>2 DEF FreshRelay
    <2> QED
      BY <1>8, <2>1, NoWork DEF PlaceInv
  <1>10. \A id \in Ids : Astray(id) = {} /\ ~Secured(id)
    BY <1>8, NoWork DEF Astray, Secured
  <1>11. DebtInv
    <2> SUFFICES ASSUME NEW id \in Ids PROVE PaidFor(id)
      BY DEF DebtInv
    <2>1. accepted[id] = 0 /\ faults = 0
      BY DEF Init
    <2>2. IsFiniteSet({}) /\ Cardinality({}) = 0
      BY FS_EmptySet
    <2> QED
      BY <1>10, <2>1, <2>2 DEF PaidFor
  <1>12. CleanInv
    <2>1. \A r \in Relays : relay[r].tx # "lost"
      BY <1>8 DEF FreshRelay
    <2>2. \A id \in Ids : accepted[id] = 0 /\ outbox[id].status # "deleted"
      BY DEF Init
    <2> QED
      BY <1>10, <2>1, <2>2 DEF CleanInv
  <1> QED
    BY <1>1, <1>3, <1>4, <1>6, <1>7, <1>9, <1>11, <1>12 DEF IInv

(* Every step of Run, tick and processShard keeps it.                      *)
LEMMA NextIInv == IInv /\ [Next]_vars => IInv'
  BY NextTypes, TxStep, AttemptsStep, DeliveryStep, ChargeStep, PlaceStep, DebtStep, CleanStep
     DEF IInv

(* IInv holds in every reachable state, for any number of relays, rows,    *)
(* workers and faults.                                                     *)
THEOREM InvariantHolds == Spec => []IInv
  BY InitIInv, NextIInv, PTL DEF Spec

(* No email is lost: tick deletes only rows whose message was accepted.    *)
THEOREM NoEmailLost == Spec => []DeletedWasDelivered
  <1>1. IInv => DeletedWasDelivered
    BY DEF IInv, DeliveryInv
  <1> QED
    BY InvariantHolds, <1>1, PTL

(* The dead-letter threshold of collect and MarkFailed is exact although   *)
(* relays run concurrently and lose transactions.                          *)
THEOREM DeadLetterExact == Spec => []DeadLetterAtMaxAttempts
  <1>1. IInv => DeadLetterAtMaxAttempts
    BY DEF IInv, AttemptsInv
  <1> QED
    BY InvariantHolds, <1>1, PTL

(* Send errors, cancelled siblings, shutdown, rollbacks and crashes spend  *)
(* no attempts of a row.                                                   *)
THEOREM OutagesAreFree == Spec => []AttemptsAreCharged
  <1>1. IInv => AttemptsAreCharged
    BY DEF IInv, ChargeInv
  <1> QED
    BY InvariantHolds, <1>1, PTL

(* Every delivery after the first has a fault of its own: shutdown, tick   *)
(* budgets, retries and concurrent relays alone never send a message twice.*)
THEOREM DuplicatesPaidFor == Spec => []DuplicatesPaidByFaults
  <1>1. ASSUME IInv, NEW id \in Ids PROVE accepted[id] <= 1 + faults
    <2> DEFINE a == Cardinality(Astray(id))
               c == IF Deliverable(id) THEN 1 ELSE 0
    <2>1. IsFiniteSet(Astray(id)) /\ accepted[id] + a + c <= 1 + faults
      BY <1>1 DEF IInv, DebtInv, PaidFor
    <2>2. a \in Nat /\ c \in Nat
      BY <2>1, FS_CardinalityType
    <2>3. accepted[id] \in Nat /\ faults \in Nat
      BY <1>1 DEF IInv, TypeOK
    <2> HIDE DEF a, c
    <2> QED
      BY <2>1, <2>2, <2>3
  <1>2. IInv => DuplicatesPaidByFaults
    BY <1>1 DEF DuplicatesPaidByFaults
  <1> QED
    BY InvariantHolds, <1>2, PTL

(* Before the first fault, once no transaction holds a row, its message    *)
(* was accepted exactly when tick has deleted it.                          *)
THEOREM CleanTicks == Spec => []CleanTicksSettle
  <1>1. ASSUME IInv, faults = 0, NEW id \in Ids, lock[id] = NoRelay
        PROVE  accepted[id] = IF outbox[id].status = "deleted" THEN 1 ELSE 0
    <2>1. ASSUME NEW r \in Relays, NEW w \in Slots, relay[r].tx = "open", id \in Safe(shard[r][w])
          PROVE  FALSE
      <3>1. id \in Range(relay[r].claimed)
        BY <1>1, <2>1, WorkParts, WorkIsClaimed DEF IInv
      <3>2. lock[id] = r
        BY <1>1, <2>1, <3>1 DEF IInv, TxInv
      <3> QED
        BY <1>1, <3>2, NoRelayAssumption
    <2>2. ~Secured(id)
      BY <2>1 DEF Secured
    <2> QED
      BY <1>1, <2>2 DEF IInv, CleanInv
  <1>2. IInv => CleanTicksSettle
    BY <1>1 DEF CleanTicksSettle
  <1> QED
    BY InvariantHolds, <1>2, PTL

(* Failed and deleted rows never change again: Settle touches only rows of *)
(* an open transaction, which are pending.                                 *)
THEOREM ResolvedFinal == Spec => ResolvedRowsAreFinal
  <1>1. ASSUME IInv, [Next]_vars, NEW id \in Ids, outbox[id].status \in {"failed", "deleted"}
        PROVE  outbox'[id] = outbox[id]
    <2>1. CASE outbox' = outbox
      BY <2>1
    <2>2. ASSUME NEW r \in Relays, Settle(r) PROVE outbox'[id] = outbox[id]
      BY <1>1, <2>2, SettledRow DEF IInv
    <2>3. ASSUME NEW x \in Ids, RowStep(x) PROVE outbox'[id] = outbox[id]
      BY <1>1, <2>3 DEF RowStep, Enqueue, RetryDue, MarkerExpires, IInv, TypeOK
    <2> QED
      BY <1>1, <2>1, <2>2, <2>3, TableFrame DEF IInv
  <1>2. IInv /\ [Next]_vars =>
          [\A id \in Ids : outbox[id].status \in {"failed", "deleted"} =>
              outbox'[id] = outbox[id]]_vars
    BY <1>1
  <1> QED
    BY InvariantHolds, <1>2, PTL DEF Spec, ResolvedRowsAreFinal

-----------------------------------------------------------------------------
(* Refinement: the relays implement the abstract outbox.                   *)

(* A settlement is one Resolve of the rows it deletes, reschedules, fails. *)
LEMMA SettleResolves ==
    ASSUME IInv, NEW r \in Relays, Settle(r)
    PROVE  Abstract!AbstractNext
  <1>0. \E x, y, z : /\ x = Sent(r) /\ y = (Retried(r) \ Exhausted(r)) \ Sent(r)
                     /\ z = Exhausted(r) \ Sent(r)
    OBVIOUS
  \* rigid names: Resolve has primed variables, its parameters do not change
  <1> PICK D, R, F : /\ D = Sent(r) /\ R = (Retried(r) \ Exhausted(r)) \ Sent(r)
                     /\ F = Exhausted(r) \ Sent(r)
    BY <1>0
  <1>1. TypeOK /\ ShardInv /\ TxInv
    BY DEF IInv
  <1>2. D \in SUBSET Ids /\ R \in SUBSET Ids /\ F \in SUBSET Ids
    BY <1>1, CollectedRows
  <1>3. D \cap R = {} /\ D \cap F = {} /\ R \cap F = {}
    OBVIOUS
  <1>4. \A id \in Ids : outbox[id].attempts \in Nat
    BY <1>1 DEF TypeOK, Row
  <1>5. ASSUME NEW id \in D PROVE outbox[id].status = "pending" /\ accepted[id] >= 1
    <2>1. accepted[id] >= 1
      BY DEF IInv, DeliveryInv, Sent
    <2> QED
      BY <1>1, <1>2, <2>1, SettledRow
  <1>6. ASSUME NEW id \in R
        PROVE  outbox[id].status = "pending" /\ outbox[id].attempts + 1 < MaxAttempts
    BY <1>1, <1>2, SettledRow
  <1>7. ASSUME NEW id \in F
        PROVE  outbox[id].status = "pending" /\ outbox[id].attempts + 1 = MaxAttempts
    <2>1. id \in Retried(r) /\ id \in Ids
      BY <1>2 DEF Exhausted
    <2>2. outbox[id].status = "pending" /\ outbox[id].attempts + 1 >= MaxAttempts
      BY <1>1, <2>1, SettledRow
    <2>3. outbox[id].attempts < MaxAttempts
      BY <2>1, <2>2 DEF IInv, AttemptsInv, DeadLetterAtMaxAttempts
    <2> QED
      BY <1>4, <2>1, <2>2, <2>3, ConfigAssumption
  <1>8. \A id \in Ids :
          /\ outbox'[id].status = IF id \in D THEN "deleted"
                                  ELSE IF id \in F THEN "failed" ELSE outbox[id].status
          /\ outbox'[id].attempts = IF id \in R \cup F THEN outbox[id].attempts + 1
                                    ELSE outbox[id].attempts
    <2> TAKE id \in Ids
    <2>1. CASE id \in D
      BY <1>1, <2>1, SettledRow
    <2>2. CASE id \in R
      BY <1>1, <2>2, SettledRow DEF Exhausted
    <2>3. CASE id \in F
      BY <1>1, <2>3, SettledRow
    <2>4. CASE id \notin D \cup R \cup F
      BY <1>1, <2>4, SettledRow
    <2> QED
      BY <2>1, <2>2, <2>3, <2>4
  <1>9. accepted' = accepted
    BY DEF Settle
  <1>10. [id \in Ids |-> outbox[id].status]'
            = [id \in Ids |-> IF id \in D THEN "deleted" ELSE IF id \in F THEN "failed"
                              ELSE [x \in Ids |-> outbox[x].status][id]]
    BY <1>8
  <1>11. [id \in Ids |-> outbox[id].attempts]'
            = [id \in Ids |-> IF id \in R \cup F THEN [x \in Ids |-> outbox[x].attempts][id] + 1
                              ELSE [x \in Ids |-> outbox[x].attempts][id]]
    BY <1>8
  <1>12. Abstract!Resolve(D, R, F)
    BY <1>2, <1>3, <1>5, <1>6, <1>7, <1>9, <1>10, <1>11 DEF Abstract!Resolve
  <1> QED
    BY <1>2, <1>12 DEF Abstract!AbstractNext

(* Every step of the relays is a step of the abstract outbox or changes    *)
(* nothing that it can see.                                                *)
LEMMA StepRefines ==
    ASSUME IInv, [Next]_vars
    PROVE  [Abstract!AbstractNext]_Abstract!abstractVars
  <1>1. TypeOK
    BY DEF IInv
  <1>2. CASE outbox' = outbox /\ accepted' = accepted
    BY <1>2 DEF Abstract!abstractVars
  <1>3. ASSUME NEW r \in Relays, Settle(r)
        PROVE  Abstract!AbstractNext
    BY <1>3, SettleResolves
  <1>4. ASSUME NEW id \in Ids, RowStep(id)
        PROVE  [Abstract!AbstractNext]_Abstract!abstractVars
    <2>1. CASE Enqueue(id)
      <3>1. /\ outbox[id].status = "none" /\ accepted' = accepted
            /\ \A x \in Ids : /\ outbox'[x].status = IF x = id THEN "pending" ELSE outbox[x].status
                              /\ outbox'[x].attempts = outbox[x].attempts
        BY <1>1, <2>1 DEF Enqueue, TypeOK, Row
      <3>2. Abstract!Commit(id)
        BY <3>1 DEF Abstract!Commit
      <3> QED
        BY <3>2 DEF Abstract!AbstractNext
    <2>2. CASE RetryDue(id) \/ MarkerExpires(id)
      <3>1. /\ accepted' = accepted
            /\ \A x \in Ids : /\ outbox'[x].status = outbox[x].status
                              /\ outbox'[x].attempts = outbox[x].attempts
        BY <1>1, <2>2 DEF RetryDue, MarkerExpires, TypeOK, Row
      <3> QED
        BY <3>1 DEF Abstract!abstractVars
    <2> QED
      BY <1>4, <2>1, <2>2 DEF RowStep
  <1>5. ASSUME NEW r \in Relays, NEW w \in Slots, ShardStep(r, w)
        PROVE  [Abstract!AbstractNext]_Abstract!abstractVars
    <2>1. outbox' = outbox
      BY <1>1, <1>5, ShardStepFrame
    <2>2. ASSUME NEW A \in SUBSET Range(shard[r][w].pending), Provider(r, w, A)
          PROVE  Abstract!AbstractNext
      <3>1. A \subseteq Range(relay[r].claimed)
        BY DEF IInv, ShardInv, ShardOK
      <3>2. A \subseteq Ids /\ \A id \in A : outbox[id].status # "none"
        BY <3>1, <1>1 DEF IInv, TxInv, TypeOK, Relay, Range
      <3>3. accepted' = [id \in Ids |-> IF id \in A THEN accepted[id] + 1 ELSE accepted[id]]
        BY <2>2 DEF Provider
      <3>4. Abstract!Deliver(A)
        BY <2>1, <3>2, <3>3 DEF Abstract!Deliver
      <3> QED
        BY <3>2, <3>4 DEF Abstract!AbstractNext
    <2>3. CASE ~(\E A \in SUBSET Range(shard[r][w].pending) : Provider(r, w, A))
      <3>1. accepted' = accepted
        BY <1>5, <2>3 DEF ShardStep, ShardStart, CheckRow, SendAnswered, SendFailed, SendAborted,
                          MarkRow, ShardPanics
      <3> QED
        BY <1>2, <2>1, <3>1
    <2> QED
      BY <2>2, <2>3
  <1>6. ASSUME NEW r \in Relays, RelayStep(r), ~Settle(r)
        PROVE  outbox' = outbox /\ accepted' = accepted
    BY <1>1, <1>6, FlagFrame, AbandonFrame DEF RelayStep, Claim
  <1>7. CASE UNCHANGED vars
    BY <1>2, <1>7 DEF vars
  <1> QED
    BY <1>2, <1>3, <1>4, <1>5, <1>6, <1>7 DEF Next

(* The detailed outbox implements the abstract one.                        *)
THEOREM RelayImplementsOutbox == Spec => ImplementsOutbox
  <1>1. Init => Abstract!AbstractInit
    BY DEF Init, Abstract!AbstractInit
  <1> QED
    BY <1>1, StepRefines, InvariantHolds, PTL DEF Spec, ImplementsOutbox, Abstract!AbstractSpec
=============================================================================
