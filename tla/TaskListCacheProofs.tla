------------------------ MODULE TaskListCacheProofs ------------------------
(***************************************************************************)
(* The task list cache is fresh for every number of writes and readers.    *)
(***************************************************************************)
EXTENDS TaskListCache, TLAPS

(* The initial state satisfies the invariant.                             *)
LEMMA InitVersionInv == Init => VersionInv
  <1> SUFFICES ASSUME Init PROVE VersionInv
    OBVIOUS
  <1>1. TypeOK
    BY DEF Init, NoList, TypeOK, Reader, versionUnknown
  <1>2. Invalidated = {}
    BY DEF Init, Invalidated
  <1>3. \A r \in Readers : ReaderOK(reader[r])
    BY <1>2 DEF Init, NoList, ReaderOK, versionUnknown
  <1> QED
    BY <1>1, <1>2, <1>3 DEF Init, VersionInv

(* A step of one reader that changes no stamp and no version, gives the    *)
(* reader the state t and the entries E.                                   *)
LEMMA ReaderStep ==
    ASSUME VersionInv, NEW r \in Readers, NEW t \in Reader, ReaderOK(t),
           reader' = [reader EXCEPT ![r] = t],
           UNCHANGED <<db, writer, version, stamp, flushed>>,
           entries' \in SUBSET Entry,
           \A e \in entries' : e.version <= version /\ UpTo(e.version) \subseteq e.tasks
    PROVE  VersionInv'
  <1>1. Invalidated' = Invalidated /\ \A v : UpTo(v)' = UpTo(v)
    BY DEF Invalidated, UpTo
  <1>2. TypeOK'
    BY DEF VersionInv, TypeOK
  <1>3. ASSUME NEW p \in Readers PROVE ReaderOK(reader[p])'
    <2>1. ReaderOK(reader'[p])
      BY DEF VersionInv, TypeOK
    <2> QED
      BY <1>1, <2>1 DEF ReaderOK, UpTo, Invalidated
  <1>4. \A e \in entries' : (e.version <= version)' /\ UpTo(e.version)' \subseteq e.tasks
    BY <1>1
  <1> QED
    BY <1>1, <1>2, <1>3, <1>4 DEF VersionInv

(* Every step keeps it as long as Redis keeps its data.                    *)
LEMMA NextVersionInv == VersionInv /\ [Next]_vars /\ ~flushed' => VersionInv'
  <1> SUFFICES ASSUME VersionInv, [Next]_vars, ~flushed' PROVE VersionInv'
    OBVIOUS
  <1>1. TypeOK /\ \A r \in Readers : reader[r] \in Reader /\ ReaderOK(reader[r])
    BY DEF VersionInv, TypeOK
  <1>2. entries \in SUBSET Entry /\ \A e \in entries : e.version <= version /\ UpTo(e.version) \subseteq e.tasks
    BY DEF VersionInv, TypeOK
  <1>3. CASE UNCHANGED vars
    BY <1>3 DEF vars, VersionInv, TypeOK, ReaderOK, UpTo, Invalidated
  <1>4. ASSUME NEW w \in Writes, Commit(w) PROVE VersionInv'
    <2>1. TypeOK'
      BY <1>1, <1>4 DEF Commit, TypeOK
    <2>2. Invalidated' = Invalidated /\ \A v : UpTo(v)' = UpTo(v)
      BY <1>4 DEF Commit, Invalidated, UpTo
    <2>3. \A r \in Readers : ReaderOK(reader[r])'
      BY <1>1, <1>4, <2>2 DEF Commit, ReaderOK
    <2> QED
      BY <1>4, <2>1, <2>2, <2>3 DEF Commit, VersionInv, TypeOK
  <1>5. ASSUME NEW w \in Writes, IncrRetried(w) \/ InvalidateFails(w) PROVE VersionInv'
    <2>1. /\ version' \in {version, version + 1} /\ version \in Nat
          /\ UNCHANGED <<db, stamp, entries, reader>>
      BY <1>1, <1>5 DEF IncrRetried, InvalidateFails, TypeOK
    <2>2. TypeOK'
      BY <1>1, <1>5, <2>1 DEF IncrRetried, InvalidateFails, TypeOK
    <2>3. Invalidated' = Invalidated /\ \A v : UpTo(v)' = UpTo(v)
      BY <2>1 DEF Invalidated, UpTo
    <2>4. ASSUME NEW r \in Readers PROVE ReaderOK(reader[r])'
      <3>1. reader[r].version \in Nat \cup {versionUnknown} /\ reader[r].version <= version
        BY <1>1 DEF Reader, ReaderOK
      <3>2. reader[r].version <= version'
        BY <2>1, <3>1 DEF versionUnknown
      <3> QED
        BY <1>1, <2>1, <2>3, <3>2 DEF ReaderOK
    <2>5. ASSUME NEW e \in entries' PROVE e.version <= version' /\ UpTo(e.version)' \subseteq e.tasks
      <3>1. e \in entries /\ e.version \in Nat /\ e.version <= version
        BY <1>2, <2>1 DEF Entry
      <3> QED
        BY <1>2, <2>1, <2>3, <3>1
    <2>6. \A x \in Writes : stamp'[x] <= version'
      <3>1. \A x \in Writes : stamp[x] \in Nat /\ stamp[x] <= version
        BY <1>1 DEF VersionInv, TypeOK
      <3> QED
        BY <2>1, <3>1
    <2>7. /\ \A x \in Writes : writer'[x] \in {"new", "committed", "retried"} => stamp'[x] = 0
          /\ \A x \in Writes : writer'[x] \in {"committed", "retried"} => x \in db'
      BY <1>5, <2>1 DEF IncrRetried, InvalidateFails, VersionInv, TypeOK
    <2>8. Invalidated' \subseteq db'
      BY <2>1, <2>3 DEF VersionInv
    <2> QED
      BY <2>2, <2>4, <2>5, <2>6, <2>7, <2>8 DEF VersionInv
  <1>6. ASSUME NEW w \in Writes, InvalidateTeam(w) PROVE VersionInv'
    <2>1. TypeOK'
      BY <1>1, <1>6 DEF InvalidateTeam, TypeOK
    <2>2. stamp[w] = 0 /\ w \in db /\ version \in Nat /\ stamp \in [Writes -> Nat]
      BY <1>6 DEF InvalidateTeam, VersionInv, TypeOK
    <2>3. /\ version' = version + 1 /\ stamp'[w] = version + 1
          /\ \A x \in Writes \ {w} : stamp'[x] = stamp[x]
          /\ UNCHANGED <<db, entries, reader>>
      BY <1>6, <2>2 DEF InvalidateTeam
    <2>4. Invalidated' = Invalidated \cup {w}
      BY <2>2, <2>3 DEF Invalidated
    <2>5. ASSUME NEW v \in Nat \cup {versionUnknown}, v <= version PROVE UpTo(v)' = UpTo(v)
      BY <2>2, <2>3, <2>4, <2>5 DEF UpTo, Invalidated, versionUnknown
    <2>6. ASSUME NEW r \in Readers PROVE ReaderOK(reader[r])'
      <3>1. reader[r].version \in Nat \cup {versionUnknown} /\ reader[r].version <= version
        BY <1>1 DEF Reader, ReaderOK
      <3>2. UpTo(reader[r].version)' = UpTo(reader[r].version)
        BY <2>3, <2>5, <3>1 DEF UpTo, Invalidated
      <3>3. reader[r].version <= version'
        BY <2>2, <2>3, <3>1 DEF versionUnknown
      <3> QED
        BY <1>1, <2>3, <2>4, <3>2, <3>3 DEF ReaderOK
    <2>7. ASSUME NEW e \in entries' PROVE e.version <= version' /\ UpTo(e.version)' \subseteq e.tasks
      <3>1. e \in entries /\ e.version \in Nat /\ e.version <= version
        BY <1>2, <2>3 DEF Entry
      <3>2. UpTo(e.version)' = UpTo(e.version)
        BY <2>5, <3>1
      <3> QED
        BY <1>2, <2>2, <2>3, <3>1, <3>2
    <2>8. \A x \in Writes : stamp'[x] <= version'
      BY <2>2, <2>3 DEF VersionInv
    <2>9. /\ \A x \in Writes : writer'[x] \in {"new", "committed", "retried"} => stamp'[x] = 0
          /\ \A x \in Writes : writer'[x] \in {"committed", "retried"} => x \in db'
      BY <1>6, <2>3 DEF InvalidateTeam, VersionInv, TypeOK
    <2>10. Invalidated' \subseteq db'
      BY <2>2, <2>3, <2>4 DEF VersionInv
    <2> QED
      BY <2>1, <2>6, <2>7, <2>8, <2>9, <2>10 DEF VersionInv
  <1>7. ASSUME NEW r \in Readers, GetVersion(r) PROVE VersionInv'
    <2>1. PICK known \in BOOLEAN :
            reader' = [reader EXCEPT ![r] = [pc |-> IF known THEN "get" ELSE "query",
                                             version |-> IF known THEN version ELSE versionUnknown,
                                             tasks |-> {}, floor |-> Invalidated]]
      BY <1>7 DEF GetVersion
    <2> DEFINE t == [pc |-> IF known THEN "get" ELSE "query",
                     version |-> IF known THEN version ELSE versionUnknown,
                     tasks |-> {}, floor |-> Invalidated]
    <2>2. t \in Reader
      BY <1>1 DEF TypeOK, Reader, Invalidated
    <2>3. Invalidated \subseteq UpTo(version)
      BY DEF VersionInv, UpTo, Invalidated
    <2>4. ReaderOK(t)
      BY <1>1, <2>3 DEF TypeOK, ReaderOK, versionUnknown
    <2> QED
      BY <1>2, <1>7, <2>1, <2>2, <2>4, ReaderStep DEF GetVersion
  <1>8. ASSUME NEW r \in Readers, GetHit(r) PROVE VersionInv'
    <2>1. PICK e \in entries :
            /\ e.version = reader[r].version
            /\ reader' = [reader EXCEPT ![r] = Returned(reader[r], e.tasks)]
      BY <1>8 DEF GetHit
    <2> DEFINE t == Returned(reader[r], e.tasks)
    <2>2. t \in Reader
      BY <1>1, <1>2 DEF Reader, Entry, Returned, NoList
    <2>3. reader[r].floor \subseteq e.tasks
      BY <1>1, <1>2, <1>8, <2>1 DEF ReaderOK, GetHit
    <2>4. ReaderOK(t)
      BY <1>1, <2>3 DEF ReaderOK, Reader, Returned, NoList, TypeOK, versionUnknown
    <2> QED
      BY <1>2, <1>8, <2>1, <2>2, <2>4, ReaderStep DEF GetHit
  <1>9. ASSUME NEW r \in Readers, GetMiss(r) PROVE VersionInv'
    <2> DEFINE t == [reader[r] EXCEPT !.pc = "query"]
    <2>1. t \in Reader /\ ReaderOK(t)
      BY <1>1 DEF Reader, ReaderOK
    <2> QED
      BY <1>2, <1>9, <2>1, ReaderStep DEF GetMiss
  <1>10. ASSUME NEW r \in Readers, Query(r) PROVE VersionInv'
    <2> DEFINE t == [reader[r] EXCEPT !.pc = "fill", !.tasks = db]
    <2>1. t \in Reader
      BY <1>1 DEF TypeOK, Reader
    <2>2. UpTo(reader[r].version) \subseteq db /\ reader[r].floor \subseteq db
      BY <1>1 DEF VersionInv, ReaderOK, UpTo
    <2>3. ReaderOK(t)
      BY <1>1, <2>2 DEF Reader, ReaderOK
    <2> QED
      BY <1>2, <1>10, <2>1, <2>3, ReaderStep DEF Query
  <1>11. ASSUME NEW r \in Readers, QueryFails(r) PROVE VersionInv'
    <2>1. NoList \in Reader /\ ReaderOK(NoList)
      BY <1>1 DEF NoList, Reader, ReaderOK, TypeOK, versionUnknown
    <2> QED
      BY <1>2, <1>11, <2>1, ReaderStep DEF QueryFails
  <1>12. ASSUME NEW r \in Readers, SetList(r) PROVE VersionInv'
    <2> DEFINE s == reader[r]
               t == Returned(s, s.tasks)
    <2>1. t \in Reader /\ ReaderOK(t)
      <3>1. s \in Reader /\ s.floor \subseteq Invalidated /\ s.floor \subseteq s.tasks
        BY <1>1, <1>12 DEF ReaderOK, SetList
      <3>2. t.pc = "returned" /\ t.version = versionUnknown /\ t.floor = {}
        BY <3>1 DEF Returned, NoList
      <3>3. t \in Reader
        BY <3>1 DEF Reader, Returned, NoList
      <3>4. version \in Nat
        BY <1>1 DEF TypeOK
      <3> QED
        BY <3>1, <3>2, <3>3, <3>4 DEF ReaderOK, versionUnknown
    <2>2. \/ entries' = entries
          \/ s.version # versionUnknown /\ entries' = Stored(s.version, s.tasks)
      BY <1>12 DEF SetList
    <2>3. /\ entries' \in SUBSET Entry
          /\ \A e \in entries' : e.version <= version /\ UpTo(e.version) \subseteq e.tasks
      <3>1. CASE entries' = entries
        BY <1>2, <3>1
      <3>2. CASE s.version # versionUnknown /\ entries' = Stored(s.version, s.tasks)
        <4> DEFINE new == [version |-> s.version, tasks |-> s.tasks]
        <4>1. s.version <= version /\ UpTo(s.version) \subseteq s.tasks
          BY <1>1, <1>12 DEF ReaderOK, SetList
        <4>2. new \in Entry
          BY <1>1, <3>2 DEF Reader, Entry
        <4>3. \A e \in entries' : e \in entries \/ e = new
          BY <3>2 DEF Stored
        <4> QED
          BY <1>2, <4>1, <4>2, <4>3
      <3> QED
        BY <2>2, <3>1, <3>2
    <2> QED
      BY <1>12, <2>1, <2>3, ReaderStep DEF SetList
  <1>13. ASSUME NEW v, Expire(v) PROVE VersionInv'
    <2>1. entries' \subseteq entries /\ UNCHANGED <<db, writer, version, stamp, reader, flushed>>
      BY <1>13 DEF Expire
    <2>2. Invalidated' = Invalidated /\ \A x : UpTo(x)' = UpTo(x)
      BY <2>1 DEF Invalidated, UpTo
    <2>3. TypeOK'
      BY <1>1, <2>1 DEF TypeOK
    <2>4. \A r \in Readers : ReaderOK(reader[r])'
      BY <1>1, <2>1, <2>2 DEF ReaderOK
    <2> QED
      BY <2>1, <2>2, <2>3, <2>4 DEF VersionInv
  <1>14. ASSUME Flush PROVE FALSE
    BY <1>14 DEF Flush
  <1> QED
    BY <1>3, <1>4, <1>5, <1>6, <1>7, <1>8, <1>9, <1>10, <1>11, <1>12, <1>13, <1>14 DEF Next, Write, List

(* Types are kept by every step, with or without a restart of Redis.       *)
LEMMA NextType == TypeOK /\ [Next]_vars => TypeOK'
  <1> SUFFICES ASSUME TypeOK, [Next]_vars PROVE TypeOK'
    OBVIOUS
  <1>1. CASE UNCHANGED vars
    BY <1>1 DEF vars, TypeOK
  <1>2. ASSUME NEW w \in Writes, Write(w) PROVE TypeOK'
    BY <1>2 DEF Write, Commit, InvalidateTeam, IncrRetried, InvalidateFails, TypeOK
  <1>3. ASSUME NEW r \in Readers, List(r) PROVE TypeOK'
    <2>1. reader[r] \in Reader /\ Invalidated \in SUBSET Writes
      BY DEF TypeOK, Invalidated
    <2>2. CASE GetVersion(r)
      BY <2>1, <2>2 DEF GetVersion, TypeOK, Reader
    <2>3. CASE GetHit(r)
      <3>1. PICK e \in entries :
              reader' = [reader EXCEPT ![r] = Returned(reader[r], e.tasks)]
        BY <2>3 DEF GetHit
      <3>2. Returned(reader[r], e.tasks) \in Reader
        BY <2>1 DEF TypeOK, Reader, Entry, Returned, NoList
      <3> QED
        BY <2>3, <3>1, <3>2 DEF GetHit, TypeOK
    <2>4. CASE GetMiss(r) \/ Query(r) \/ QueryFails(r)
      <3>1. /\ [reader[r] EXCEPT !.pc = "query"] \in Reader
            /\ [reader[r] EXCEPT !.pc = "fill", !.tasks = db] \in Reader
            /\ NoList \in Reader
        BY <2>1 DEF TypeOK, Reader, NoList
      <3> QED
        BY <2>4, <3>1 DEF GetMiss, Query, QueryFails, TypeOK
    <2>5. CASE SetList(r)
      <3>1. Returned(reader[r], reader[r].tasks) \in Reader
        BY <2>1 DEF Reader, Returned, NoList
      <3>2. reader[r].version # versionUnknown =>
              [version |-> reader[r].version, tasks |-> reader[r].tasks] \in Entry
        BY <2>1 DEF Reader, Entry
      <3>3. entries' \in SUBSET Entry
        BY <2>5, <3>2 DEF SetList, Stored, TypeOK
      <3> QED
        BY <2>5, <3>1, <3>3 DEF SetList, TypeOK
    <2> QED
      BY <1>3, <2>2, <2>3, <2>4, <2>5 DEF List
  <1>4. ASSUME NEW v, Expire(v) PROVE TypeOK'
    <2>1. entries' \subseteq entries /\ UNCHANGED <<db, writer, version, stamp, reader, flushed>>
      BY <1>4 DEF Expire
    <2> QED
      BY <2>1 DEF TypeOK
  <1>5. ASSUME Flush PROVE TypeOK'
    BY <1>5 DEF Flush, TypeOK
  <1> QED
    BY <1>1, <1>2, <1>3, <1>4, <1>5 DEF Next

(* Redis does not get its data back.                                       *)
LEMMA FlushedStays == TypeOK /\ [Next]_vars /\ ~flushed' => ~flushed
  BY DEF TypeOK, Next, vars, Write, Commit, InvalidateTeam, IncrRetried, InvalidateFails, List,
         GetVersion, GetHit, GetMiss, Query, QueryFails, SetList, Expire, Flush

(* The version discipline of GetList, SetList and InvalidateTeam holds for *)
(* any number of writers and readers, until Redis loses its data.          *)
THEOREM CacheInvariant == Spec => []CacheInv
  <1>1. Init => CacheInv
    BY InitVersionInv DEF CacheInv, VersionInv
  <1>2. CacheInv /\ [Next]_vars => CacheInv'
    BY NextVersionInv, NextType, FlushedStays DEF CacheInv
  <1> QED
    BY <1>1, <1>2, PTL DEF Spec

(* List never hides a write that was invalidated before it began, while    *)
(* Redis keeps its data.                                                   *)
THEOREM ListsAreFresh == Spec => []Fresh
  <1>1. CacheInv => Fresh
    BY DEF CacheInv, VersionInv, ReaderOK, Fresh
  <1> QED
    BY CacheInvariant, <1>1, PTL

(* No late fill of SetList leaves an incomplete entry, while Redis keeps   *)
(* its data.                                                               *)
THEOREM NoLateFill == Spec => []EntriesComplete
  <1>1. CacheInv => EntriesComplete
    BY DEF CacheInv, VersionInv, UpTo, EntriesComplete
  <1> QED
    BY CacheInvariant, <1>1, PTL
=============================================================================
