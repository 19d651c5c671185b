--------------------------- MODULE TaskListCache ---------------------------
(***************************************************************************)
(* The cache of one team's task list (internal/infrastructure/cache/       *)
(* tasks.go) under the reads and writes of internal/service/tasks.go.      *)
(* Entries are keyed by a version that every write increments in Redis     *)
(* after its transaction committed; a reader that misses queries MySQL and *)
(* fills the entry of the version it read first.                           *)
(*                                                                         *)
(* A list is the set of writes (task creations and updates) that it shows. *)
(* Teams and filters are parts of every key and independent of each other, *)
(* so one team and one filter stand for all.  Refused requests (no such    *)
(* task, no role in the team, a failed transaction) change nothing.        *)
(***************************************************************************)
EXTENDS Integers, FiniteSets

CONSTANTS
    Writes,    \* the Create and Update requests on tasks of the team
    Flaky,     \* bound: the writes whose Incr may lose a reply
    Readers    \* the goroutines that serve List requests

VARIABLES
    db,        \* the writes committed in MySQL
    writer,    \* the progress of each write request
    version,   \* the counter tasks:ver:<team>, 0 while the key is absent
    stamp,     \* history: the version that a write's Incr produced, or 0
    entries,   \* the list entries in Redis, at most one per version
    reader,    \* the progress of each List request
    flushed    \* whether Redis has restarted without its data

vars == <<db, writer, version, stamp, entries, reader, flushed>>

versionUnknown == -1

Entry == [version: Nat, tasks: SUBSET Writes]

(* floor: history, the writes that were invalidated before the request;    *)
(* once it has its answer, those that the answer does not show.            *)
Reader == [pc: {"idle", "get", "query", "fill", "returned"},
           version: Nat \cup {versionUnknown},
           tasks: SUBSET Writes,
           floor: SUBSET Writes]

(* The type of the state of requests, MySQL and Redis.                     *)
TypeOK ==
    /\ db \in SUBSET Writes
    /\ writer \in [Writes -> {"new", "committed", "retried", "done", "lost"}]
    /\ version \in Nat
    /\ stamp \in [Writes -> Nat]
    /\ entries \in SUBSET Entry
    /\ reader \in [Readers -> Reader]
    /\ flushed \in BOOLEAN

NoList == [pc |-> "idle", version |-> versionUnknown, tasks |-> {}, floor |-> {}]

Init ==
    /\ db = {}
    /\ writer = [w \in Writes |-> "new"]
    /\ version = 0
    /\ stamp = [w \in Writes |-> 0]
    /\ entries = {}
    /\ reader = [r \in Readers |-> NoList]
    /\ flushed = FALSE

(* The writes whose invalidation has reached Redis.                        *)
Invalidated == {w \in Writes : stamp[w] > 0}

-----------------------------------------------------------------------------
(* Create and Update: the transaction commits, then the team's lists are   *)
(* invalidated, then the response is written.                              *)

Commit(w) ==
    /\ writer[w] = "new"
    /\ db' = db \cup {w}
    /\ writer' = [writer EXCEPT ![w] = "committed"]
    /\ UNCHANGED <<version, stamp, entries, reader, flushed>>

InvalidateTeam(w) ==
    /\ writer[w] \in {"committed", "retried"}
    /\ version' = version + 1
    /\ stamp' = [stamp EXCEPT ![w] = version + 1]
    /\ writer' = [writer EXCEPT ![w] = "done"]
    /\ UNCHANGED <<db, entries, reader, flushed>>

(* The Incr takes effect and its reply is lost: the client tries it again, *)
(* once (NewRedis, max_retries), and counts the write twice.               *)
IncrRetried(w) ==
    /\ writer[w] = "committed" /\ w \in Flaky
    /\ version' = version + 1
    /\ writer' = [writer EXCEPT ![w] = "retried"]
    /\ UNCHANGED <<db, stamp, entries, reader, flushed>>

(* No Incr is answered, which may have taken effect all the same; or the   *)
(* process dies after the commit, or the acknowledgement of the commit is  *)
(* lost and the service stops there.                                       *)
InvalidateFails(w) ==
    /\ writer[w] \in {"committed", "retried"}
    /\ version' = version \/ (w \in Flaky /\ version' = version + 1)
    /\ writer' = [writer EXCEPT ![w] = "lost"]
    /\ UNCHANGED <<db, stamp, entries, reader, flushed>>

-----------------------------------------------------------------------------
(* List.                                                                   *)

(* GetList reads the version; an error leaves it unknown, and the list is  *)
(* then neither looked up nor stored.                                      *)
GetVersion(r) ==
    /\ reader[r].pc \in {"idle", "returned"}
    /\ \E known \in BOOLEAN :
          reader' = [reader EXCEPT ![r] = [pc |-> IF known THEN "get" ELSE "query",
                                           version |-> IF known THEN version ELSE versionUnknown,
                                           tasks |-> {},
                                           floor |-> Invalidated]]
    /\ UNCHANGED <<db, writer, version, stamp, entries, flushed>>

(* A request that was answered with the list tasks.                        *)
Returned(s, tasks) == [NoList EXCEPT !.pc = "returned", !.floor = s.floor \ tasks]

(* Mutant: a list key without the version.                                 *)
GetHitAnyVersion(r) ==
    /\ reader[r].pc = "get"
    /\ \E e \in entries :
          reader' = [reader EXCEPT ![r] = Returned(reader[r], e.tasks)]
    /\ UNCHANGED <<db, writer, version, stamp, entries, flushed>>

(* Mutant: a hit is stored again, to renew its TTL.                        *)
GetHitRenews(r) ==
    /\ reader[r].pc = "get"
    /\ \E e \in entries :
          /\ e.version = reader[r].version
          /\ reader' = [reader EXCEPT ![r] = [reader[r] EXCEPT !.pc = "fill", !.tasks = e.tasks]]
    /\ UNCHANGED <<db, writer, version, stamp, entries, flushed>>

GetHit(r) ==
    /\ reader[r].pc = "get"
    /\ \E e \in entries :
          /\ e.version = reader[r].version
          /\ reader' = [reader EXCEPT ![r] = Returned(reader[r], e.tasks)]
    /\ UNCHANGED <<db, writer, version, stamp, entries, flushed>>

(* Nothing cached, or Redis fails, or the entry cannot be decoded.         *)
GetMiss(r) ==
    /\ reader[r].pc = "get"
    /\ reader' = [reader EXCEPT ![r] = [reader[r] EXCEPT !.pc = "query"]]
    /\ UNCHANGED <<db, writer, version, stamp, entries, flushed>>

Query(r) ==
    /\ reader[r].pc = "query"
    /\ reader' = [reader EXCEPT ![r] = [reader[r] EXCEPT !.pc = "fill", !.tasks = db]]
    /\ UNCHANGED <<db, writer, version, stamp, entries, flushed>>

QueryFails(r) ==
    /\ reader[r].pc = "query"
    /\ reader' = [reader EXCEPT ![r] = NoList]
    /\ UNCHANGED <<db, writer, version, stamp, entries, flushed>>

(* SET overwrites the entry of that version.                               *)
Stored(v, tasks) == {e \in entries : e.version # v} \cup {[version |-> v, tasks |-> tasks]}

(* Mutant: the fill goes to the version that is current when it is made.   *)
SetListCurrent(r) ==
    /\ reader[r].pc = "fill"
    /\ \/ reader[r].version # versionUnknown /\ entries' = Stored(version, reader[r].tasks)
       \/ UNCHANGED entries
    /\ reader' = [reader EXCEPT ![r] = Returned(reader[r], reader[r].tasks)]
    /\ UNCHANGED <<db, writer, version, stamp, flushed>>

SetList(r) ==
    /\ reader[r].pc = "fill"
    /\ \/ reader[r].version # versionUnknown /\ entries' = Stored(reader[r].version, reader[r].tasks)
       \/ UNCHANGED entries   \* version unknown, or Redis fails
    /\ reader' = [reader EXCEPT ![r] = Returned(reader[r], reader[r].tasks)]
    /\ UNCHANGED <<db, writer, version, stamp, flushed>>

(* tasks_ttl passes, or Redis evicts the entry.                            *)
Expire(v) ==
    /\ \E e \in entries : e.version = v
    /\ entries' = {e \in entries : e.version # v}
    /\ UNCHANGED <<db, writer, version, stamp, reader, flushed>>

(* Redis restarts without its data: no entry is left, and the version of   *)
(* an absent key is 0.  Bound: once in a behaviour.                        *)
Flush ==
    /\ ~flushed
    /\ flushed' = TRUE
    /\ version' = 0
    /\ entries' = {}
    /\ UNCHANGED <<db, writer, stamp, reader>>

-----------------------------------------------------------------------------
Write(w) == Commit(w) \/ InvalidateTeam(w) \/ IncrRetried(w) \/ InvalidateFails(w)

List(r) == GetVersion(r) \/ GetHit(r) \/ GetMiss(r) \/ Query(r) \/ QueryFails(r) \/ SetList(r)

Next ==
    \/ \E w \in Writes : Write(w)
    \/ \E r \in Readers : List(r)
    \/ \E v \in {e.version : e \in entries} : Expire(v)
    \/ Flush

Spec == Init /\ [][Next]_vars

(* A request that began goes on, and entries have a TTL.  No client has to *)
(* send requests.                                                          *)
Fairness ==
    /\ \A r \in Readers : WF_vars(GetHit(r) \/ GetMiss(r) \/ Query(r) \/ QueryFails(r) \/ SetList(r))
    /\ \A v \in 0 .. Cardinality(Writes) + Cardinality(Flaky) : WF_vars(Expire(v))

FairSpec == Spec /\ Fairness

-----------------------------------------------------------------------------
(* A List shows every write that was invalidated before it read the        *)
(* version, in particular every write whose client had its answer, however *)
(* long a slow fill of an earlier reader was on its way.  A Redis that     *)
(* lost its data counts versions from 0 again, and a fill from before can  *)
(* then be met by a later version: the promise is for an intact Redis.     *)
Fresh ==
    ~flushed => \A r \in Readers : reader[r].pc = "returned" => reader[r].floor = {}

(* No fill is late: an entry shows every write up to its version, so what  *)
(* a reader finds under the current version hides no invalidated write.    *)
EntriesComplete ==
    ~flushed => \A e \in entries, w \in Invalidated : stamp[w] <= e.version => w \in e.tasks

(* A lost invalidation leaves the list stale only until it expires         *)
(* (InvalidateTeam's log message), and so does a restart of Redis: from    *)
(* some point on no entry lacks a committed write.                         *)
StaleUntilItExpires ==
    \A w \in Writes : <>[](w \in db => \A e \in entries : w \in e.tasks)

-----------------------------------------------------------------------------
(* The inductive invariant.  The version a reader holds is not ahead of    *)
(* the counter, so no later Incr can produce it again; what it read from   *)
(* MySQL afterwards contains every write stamped up to that version.       *)

UpTo(v) == {w \in Invalidated : stamp[w] <= v}

ReaderOK(s) ==
    /\ s.version <= version
    /\ s.floor \subseteq Invalidated
    /\ s.pc = "get" => s.version # versionUnknown /\ s.floor \subseteq UpTo(s.version)
    /\ s.pc = "fill" => s.floor \cup UpTo(s.version) \subseteq s.tasks
    /\ s.pc = "returned" => s.floor = {}

VersionInv ==
    /\ TypeOK
    /\ \A w \in Writes : stamp[w] <= version
    /\ \A w \in Writes : writer[w] \in {"new", "committed", "retried"} => stamp[w] = 0
    /\ Invalidated \subseteq db
    /\ \A w \in Writes : writer[w] \in {"committed", "retried"} => w \in db
    /\ \A e \in entries : e.version <= version /\ UpTo(e.version) \subseteq e.tasks
    /\ \A r \in Readers : ReaderOK(reader[r])

(* Until Redis loses its data, versions order the writes, the fills and    *)
(* the reads of GetList, SetList and InvalidateTeam.                       *)
CacheInv == TypeOK /\ (~flushed => VersionInv)
=============================================================================
