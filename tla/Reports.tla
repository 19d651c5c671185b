------------------------------ MODULE Reports ------------------------------
(***************************************************************************)
(* The paged reads of the API: the task list (persistence/task.go), the    *)
(* comments of a task (persistence/comment.go) and the three reports for   *)
(* administrators (persistence/analytics.go), with the access checks of    *)
(* service/authorizer.go and the cursor their handlers answer, and a       *)
(* client that reads one of them page by page to its end while other       *)
(* requests change the tables.                                             *)
(*                                                                         *)
(* A page is one query, and one step; of its rows the walk keeps the ids,  *)
(* as a set: a query gives each row once.  Ids are numbers, as             *)
(* AUTO_INCREMENT gives them, and 0 is no id.  Of a time only what the     *)
(* queries ask is kept: whether a task was created in the last month, and  *)
(* whether it was completed in the last seven days.  The task list is what *)
(* the database holds; that the cache in front of it answers the same is   *)
(* TaskListCache.Fresh.                                                    *)
(***************************************************************************)
EXTENDS Naturals, FiniteSets, FiniteSetsExt

CONSTANTS
    Readers,      \* the clients, by user id
    Admins,       \* the global administrators among them
    Reads,        \* what they may ask for
    Limit,        \* the page size they ask for
    FirstTables,  \* the tables at the beginning
    Changes(_),   \* what another request, or the time, may make of them
    MaxChanges    \* bound: how often the tables change

Ids == Nat \ {0}

Statuses == {"todo", "in_progress", "done"}

Task == [id: Ids, team: Ids, status: Statuses, assignee: Nat, creator: Ids,
         month: BOOLEAN, week: BOOLEAN]

Comment == [id: Ids, task: Ids]

Tables == [teams: SUBSET Ids, tasks: SUBSET Task, members: SUBSET (Ids \X Ids),
           comments: SUBSET Comment]

(* The tables hold rows, finitely many.                                    *)
IsDatabase(d) ==
    /\ d \in Tables
    /\ IsFiniteSet(d.teams) /\ IsFiniteSet(d.tasks) /\ IsFiniteSet(d.comments)

(* The task list has its filter, of which "any" and 0 leave a part out;    *)
(* the comments have their task; the reports have neither.                 *)
Read == [what: {"tasks", "comments", "stats", "creators", "orphans"},
         team: Nat, task: Nat, status: Statuses \cup {"any"}, assignee: Nat]

NoRead == [what |-> "none", team |-> 0, task |-> 0, status |-> "any", assignee |-> 0]

ASSUME ReadsAssumption ==
    /\ Reads \subseteq Read
    /\ Readers \subseteq Ids /\ Admins \subseteq Readers
    /\ IsDatabase(FirstTables)
    /\ Limit \in Nat \ {0} /\ MaxChanges \in Nat

VARIABLES
    db,       \* the tables
    changes,  \* how often they have changed
    walk      \* the read of a client

readsVars == <<db, changes, walk>>

(* got, again: the ids the client was shown, and those shown once more;    *)
(* always, ever: history, the rows that belonged to the read at every page *)
(* and at some page.                                                       *)
NoWalk == [user |-> 0, read |-> NoRead, cursor |-> 0, got |-> {}, again |-> {},
           always |-> {}, ever |-> {}, done |-> FALSE]

ReadsInit ==
    /\ db = FirstTables
    /\ changes = 0
    /\ walk = NoWalk

-----------------------------------------------------------------------------
(* The queries, as functions of the tables.                                *)

(* ... WHERE id > after ORDER BY id LIMIT limit, over the ids I.           *)
Page(I, after, limit) ==
    {i \in I : i > after /\ Cardinality({j \in I : after < j /\ j <= i}) <= limit}

(* next_cursor: the last id of a page that is full, none otherwise.        *)
NextCursor(ids, limit) == IF Cardinality(ids) = limit THEN Max(ids) ELSE 0

(* TaskRepo.List.                                                          *)
TaskKeys(d, filter) ==
    {t.id : t \in {x \in d.tasks : /\ x.team = filter.team
                                   /\ filter.status \in {"any", x.status}
                                   /\ filter.assignee \in {0, x.assignee}}}

TaskList(d, filter, after, limit) ==
    LET ids == Page(TaskKeys(d, filter), after, limit)
    IN  [items |-> {t \in d.tasks : t.id \in ids}, keys |-> ids, next |-> NextCursor(ids, limit)]

(* CommentRepo.List.                                                       *)
CommentKeys(d, filter) == {c.id : c \in {x \in d.comments : x.task = filter.task}}

CommentList(d, filter, after, limit) ==
    LET ids == Page(CommentKeys(d, filter), after, limit)
    IN  [items |-> {c \in d.comments : c.id \in ids}, keys |-> ids, next |-> NextCursor(ids, limit)]

(* AnalyticsRepo.TeamStats: the teams of the page, also those without      *)
(* members or tasks.                                                       *)
TeamStats(d, after, limit) ==
    LET ids == Page(d.teams, after, limit)
    IN  [items |-> {[id |-> g,
                     members |-> Cardinality({m \in d.members : m[1] = g}),
                     done |-> Cardinality({t \in d.tasks : t.team = g /\ t.status = "done" /\ t.week})]
                    : g \in ids},
         keys |-> ids,
         next |-> NextCursor(ids, limit)]

(* AnalyticsRepo.TopCreators pages over the teams with a task of the last  *)
(* month and ranks the creators of each by their number of tasks, the      *)
(* lower id first among equals.                                            *)
CreatorKeys(d) == {t.team : t \in {x \in d.tasks : x.month}}

Created(ts, g, u) == Cardinality({t \in ts : t.month /\ t.team = g /\ t.creator = u})

Rank(ts, g, u) ==
    LET creators == {t.creator : t \in {x \in ts : x.month /\ x.team = g}}
        ahead(v) == \/ Created(ts, g, v) > Created(ts, g, u)
                    \/ Created(ts, g, v) = Created(ts, g, u) /\ v <= u
    IN  Cardinality({v \in creators : ahead(v)})

Ranked(ts, gs) ==
    {r \in [team: gs, user: {t.creator : t \in ts}, rank: 1 .. 3] :
        /\ Created(ts, r.team, r.user) > 0
        /\ Rank(ts, r.team, r.user) = r.rank}

(* Mutant: the cursor of a page that has as many rows as teams were asked. *)
TopCreatorsByRow(d, after, limit) ==
    LET ids  == Page(CreatorKeys(d), after, limit)
        rows == Ranked(d.tasks, ids)
    IN  [items |-> rows, keys |-> {r.team : r \in rows},
         next |-> IF Cardinality(rows) = limit THEN Max(ids) ELSE 0]

(* The handler counts the teams among the rows, which are ordered by team. *)
TopCreators(d, after, limit) ==
    LET ids  == Page(CreatorKeys(d), after, limit)
        rows == Ranked(d.tasks, ids)
        seen == {r.team : r \in rows}
    IN  [items |-> rows, keys |-> seen, next |-> NextCursor(seen, limit)]

(* AnalyticsRepo.OrphanAssignees.                                          *)
OrphanKeys(d) ==
    {t.id : t \in {x \in d.tasks : x.assignee # 0 /\ <<x.team, x.assignee>> \notin d.members}}

OrphanAssignees(d, after, limit) ==
    LET ids == Page(OrphanKeys(d), after, limit)
    IN  [items |-> {t \in d.tasks : t.id \in ids}, keys |-> ids, next |-> NextCursor(ids, limit)]

-----------------------------------------------------------------------------
(* The requests.                                                           *)

(* RequireAdmin for the reports, RequireTeamRole for the lists, once the   *)
(* task whose comments are asked for was found.                            *)
RequireTeamRole(u, team) == IF u \in Admins \/ <<team, u>> \in db.members THEN 200 ELSE 404

Access(u, read) ==
    CASE read.what = "tasks" -> RequireTeamRole(u, read.team)
      [] read.what = "comments" ->
            IF \E t \in db.tasks : t.id = read.task /\ RequireTeamRole(u, t.team) = 200 THEN 200 ELSE 404
      [] OTHER -> IF u \in Admins THEN 200 ELSE 403

(* The rows a read is about, by the id its cursor runs over.               *)
KeysOf(read, d) ==
    CASE read.what = "tasks" -> TaskKeys(d, read)
      [] read.what = "comments" -> CommentKeys(d, read)
      [] read.what = "stats" -> d.teams
      [] read.what = "creators" -> CreatorKeys(d)
      [] read.what = "orphans" -> OrphanKeys(d)

PageOf(read, d, after) ==
    CASE read.what = "tasks" -> TaskList(d, read, after, Limit)
      [] read.what = "comments" -> CommentList(d, read, after, Limit)
      [] read.what = "stats" -> TeamStats(d, after, Limit)
      [] read.what = "creators" -> TopCreators(d, after, Limit)
      [] read.what = "orphans" -> OrphanAssignees(d, after, Limit)

(* A client begins a read, or asks for the page after its cursor.          *)
Reading(u, read) ==
    IF walk.read # NoRead /\ ~walk.done THEN walk
    ELSE [NoWalk EXCEPT !.user = u, !.read = read,
                        !.always = KeysOf(read, db), !.ever = KeysOf(read, db)]

(* A handler that is asked for what the client has no right to, with a     *)
(* cursor it cannot read, or whose query fails, answers that and changes   *)
(* nothing; the client may ask again.                                      *)
Get(u, read) ==
    LET w == Reading(u, read)
        p == PageOf(read, db, w.cursor)
    IN  /\ w.user = u /\ w.read = read
        /\ Access(u, read) = 200
        /\ walk' = [w EXCEPT !.cursor = p.next, !.done = (p.next = 0),
                             !.got = @ \cup p.keys, !.again = @ \cup (w.got \cap p.keys)]
        /\ UNCHANGED <<db, changes>>

(* Another request commits, or a row grows older than a report looks.      *)
Change ==
    /\ changes < MaxChanges
    /\ db' \in Changes(db) /\ IsDatabase(db')
    /\ walk' = IF walk.read = NoRead \/ walk.done THEN walk
               ELSE [walk EXCEPT !.always = @ \cap KeysOf(walk.read, db'),
                                 !.ever = @ \cup KeysOf(walk.read, db')]
    /\ changes' = changes + 1

ReadsNext ==
    \/ \E u \in Readers, read \in Reads : Get(u, read)
    \/ Change

ReadsSpec == ReadsInit /\ [][ReadsNext]_readsVars

-----------------------------------------------------------------------------
(* What is read page by page to its end shows every row that belonged to   *)
(* it all the time exactly once, and no row that never did, whatever       *)
(* changed between the pages (NextCursor and the WHERE id > ? of the       *)
(* queries).                                                               *)
WalkComplete ==
    walk.done =>
        /\ walk.again = {}
        /\ walk.always \subseteq walk.got
        /\ walk.got \subseteq walk.ever
-----------------------------------------------------------------------------
(* The invariant that the proof of WalkComplete goes by.  While a client   *)
(* reads, the cursor separates what it was shown from what it was not: of  *)
(* the rows that have belonged to the read all along, the ones up to the   *)
(* cursor, and no row beyond it.                                           *)
Walk == [user: Nat, read: Reads \cup {NoRead}, cursor: Nat, got: SUBSET Ids,
         again: SUBSET Ids, always: SUBSET Ids, ever: SUBSET Ids, done: BOOLEAN]

Separated(w) ==
    /\ w.always \subseteq KeysOf(w.read, db)
    /\ KeysOf(w.read, db) \subseteq w.ever
    /\ \A i \in w.got : i <= w.cursor
    /\ \A i \in w.always : i <= w.cursor => i \in w.got

ReadsInv ==
    /\ IsDatabase(db)
    /\ changes \in 0 .. MaxChanges
    /\ walk \in Walk
    /\ walk.again = {}
    /\ walk.got \subseteq walk.ever
    /\ walk.done => walk.read # NoRead /\ walk.always \subseteq walk.got
    /\ ~walk.done /\ walk.read # NoRead => Separated(walk)
=============================================================================
