----------------------------- MODULE ApiProofs -----------------------------
(***************************************************************************)
(* Proofs about the paged reads (Reports) and about the way to a handler   *)
(* (Admission).                                                            *)
(***************************************************************************)
EXTENDS Admission, Reports, FiniteSetTheorems, WellFoundedInduction, TLAPS

-----------------------------------------------------------------------------
(* Least and greatest elements.                                            *)

(* A set of natural numbers that is not empty has a least element.         *)
LEMMA LeastElement ==
    ASSUME NEW S \in SUBSET Nat, S # {}
    PROVE  \E x \in S : \A y \in S : x <= y
<1>1. PICK x \in S : \A y \in S : ~(<<y, x>> \in OpToRel(<, Nat))
  BY NatLessThanWellFounded, WFMin
<1>2. ASSUME NEW y \in S
      PROVE  x <= y
  <2>1. ~(y < x)
    BY <1>1, <1>2 DEF OpToRel
  <2> QED
    BY <2>1
<1> QED
  BY <1>2

(* Some element of a non-empty set has the least measure.                  *)
LEMMA LeastMeasure ==
    ASSUME NEW S, S # {}, NEW f \in [S -> Nat]
    PROVE  \E x \in S : \A y \in S : f[x] <= f[y]
<1> DEFINE V == {f[x] : x \in S}
<1>1. V \in SUBSET Nat /\ V # {}
  OBVIOUS
<1>2. PICK v \in V : \A w \in V : v <= w
  BY <1>1, LeastElement
<1>3. PICK x \in S : f[x] = v
  OBVIOUS
<1> QED
  BY <1>2, <1>3

(* A set of numbers that is finite and not empty has a greatest element,   *)
(* which is its Max.                                                       *)
LEMMA Greatest ==
    ASSUME NEW S \in SUBSET Nat, IsFiniteSet(S), S # {}
    PROVE  Max(S) \in S /\ \A y \in S : y <= Max(S)
<1> DEFINE above(x) == {y \in S : y > x}
           f == [x \in S |-> Cardinality(above(x))]
<1>1. \A x \in S : IsFiniteSet(above(x)) /\ Cardinality(above(x)) \in Nat
  BY FS_Subset, FS_CardinalityType
<1>2. f \in [S -> Nat]
  BY <1>1
<1>3. PICK x \in S : \A y \in S : f[x] <= f[y]
  BY <1>2, LeastMeasure
<1>4. ASSUME NEW y \in S, y > x
      PROVE  FALSE
  <2> HIDE DEF f
  <2>1. x \in Nat /\ y \in Nat /\ \A z \in S : z \in Nat
    OBVIOUS
  <2>2. above(y) \in SUBSET above(x)
    <3>1. \A z \in S : z > y => z > x
      BY <2>1, <1>4
    <3> QED
      BY <3>1, Zenon
  <2>3. y \in above(x) /\ y \notin above(y)
    BY <2>1, <1>4
  <2>4. Cardinality(above(y)) < Cardinality(above(x))
    <3> HIDE DEF above
    <3> QED
      BY <2>2, <2>3, <1>1, FS_Subset
  <2> QED
    BY <2>4, <1>1, <1>3 DEF f
<1>5. \A y \in S : x >= y
  BY <1>4
<1> QED
  BY <1>5 DEF Max

-----------------------------------------------------------------------------
(* Pages.                                                                  *)

(* The ids of I after the cursor, up to i.                                 *)
Upto(I, after, i) == {j \in I : after < j /\ j <= i}

LEMMA UptoFinite ==
    ASSUME NEW I, IsFiniteSet(I), NEW after, NEW i
    PROVE  /\ Upto(I, after, i) \in SUBSET I
           /\ IsFiniteSet(Upto(I, after, i))
           /\ Cardinality(Upto(I, after, i)) \in Nat
<1>1. Upto(I, after, i) \in SUBSET I
  BY DEF Upto
<1> QED
  BY <1>1, FS_Subset, FS_CardinalityType

(* A page holds every id up to the last it holds.                          *)
LEMMA PageIsInitial ==
    ASSUME NEW I \in SUBSET Ids, IsFiniteSet(I), NEW after \in Nat, NEW limit \in Nat \ {0},
           NEW i \in Page(I, after, limit), NEW j \in I, after < j, j <= i
    PROVE  j \in Page(I, after, limit)
<1>1. i \in I /\ i \in Nat /\ j \in Nat /\ \A k \in I : k \in Nat
  BY DEF Page, Ids
<1>2. Upto(I, after, j) \in SUBSET Upto(I, after, i)
  <2>1. \A k \in I : k <= j => k <= i
    BY <1>1
  <2> QED
    BY <2>1, Zenon DEF Upto
<1>3. Cardinality(Upto(I, after, j)) <= Cardinality(Upto(I, after, i))
  BY <1>2, UptoFinite, FS_Subset
<1>4. Cardinality(Upto(I, after, i)) <= limit
  BY DEF Page, Upto
<1>5. Cardinality(Upto(I, after, j)) <= limit
  BY <1>3, <1>4, UptoFinite
<1> QED
  BY <1>5 DEF Page, Upto

(* A page is finite and has no more rows than were asked for.              *)
LEMMA PageFits ==
    ASSUME NEW I \in SUBSET Ids, IsFiniteSet(I), NEW after \in Nat, NEW limit \in Nat \ {0}
    PROVE  LET P == Page(I, after, limit)
           IN  /\ P \in SUBSET I /\ P \in SUBSET Ids
               /\ \A i \in P : after < i
               /\ IsFiniteSet(P) /\ Cardinality(P) \in Nat /\ Cardinality(P) <= limit
<1> DEFINE P == Page(I, after, limit)
<1>1. P \in SUBSET I /\ P \in SUBSET Ids /\ P \in SUBSET Nat /\ \A i \in P : after < i
  <2>1. P \in SUBSET I
    BY DEF Page
  <2>2. \A i \in P : after < i
    BY DEF Page, Ids
  <2> QED
    BY <2>1, <2>2 DEF Ids
<1>2. IsFiniteSet(P) /\ Cardinality(P) \in Nat
  BY <1>1, FS_Subset, FS_CardinalityType
<1>3. Cardinality(P) <= limit
  <2>1. CASE P = {}
    BY <2>1, FS_EmptySet
  <2>2. CASE P # {}
    <3>1. Max(P) \in P /\ \A y \in P : y <= Max(P)
      BY <2>2, <1>1, <1>2, Greatest
    <3> HIDE DEF P
    <3>2. P \in SUBSET Upto(I, after, Max(P))
      BY <3>1, <1>1 DEF Upto
    <3>3. Cardinality(P) <= Cardinality(Upto(I, after, Max(P)))
      BY <3>2, UptoFinite, FS_Subset
    <3>4. Cardinality(Upto(I, after, Max(P))) <= limit
      BY <3>1 DEF P, Page, Upto
    <3> QED
      BY <3>3, <3>4, <1>2, UptoFinite
  <2> QED
    BY <2>1, <2>2
<1> QED
  BY <1>1, <1>2, <1>3

(* An id that a page leaves out makes it a full one.                       *)
LEMMA PageLeavesOut ==
    ASSUME NEW I \in SUBSET Ids, IsFiniteSet(I), NEW after \in Nat, NEW limit \in Nat \ {0},
           NEW i \in I, after < i, i \notin Page(I, after, limit)
    PROVE  Cardinality(Page(I, after, limit)) = limit
<1> DEFINE P == Page(I, after, limit)
           M == {m \in I : after < m /\ m \notin P}
<1>1. M \in SUBSET Nat /\ i \in M
  BY DEF Ids
<1>2. PICK m \in M : \A y \in M : m <= y
  BY <1>1, LeastElement
<1>3. m \in I /\ after < m /\ m \notin P
  BY <1>2
<1>4. Cardinality(Upto(I, after, m)) > limit
  <2>1. ~(Cardinality(Upto(I, after, m)) <= limit)
    BY <1>3 DEF Page, Upto
  <2> QED
    BY <2>1, UptoFinite
<1>5. Upto(I, after, m) \ {m} \in SUBSET P
  <2> SUFFICES ASSUME NEW k \in I, after < k, k <= m, k # m, k \notin P
               PROVE  FALSE
    BY DEF Upto
  <2>1. k \in M
    OBVIOUS
  <2>2. m <= k
    BY <2>1, <1>2
  <2> QED
    BY <2>2, <1>1, <1>2
<1>6. m \in Upto(I, after, m)
  BY <1>1, <1>3 DEF Upto
<1> HIDE DEF P, M
<1>7. Cardinality(Upto(I, after, m) \ {m}) = Cardinality(Upto(I, after, m)) - 1
  BY <1>6, UptoFinite, FS_RemoveElement
<1>8. IsFiniteSet(P) /\ Cardinality(P) \in Nat /\ Cardinality(P) <= limit
  BY PageFits DEF P
<1>9. Cardinality(Upto(I, after, m) \ {m}) <= Cardinality(P)
  BY <1>5, <1>8, FS_Subset
<1>10. Cardinality(P) = limit
  BY <1>4, <1>7, <1>8, <1>9, UptoFinite
<1> QED
  BY <1>10 DEF P

(* What paging rests on: a page holds only ids after the cursor; without a *)
(* next cursor it holds all of them, and with one all up to that cursor,   *)
(* which none of its ids exceeds.                                          *)
LEMMA PageAndCursor ==
    ASSUME NEW I \in SUBSET Ids, IsFiniteSet(I), NEW after \in Nat, NEW limit \in Nat \ {0},
           NEW N, N = NextCursor(Page(I, after, limit), limit)
    PROVE  LET P == Page(I, after, limit)
           IN  /\ P \in SUBSET I /\ \A i \in P : after < i
               /\ N \in Nat
               /\ N = 0 => \A i \in I : after < i => i \in P
               /\ N # 0 => /\ after < N
                           /\ \A i \in P : i <= N
                           /\ \A i \in I : after < i /\ i <= N => i \in P
<1> DEFINE P == Page(I, after, limit)
<1>1. /\ P \in SUBSET I /\ P \in SUBSET Ids /\ \A i \in P : after < i
      /\ IsFiniteSet(P) /\ Cardinality(P) \in Nat
  BY PageFits
<1>2. CASE Cardinality(P) = limit
  <2>1. P # {}
    BY <1>2, FS_EmptySet
  <2>2. Max(P) \in P /\ \A y \in P : y <= Max(P)
    BY <1>1, <2>1, Greatest DEF Ids
  <2>3. N = Max(P) /\ N \in Nat /\ N # 0
    BY <1>1, <1>2, <2>2 DEF NextCursor, Ids
  <2>4. \A i \in I : after < i /\ i <= N => i \in P
    BY <2>2, <2>3, PageIsInitial
  <2> QED
    BY <1>1, <2>2, <2>3, <2>4
<1>3. CASE Cardinality(P) # limit
  <2>1. N = 0
    BY <1>3 DEF NextCursor
  <2>2. \A i \in I : after < i => i \in P
    BY <1>3, PageLeavesOut
  <2> QED
    BY <1>1, <2>1, <2>2
<1> QED
  BY <1>2, <1>3

-----------------------------------------------------------------------------
(* The reads as pages over their keys.                                     *)

(* A finite set has a finite image.                                        *)
LEMMA ImageFinite ==
    ASSUME NEW S, IsFiniteSet(S), NEW f, f = [x \in S |-> f[x]]
    PROVE  IsFiniteSet({f[x] : x \in S})
<1> DEFINE V == {f[x] : x \in S}
<1>1. f \in Surjection(S, V)
  BY DEF Surjection
<1> QED
  BY <1>1, FS_Surjection

LEMMA TaskKeysFinite ==
    ASSUME NEW d, IsDatabase(d), NEW filter
    PROVE  TaskKeys(d, filter) \in SUBSET Ids /\ IsFiniteSet(TaskKeys(d, filter))
<1> DEFINE S == {x \in d.tasks : /\ x.team = filter.team
                                 /\ filter.status \in {"any", x.status}
                                 /\ filter.assignee \in {0, x.assignee}}
           f == [x \in S |-> x.id]
<1>1. S \in SUBSET d.tasks
  OBVIOUS
<1>2. IsFiniteSet(S)
  BY <1>1, FS_Subset DEF IsDatabase
<1>3. S \in SUBSET Task
  BY <1>1 DEF IsDatabase, Tables
<1>4. TaskKeys(d, filter) = {f[x] : x \in S}
  BY DEF TaskKeys
<1> HIDE DEF S
<1>5. IsFiniteSet({f[x] : x \in S})
  BY <1>2, ImageFinite
<1> QED
  BY <1>3, <1>4, <1>5 DEF Task

LEMMA OrphanKeysFinite ==
    ASSUME NEW d, IsDatabase(d)
    PROVE  OrphanKeys(d) \in SUBSET Ids /\ IsFiniteSet(OrphanKeys(d))
<1> DEFINE S == {x \in d.tasks : x.assignee # 0 /\ <<x.team, x.assignee>> \notin d.members}
           f == [x \in S |-> x.id]
<1>1. S \in SUBSET d.tasks
  OBVIOUS
<1>2. IsFiniteSet(S)
  BY <1>1, FS_Subset DEF IsDatabase
<1>3. S \in SUBSET Task
  BY <1>1 DEF IsDatabase, Tables
<1>4. OrphanKeys(d) = {f[x] : x \in S}
  BY DEF OrphanKeys
<1> HIDE DEF S
<1>5. IsFiniteSet({f[x] : x \in S})
  BY <1>2, ImageFinite
<1> QED
  BY <1>3, <1>4, <1>5 DEF Task

LEMMA CreatorKeysFinite ==
    ASSUME NEW d, IsDatabase(d)
    PROVE  CreatorKeys(d) \in SUBSET Ids /\ IsFiniteSet(CreatorKeys(d))
<1> DEFINE S == {x \in d.tasks : x.month}
           f == [x \in S |-> x.team]
<1>1. S \in SUBSET d.tasks
  OBVIOUS
<1>2. IsFiniteSet(S)
  BY <1>1, FS_Subset DEF IsDatabase
<1>3. S \in SUBSET Task
  BY <1>1 DEF IsDatabase, Tables
<1>4. CreatorKeys(d) = {f[x] : x \in S}
  BY DEF CreatorKeys
<1> HIDE DEF S
<1>5. IsFiniteSet({f[x] : x \in S})
  BY <1>2, ImageFinite
<1> QED
  BY <1>3, <1>4, <1>5 DEF Task

LEMMA CommentKeysFinite ==
    ASSUME NEW d, IsDatabase(d), NEW filter
    PROVE  CommentKeys(d, filter) \in SUBSET Ids /\ IsFiniteSet(CommentKeys(d, filter))
<1> DEFINE S == {x \in d.comments : x.task = filter.task}
           f == [x \in S |-> x.id]
<1>1. S \in SUBSET d.comments
  OBVIOUS
<1>2. IsFiniteSet(S)
  BY <1>1, FS_Subset DEF IsDatabase
<1>3. S \in SUBSET Comment
  BY <1>1 DEF IsDatabase, Tables
<1>4. CommentKeys(d, filter) = {f[x] : x \in S}
  BY DEF CommentKeys
<1> HIDE DEF S
<1>5. IsFiniteSet({f[x] : x \in S})
  BY <1>2, ImageFinite
<1> QED
  BY <1>3, <1>4, <1>5 DEF Comment

(* The creators of a team's tasks of the last month, and those that the    *)
(* ranking puts before u or on u's own place.                              *)
Creators(ts, g) == {t.creator : t \in {x \in ts : x.month /\ x.team = g}}

Ahead(ts, g, u) ==
    {v \in Creators(ts, g) : \/ Created(ts, g, v) > Created(ts, g, u)
                             \/ Created(ts, g, v) = Created(ts, g, u) /\ v <= u}

LEMMA CreatedIsNat ==
    ASSUME NEW ts \in SUBSET Task, IsFiniteSet(ts), NEW g, NEW u
    PROVE  /\ Created(ts, g, u) \in Nat
           /\ u \in Creators(ts, g) => Created(ts, g, u) > 0
<1> DEFINE S == {t \in ts : t.month /\ t.team = g /\ t.creator = u}
<1>1. S \in SUBSET ts
  OBVIOUS
<1>2. IsFiniteSet(S) /\ Cardinality(S) \in Nat
  BY <1>1, FS_Subset, FS_CardinalityType
<1>3. ASSUME u \in Creators(ts, g) PROVE S # {}
  BY <1>3 DEF Creators
<1>4. S # {} => Cardinality(S) > 0
  BY <1>2, FS_EmptySet
<1>5. Created(ts, g, u) = Cardinality(S)
  BY DEF Created
<1> QED
  BY <1>2, <1>3, <1>4, <1>5

LEMMA CreatorsFinite ==
    ASSUME NEW ts \in SUBSET Task, IsFiniteSet(ts), NEW g
    PROVE  Creators(ts, g) \in SUBSET Ids /\ IsFiniteSet(Creators(ts, g))
<1> DEFINE S == {x \in ts : x.month /\ x.team = g}
           f == [x \in S |-> x.creator]
<1>1. S \in SUBSET ts
  OBVIOUS
<1>2. IsFiniteSet(S) /\ S \in SUBSET Task
  BY <1>1, FS_Subset
<1>3. Creators(ts, g) = {f[x] : x \in S}
  BY DEF Creators
<1> HIDE DEF S
<1>4. IsFiniteSet({f[x] : x \in S})
  BY <1>2, ImageFinite
<1> QED
  BY <1>2, <1>3, <1>4 DEF Task

LEMMA RankIsAhead ==
    ASSUME NEW ts \in SUBSET Task, IsFiniteSet(ts), NEW g, NEW u
    PROVE  /\ Rank(ts, g, u) = Cardinality(Ahead(ts, g, u))
           /\ IsFiniteSet(Ahead(ts, g, u)) /\ Rank(ts, g, u) \in Nat
<1>1. Rank(ts, g, u) = Cardinality(Ahead(ts, g, u))
  BY DEF Rank, Ahead, Creators
<1>2. Ahead(ts, g, u) \in SUBSET Creators(ts, g)
  BY DEF Ahead
<1> QED
  BY <1>1, <1>2, CreatorsFinite, FS_Subset, FS_CardinalityType

(* A team with a creator has a first one.                                  *)
LEMMA SomeoneIsFirst ==
    ASSUME NEW ts \in SUBSET Task, IsFiniteSet(ts), NEW g, Creators(ts, g) # {}
    PROVE  \E u \in Creators(ts, g) : Rank(ts, g, u) = 1
<1> DEFINE C == Creators(ts, g)
           f == [u \in C |-> Rank(ts, g, u)]
<1>1. f \in [C -> Nat]
  BY RankIsAhead
<1>2. PICK u \in C : \A v \in C : f[u] <= f[v]
  BY <1>1, LeastMeasure
<1>3. \A v \in C : v \in Nat /\ Created(ts, g, v) \in Nat
  BY CreatorsFinite, CreatedIsNat DEF Ids
<1>4. u \in Ahead(ts, g, u)
  BY <1>3 DEF Ahead
<1>5. ASSUME NEW v \in Ahead(ts, g, u), v # u
      PROVE  FALSE
  <2>1. v \in C /\ u \in C
    BY <1>5 DEF Ahead
  <2>2. Ahead(ts, g, v) \in SUBSET Ahead(ts, g, u)
    <3> SUFFICES ASSUME NEW w \in Ahead(ts, g, v)
                 PROVE  w \in Ahead(ts, g, u)
      OBVIOUS
    <3>1. w \in C
      BY DEF Ahead
    <3> QED
      BY <3>1, <2>1, <1>3 DEF Ahead
  <2>3. u \notin Ahead(ts, g, v)
    BY <2>1, <1>3, <1>5 DEF Ahead
  <2>4. Cardinality(Ahead(ts, g, v)) < Cardinality(Ahead(ts, g, u))
    BY <2>2, <2>3, <1>4, RankIsAhead, FS_Subset
  <2>5. Rank(ts, g, v) < Rank(ts, g, u)
    BY <2>4, RankIsAhead
  <2> QED
    BY <2>1, <2>5, <1>2, RankIsAhead
<1>6. Ahead(ts, g, u) = {u}
  BY <1>4, <1>5
<1>7. Rank(ts, g, u) = 1
  BY <1>6, RankIsAhead, FS_Singleton
<1> QED
  BY <1>7

(* So no team of a page of the creators' report is without a row.          *)
LEMMA EveryTeamHasARow ==
    ASSUME NEW d, IsDatabase(d), NEW gs \in SUBSET CreatorKeys(d)
    PROVE  {r.team : r \in Ranked(d.tasks, gs)} = gs
<1> DEFINE ts == d.tasks
<1>1. ts \in SUBSET Task /\ IsFiniteSet(ts)
  BY DEF IsDatabase, Tables
<1>2. ASSUME NEW g \in gs
      PROVE  \E r \in Ranked(ts, gs) : r.team = g
  <2>1. Creators(ts, g) # {}
    BY DEF CreatorKeys, Creators
  <2>2. PICK u \in Creators(ts, g) : Rank(ts, g, u) = 1
    BY <1>1, <2>1, SomeoneIsFirst
  <2>3. Created(ts, g, u) > 0
    BY <1>1, CreatedIsNat
  <2>4. u \in {t.creator : t \in ts}
    BY DEF Creators
  <2> DEFINE r == [team |-> g, user |-> u, rank |-> 1]
  <2>5. r \in [team: gs, user: {t.creator : t \in ts}, rank: 1 .. 3]
    BY <2>4
  <2>6. r \in Ranked(ts, gs)
    BY <2>2, <2>3, <2>5 DEF Ranked
  <2> QED
    BY <2>6
<1>3. \A r \in Ranked(ts, gs) : r.team \in gs
  BY DEF Ranked
<1> QED
  BY <1>2, <1>3

(* Whatever is read, its answer is a page over its keys.                   *)
LEMMA ReadIsAPage ==
    ASSUME NEW d, IsDatabase(d), NEW read \in Read, NEW after \in Nat
    PROVE  LET I == KeysOf(read, d)
               p == PageOf(read, d, after)
           IN  /\ I \in SUBSET Ids /\ IsFiniteSet(I)
               /\ p.keys = Page(I, after, Limit)
               /\ p.next = NextCursor(p.keys, Limit)
<1>1. CASE read.what = "tasks"
  BY <1>1, TaskKeysFinite DEF KeysOf, PageOf, TaskList
<1>2. CASE read.what = "comments"
  BY <1>2, CommentKeysFinite DEF KeysOf, PageOf, CommentList
<1>3. CASE read.what = "stats"
  BY <1>3 DEF KeysOf, PageOf, TeamStats, IsDatabase, Tables
<1>4. CASE read.what = "creators"
  <2> DEFINE ids == Page(CreatorKeys(d), after, Limit)
  <2>1. CreatorKeys(d) \in SUBSET Ids /\ IsFiniteSet(CreatorKeys(d))
    BY CreatorKeysFinite
  <2>2. ids \in SUBSET CreatorKeys(d)
    BY DEF Page
  <2>3. {r.team : r \in Ranked(d.tasks, ids)} = ids
    BY <2>2, EveryTeamHasARow
  <2>4. KeysOf(read, d) = CreatorKeys(d) /\ PageOf(read, d, after) = TopCreators(d, after, Limit)
    BY <1>4 DEF KeysOf, PageOf
  <2>5. TopCreators(d, after, Limit).keys = ids
    BY <2>3 DEF TopCreators
  <2>6. TopCreators(d, after, Limit).next = NextCursor(ids, Limit)
    BY <2>3 DEF TopCreators
  <2> QED
    BY <2>1, <2>4, <2>5, <2>6
<1>5. CASE read.what = "orphans"
  BY <1>5, OrphanKeysFinite DEF KeysOf, PageOf, OrphanAssignees
<1> QED
  BY <1>1, <1>2, <1>3, <1>4, <1>5 DEF Read

-----------------------------------------------------------------------------
(* The walk.                                                               *)

LEMMA ReadsInitInv ==
    ReadsInit => ReadsInv
<1> SUFFICES ASSUME ReadsInit PROVE ReadsInv
  OBVIOUS
<1>1. NoWalk \in Walk
  BY DEF NoWalk, Walk
<1> QED
  BY <1>1, ReadsAssumption DEF ReadsInit, ReadsInv, NoWalk

(* The walk that a request of u goes on with, or begins.                   *)
LEMMA ReadingSeparates ==
    ASSUME ReadsInv, NEW u \in Readers, NEW read \in Reads,
           Reading(u, read).read = read
    PROVE  LET w == Reading(u, read)
           IN  w \in Walk /\ w.again = {} /\ w.got \subseteq w.ever /\ Separated(w)
<1>1. read \in Read /\ u \in Nat /\ read # NoRead
  BY ReadsAssumption DEF Ids, Read, NoRead
<1>2. CASE walk.read # NoRead /\ ~walk.done
  BY <1>2 DEF ReadsInv, Reading
<1>3. CASE ~(walk.read # NoRead /\ ~walk.done)
  <2> DEFINE K == KeysOf(read, db)
  <2>1. K \in SUBSET Ids
    BY <1>1, ReadIsAPage DEF ReadsInv
  <2> HIDE DEF K
  <2>2. Reading(u, read) = [user |-> u, read |-> read, cursor |-> 0, got |-> {}, again |-> {},
                            always |-> K, ever |-> K, done |-> FALSE]
    BY <1>3 DEF Reading, NoWalk, K
  <2>3. Reading(u, read) \in Walk
    BY <2>1, <2>2, <1>1 DEF Walk
  <2>4. \A i \in K : ~(i <= 0)
    BY <2>1 DEF Ids
  <2>5. Separated(Reading(u, read))
    BY <2>2, <2>4 DEF Separated, K
  <2> QED
    BY <2>2, <2>3, <2>5
<1> QED
  BY <1>2, <1>3

LEMMA GetKeepsReadsInv ==
    ASSUME ReadsInv, NEW u \in Readers, NEW read \in Reads, Get(u, read)
    PROVE  ReadsInv'
<1> DEFINE w == Reading(u, read)
           p == PageOf(read, db, w.cursor)
           K == KeysOf(read, db)
<1>1. read \in Read /\ read # NoRead /\ Limit \in Nat \ {0}
  BY ReadsAssumption DEF Read, NoRead
<1>2. w.read = read
  BY DEF Get
<1>3. w \in Walk /\ w.again = {} /\ w.got \subseteq w.ever /\ Separated(w)
  BY <1>2, ReadingSeparates
<1>4. w.cursor \in Nat /\ w.got \in SUBSET Ids /\ w.always \in SUBSET Ids
  BY <1>3 DEF Walk
<1>5. /\ K \in SUBSET Ids /\ IsFiniteSet(K)
      /\ p.keys = Page(K, w.cursor, Limit)
      /\ p.next = NextCursor(p.keys, Limit)
  BY <1>1, <1>4, ReadIsAPage DEF ReadsInv
<1>6. walk' = [w EXCEPT !.cursor = p.next, !.done = (p.next = 0),
                        !.got = w.got \cup p.keys, !.again = w.again \cup (w.got \cap p.keys)]
  BY DEF Get
<1>7. db' = db /\ changes' = changes
  BY DEF Get
<1>8. /\ w.always \subseteq K /\ K \subseteq w.ever
      /\ \A i \in w.got : i <= w.cursor
      /\ \A i \in w.always : i <= w.cursor => i \in w.got
  BY <1>2, <1>3 DEF Separated
<1> HIDE DEF w, p, K
<1>9. /\ p.keys \in SUBSET K /\ \A i \in p.keys : w.cursor < i
      /\ p.next \in Nat
      /\ p.next = 0 => \A i \in K : w.cursor < i => i \in p.keys
      /\ p.next # 0 => /\ w.cursor < p.next
                       /\ \A i \in p.keys : i <= p.next
                       /\ \A i \in K : w.cursor < i /\ i <= p.next => i \in p.keys
  BY <1>1, <1>4, <1>5, PageAndCursor
<1>10. w.got \cap p.keys = {}
  BY <1>4, <1>5, <1>8, <1>9 DEF Ids
<1>11. /\ walk'.user = w.user /\ walk'.read = w.read /\ walk'.cursor = p.next
       /\ walk'.got = w.got \cup p.keys /\ walk'.again = {}
       /\ walk'.always = w.always /\ walk'.ever = w.ever /\ walk'.done = (p.next = 0)
  BY <1>3, <1>6, <1>10 DEF Walk
<1>12. walk' \in Walk
  <2>1. w.got \cup p.keys \in SUBSET Ids
    BY <1>4, <1>5, <1>9
  <2>2. w.again \cup (w.got \cap p.keys) \in SUBSET Ids
    BY <1>3, <1>10 
  <2>3. (p.next = 0) \in BOOLEAN
    OBVIOUS
  <2> HIDE DEF Ids
  <2> QED
    BY <1>3, <1>6, <1>9, <2>1, <2>2, <2>3 DEF Walk
<1>13. walk'.got \subseteq walk'.ever
  BY <1>3, <1>8, <1>9, <1>11
<1>14. ASSUME p.next = 0
       PROVE  w.always \subseteq w.got \cup p.keys
  BY <1>14, <1>4, <1>8, <1>9 DEF Ids
<1>15. ASSUME p.next # 0
       PROVE  /\ \A i \in w.got \cup p.keys : i <= p.next
              /\ \A i \in w.always : i <= p.next => i \in w.got \cup p.keys
  <2>1. \A i \in w.got : i \in Nat /\ i <= p.next
    BY <1>15, <1>4, <1>8, <1>9 DEF Ids
  <2>2. \A i \in w.always : i <= p.next => i \in w.got \cup p.keys
    BY <1>15, <1>4, <1>8, <1>9 DEF Ids
  <2> QED
    BY <1>15, <2>1, <2>2, <1>9
<1>16. walk'.read # NoRead
  BY <1>1, <1>2, <1>11
<1>17. walk'.done => walk'.always \subseteq walk'.got
  BY <1>11, <1>14
<1>18. ~walk'.done => Separated(walk)'
  <2> SUFFICES ASSUME ~walk'.done
               PROVE  Separated(walk)'
    OBVIOUS
  <2>1. p.next # 0
    BY <1>11
  <2>2. KeysOf(walk.read, db)' = K
    BY <1>2, <1>7, <1>11 DEF K
  <2> QED
    BY <1>8, <1>11, <1>15, <2>1, <2>2 DEF Separated
<1> QED
  BY <1>7, <1>11, <1>12, <1>13, <1>16, <1>17, <1>18 DEF ReadsInv

LEMMA ChangeKeepsReadsInv ==
    ASSUME ReadsInv, Change
    PROVE  ReadsInv'
<1>1. IsDatabase(db') /\ changes' \in 0 .. MaxChanges
  BY ReadsAssumption DEF Change, ReadsInv
<1>2. CASE walk.read = NoRead \/ walk.done
  <2>1. walk' = walk
    BY <1>2 DEF Change
  <2> QED
    BY <1>1, <1>2, <2>1 DEF ReadsInv
<1>3. CASE ~(walk.read = NoRead \/ walk.done)
  <2> DEFINE K == KeysOf(walk.read, db')
  <2>1. walk.read \in Read
    BY <1>3, ReadsAssumption DEF ReadsInv, Walk
  <2>2. K \in SUBSET Ids
    BY <1>1, <2>1, ReadIsAPage
  <2>3. walk' = [walk EXCEPT !.always = walk.always \cap K, !.ever = walk.ever \cup K]
    BY <1>3 DEF Change
  <2>4. walk \in Walk /\ Separated(walk)
    BY <1>3 DEF ReadsInv
  <2> HIDE DEF K
  <2>5. /\ walk'.read = walk.read /\ walk'.cursor = walk.cursor /\ walk'.done = walk.done
        /\ walk'.got = walk.got /\ walk'.again = walk.again
        /\ walk'.always = walk.always \cap K /\ walk'.ever = walk.ever \cup K
    BY <2>3, <2>4 DEF Walk
  <2>6. walk' \in Walk
    BY <2>2, <2>3, <2>4 DEF Walk
  <2>7. Separated(walk)'
    BY <2>4, <2>5 DEF Separated, K
  <2> QED
    BY <1>1, <1>3, <2>5, <2>6, <2>7 DEF ReadsInv
<1> QED
  BY <1>2, <1>3

(* The invariant of the paged reads.                                       *)
THEOREM ReadsInvariant == ReadsSpec => []ReadsInv
<1>1. ReadsInv /\ [ReadsNext]_readsVars => ReadsInv'
  <2> SUFFICES ASSUME ReadsInv, [ReadsNext]_readsVars
               PROVE  ReadsInv'
    OBVIOUS
  <2>1. ASSUME NEW u \in Readers, NEW read \in Reads, Get(u, read)
        PROVE  ReadsInv'
    BY <2>1, GetKeepsReadsInv
  <2>2. CASE Change
    BY <2>2, ChangeKeepsReadsInv
  <2>3. CASE UNCHANGED readsVars
    BY <2>3 DEF readsVars, ReadsInv, Separated
  <2> QED
    BY <2>1, <2>2, <2>3 DEF ReadsNext
<1> QED
  BY <1>1, ReadsInitInv, PTL DEF ReadsSpec

(* Reading a list or a report page by page shows every row that belonged   *)
(* to it throughout, once, whatever else is committed between the pages    *)
(* (the queries' WHERE id > ? and the handlers' next_cursor).              *)
THEOREM WalksAreComplete == ReadsSpec => []WalkComplete
<1>1. ReadsInv => WalkComplete
  BY DEF ReadsInv, WalkComplete
<1> QED
  BY <1>1, ReadsInvariant, PTL

-----------------------------------------------------------------------------
(* The rate limiter: arithmetic.                                           *)

LEMMA Numbers ==
    /\ Requests \in Nat /\ Requests >= 1 /\ Window \in Nat /\ Window > 0
    /\ TTL \in Nat /\ TTL > 0 /\ Second \in Nat /\ Second > 0
    /\ MaxTime \in Nat /\ MaxOutages \in Nat
BY AdmissionAssumption DEF ValidConfig

LEMMA Interval ==
    T \in Nat /\ T * Requests = Window
<1>1. Window % Requests = 0
  BY AdmissionAssumption
<1> QED
  BY <1>1, Numbers DEF T

(* One more interval.                                                      *)
LEMMA OneMoreT ==
    ASSUME NEW a \in Int
    PROVE  a * T \in Int /\ (a + 1) * T = a * T + T
BY Interval

LEMMA MoreT ==
    ASSUME NEW a \in Int, NEW b \in Int, a <= b
    PROVE  a * T <= b * T
BY Interval

(* Cutting to whole seconds loses less than a second.                      *)
LEMMA WholeSeconds ==
    ASSUME NEW x \in Nat
    PROVE  /\ x \div Second \in Nat
           /\ Second * (x \div Second) \in Nat
           /\ Second * (x \div Second) <= x
           /\ x < Second * (x \div Second) + Second
           /\ Second * (x \div Second + 1) = Second * (x \div Second) + Second
BY Numbers

LEMMA MaxOfTwo ==
    ASSUME NEW a \in Int, NEW b \in Int
    PROVE  Max({a, b}) = IF a >= b THEN a ELSE b
<1>1. CASE a >= b
  BY <1>1 DEF Max
<1>2. CASE ~(a >= b)
  BY <1>2 DEF Max
<1> QED
  BY <1>1, <1>2

(* The history after one more request: it ends with that request, and the  *)
(* others have kept their distance from the end.                           *)
LEMMA LatestHistory ==
    ASSUME NEW s \in Seq(Nat), Len(s) <= 2 * Requests, NEW x \in Nat
    PROVE  LET q == Latest(Append(s, x))
               n == Len(s)
               c == IF n = 2 * Requests THEN 1 ELSE 0
           IN  /\ q \in Seq(Nat) /\ Len(q) = n + 1 - c
               /\ q[Len(q)] = x
               /\ \A i \in 1 .. Len(q) - 1 : i + c \in 1 .. n /\ q[i] = s[i + c]
<1> DEFINE a == Append(s, x)
           n == Len(s)
<1>1. a \in Seq(Nat) /\ Len(a) = n + 1 /\ n \in Nat /\ 2 * Requests \in Nat
  BY Numbers
<1>2. a[n + 1] = x /\ \A i \in 1 .. n : a[i] = s[i]
  OBVIOUS
<1>3. CASE n = 2 * Requests
  <2>1. Latest(a) = Tail(a)
    BY <1>1, <1>3 DEF Latest
  <2> HIDE DEF a
  <2>2. a # << >>
    BY <1>1
  <2>3. Tail(a) \in Seq(Nat) /\ Len(Tail(a)) = n
    BY <1>1, <2>2
  <2>4. \A i \in 1 .. n : Tail(a)[i] = a[i + 1]
    BY <1>1, <2>2, <2>3
  <2>5. n >= 1
    BY <1>3, Numbers
  <2>6. Tail(a)[n] = x
    BY <2>4, <2>5, <1>1, <1>2
  <2>7. \A i \in 1 .. n - 1 : i + 1 \in 1 .. n /\ Tail(a)[i] = s[i + 1]
    BY <2>4, <1>1, <1>2
  <2>8. n = n + 1 - 1
    BY <1>1
  <2> QED
    BY <1>3, <2>1, <2>3, <2>6, <2>7, <2>8 DEF a
<1>4. CASE n # 2 * Requests
  <2>1. Latest(a) = a
    BY <1>1, <1>4 DEF Latest
  <2> QED
    BY <1>1, <1>2, <1>4, <2>1
<1> QED
  BY <1>3, <1>4

(* A request is counted: what becomes of the entry.                        *)
LEMMA CountedEntry ==
    ASSUME AdmissionTypeOK, NEW k \in Clients, redis, ~Refuses(k)
    PROVE  /\ NewTat(k) \in Nat
           /\ NewTat(k) = (IF tat[k] >= now THEN tat[k] ELSE now) + T
           /\ NewTat(k) <= now + Window
<1>1. tat[k] \in Nat /\ now \in Nat
  BY Numbers DEF AdmissionTypeOK
<1>2. Max({tat[k], now}) = IF tat[k] >= now THEN tat[k] ELSE now
  BY <1>1, MaxOfTwo
<1>3. NewTat(k) \in Nat /\ NewTat(k) = (IF tat[k] >= now THEN tat[k] ELSE now) + T
  BY <1>1, <1>2, Interval DEF NewTat
<1>4. ~(now < NewTat(k) - Window)
  BY Interval DEF Refuses, AllowAt
<1> QED
  BY <1>1, <1>3, <1>4, Numbers

LEMMA EntryBounds ==
    ASSUME NEW s \in Nat, NEW l \in Nat, NEW w \in Nat, NEW a \in Nat, NEW x \in Nat,
           NEW t \in Nat, NEW k \in Nat, s <= x, l <= x, t >= s + a + k,
           t <= s + w + a \/ t <= l + a
    PROVE  LET u == (IF t >= x THEN t ELSE x) + k
           IN  /\ u >= s + a + k + k
               /\ u <= s + w + a + k \/ u <= x + a + k
OBVIOUS

LEMMA CountedKeepsBucket ==
    ASSUME AdmissionInv, redis, ~Refuses(watched),
           tat' = [tat EXCEPT ![watched] = NewTat(watched)],
           served' = Latest(Append(served, now)),
           now' = now, watched' = watched
    PROVE  Bucket' /\ served' \in Seq(Nat) /\ Len(served') <= 2 * Requests
<1> DEFINE n == Len(served)
           t == tat[watched]
           m == Len(served')
           u == tat'[watched]
           c == IF n = 2 * Requests THEN 1 ELSE 0
<1>1. /\ served \in Seq(Nat) /\ n \in Nat /\ n <= 2 * Requests /\ now \in Nat /\ t \in Nat
      /\ watched \in Clients /\ tat \in [Clients -> Nat]
  BY DEF AdmissionInv, AdmissionTypeOK
<1>2. /\ served' \in Seq(Nat) /\ m = n + 1 - c
      /\ served'[m] = now
      /\ \A i \in 1 .. m - 1 : i + c \in 1 .. n /\ served'[i] = served[i + c]
  BY <1>1, LatestHistory
<1>3. u = (IF t >= now THEN t ELSE now) + T /\ u \in Nat /\ u <= now + Window
  BY <1>1, CountedEntry DEF AdmissionInv
<1>4. /\ \A i \in 1 .. n : served[i] <= now /\ t >= served[i] + (n - i + 1) * T
      /\ n = 0 => t = 0
      /\ n > 0 => t <= served[n] + Window
      /\ n > 0 /\ n < 2 * Requests => t <= served[n] + n * T
      /\ \A i \in 1 .. n : \/ t <= served[i] + Window + (n - i) * T
                           \/ t <= served[n] + (n - i) * T
  BY DEF AdmissionInv, Bucket
<1>5. m \in 1 .. 2 * Requests
  BY <1>1, <1>2, Numbers, SMTT(30)
<1>6. \A i \in 1 .. n : served[i] \in Nat
  BY <1>1
<1> HIDE DEF n, t, m, u, c
<1>7. T \in Nat /\ Window \in Nat /\ Requests \in Nat /\ Requests >= 1
  BY Interval, Numbers
<1>8. n > 0 => served[n] <= now /\ served[n] \in Nat
  BY <1>1, <1>4, <1>6
<1>9. c \in {0, 1} /\ (m < 2 * Requests => c = 0)
  BY <1>1, <1>2, <1>7 DEF c
<1>10. ASSUME NEW i \in 1 .. m - 1
       PROVE  /\ served'[i] <= now
              /\ u >= served'[i] + (m - i + 1) * T
              /\ \/ u <= served'[i] + Window + (m - i) * T
                 \/ u <= served'[m] + (m - i) * T
  <2> DEFINE j == i + c
             a == (n - j) * T
  <2>1. j \in 1 .. n /\ served'[i] = served[j] /\ served[j] \in Nat /\ n - j \in Nat
    <3>1. j \in 1 .. n /\ served'[i] = served[j]
      BY <1>2, <1>10
    <3> HIDE DEF j
    <3> QED
      BY <3>1, <1>1, <1>6
  <2>2. m - i = (n - j) + 1 /\ m - i + 1 = (n - j + 1) + 1
    BY <1>1, <1>2, <1>5, <1>9
  <2>3. a \in Int /\ a >= 0
    BY <2>1, OneMoreT, MoreT, <1>7
  <2>4. (n - j + 1) * T = a + T /\ (m - i) * T = a + T /\ (m - i + 1) * T = a + T + T
    <3>1. (n - j + 1) * T = (n - j) * T + T
      BY <2>1, OneMoreT
    <3>2. ((n - j + 1) + 1) * T = (n - j + 1) * T + T
      BY <2>1, OneMoreT
    <3> QED
      BY <2>2, <3>1, <3>2
  <2>5. /\ served[j] <= now /\ t >= served[j] + (n - j + 1) * T
        /\ \/ t <= served[j] + Window + (n - j) * T
           \/ t <= served[n] + (n - j) * T
    BY <2>1, <1>4
  <2>6. served[n] <= now /\ served[n] \in Nat
    BY <2>1, <1>1, <1>8
  <2> HIDE DEF j, a
  <2>7. a \in Nat
    BY <2>3
  <2>8. /\ u >= served[j] + a + T + T
        /\ u <= served[j] + Window + a + T \/ u <= now + a + T
    <3>1. t >= served[j] + a + T
      BY <2>4, <2>5, <2>1, <2>7, <1>7
    <3>2. t <= served[j] + Window + a \/ t <= served[n] + a
      BY <2>5 DEF a
    <3> QED
      <4>1. /\ served[j] \in Nat /\ served[n] \in Nat /\ now \in Nat /\ t \in Nat
            /\ served[j] <= now /\ served[n] <= now
        BY <2>1, <2>5, <2>6, <1>1
      <4>2. u = (IF t >= now THEN t ELSE now) + T
        BY <1>3
      <4> QED
        BY <3>1, <3>2, <4>1, <4>2, <2>7, <1>7, EntryBounds
  <2>9. served'[i] + (m - i + 1) * T = served[j] + a + T + T
    BY <2>1, <2>3, <2>4, <1>7
  <2>10. /\ served'[i] + Window + (m - i) * T = served[j] + Window + a + T
         /\ served'[m] + (m - i) * T = now + a + T
    <3>1. (m - i) * T = a + T
      BY <2>4
    <3>2. served'[i] = served[j] /\ served'[m] = now /\ served[j] \in Nat /\ now \in Nat
      BY <2>1, <1>1, <1>2
    <3> QED
      BY <3>1, <3>2, <2>7, <1>7
  <2> QED
    BY <2>1, <2>5, <2>8, <2>9, <2>10
<1>11. /\ served'[m] <= now
       /\ u >= served'[m] + (m - m + 1) * T
       /\ u <= served'[m] + Window + (m - m) * T
  <2>1. (m - m + 1) * T = T /\ (m - m) * T = 0
    BY <1>5, <1>7
  <2>2. u >= now + T /\ u <= now + Window + 0
    BY <1>1, <1>3, <1>7
  <2> QED
    BY <2>1, <2>2, <1>1, <1>2
<1>12. m < 2 * Requests => u <= served'[m] + m * T
  <2> SUFFICES ASSUME m < 2 * Requests
               PROVE  u <= served'[m] + m * T
    OBVIOUS
  <2>1. m = n + 1 /\ n < 2 * Requests
    BY <1>1, <1>2, <1>7, <1>9, SMTT(30)
  <2>2. m * T = n * T + T /\ n * T \in Int
    BY <2>1, <1>1, OneMoreT
  <2>3. n * T >= 0
    BY <1>1, <1>7, MoreT
  <2>4. t <= now + n * T
    BY <2>1, <2>2, <2>3, <1>1, <1>4, <1>8, SMTT(30)
  <2> HIDE DEF n
  <2> QED
    BY <2>2, <2>3, <2>4, <1>1, <1>2, <1>3, <1>7
<1>13. \A i \in 1 .. m : i \in 1 .. m - 1 \/ i = m
  BY <1>5
<1>14. /\ \A i \in 1 .. m : served'[i] <= now /\ u >= served'[i] + (m - i + 1) * T
       /\ \A i \in 1 .. m : \/ u <= served'[i] + Window + (m - i) * T
                            \/ u <= served'[m] + (m - i) * T
  BY <1>10, <1>11, <1>13
<1>15. m > 0 /\ u <= served'[m] + Window
  BY <1>2, <1>3, <1>5
<1>16. Bucket'
  BY <1>12, <1>14, <1>15, <1>5 DEF Bucket, m, u
<1> QED
  BY <1>2, <1>5, <1>16 DEF m

-----------------------------------------------------------------------------
(* Admission: the steps.                                                   *)

(* What a step of the limiter has to keep.                                 *)
LimiterOK ==
    /\ tat \in [Clients -> Nat]
    /\ served \in Seq(Nat) /\ Len(served) <= 2 * Requests
    /\ promise \in Nat
    /\ Bucket
    /\ Promised

LEMMA CountedKeepsLimiter ==
    ASSUME AdmissionInv, NEW k \in Clients, redis, ~Refuses(k), Counted(k, k),
           now' = now, watched' = watched
    PROVE  LimiterOK'
<1>1. /\ tat \in [Clients -> Nat] /\ served \in Seq(Nat) /\ Len(served) <= 2 * Requests
      /\ promise \in Nat /\ Bucket /\ Promised /\ watched \in Clients
  BY DEF AdmissionInv, AdmissionTypeOK
<1>2. tat' = [tat EXCEPT ![k] = NewTat(k)]
  BY DEF Counted
<1>3. NewTat(k) \in Nat
  BY CountedEntry DEF AdmissionInv
<1>4. tat' \in [Clients -> Nat]
  BY <1>1, <1>2, <1>3
<1>5. CASE k = watched
  <2>1. served' = Latest(Append(served, now)) /\ promise' = 0
    BY <1>5 DEF Counted
  <2>2. Bucket' /\ served' \in Seq(Nat) /\ Len(served') <= 2 * Requests
    BY <1>2, <1>5, <2>1, CountedKeepsBucket
  <2> QED
    BY <1>4, <2>1, <2>2 DEF LimiterOK, Promised
<1>6. CASE k # watched
  <2>1. served' = served /\ promise' = promise
    BY <1>6 DEF Counted
  <2>2. tat'[watched] = tat[watched]
    BY <1>1, <1>2, <1>6
  <2> QED
    BY <1>1, <1>4, <2>1, <2>2 DEF LimiterOK, Promised, Bucket
<1> QED
  BY <1>5, <1>6

(* Counted, counted with its reply lost, or not counted at all.            *)
LEMMA AllowedKeepsLimiter ==
    ASSUME AdmissionInv, NEW k \in Clients, Allowed(k, k), now' = now, watched' = watched
    PROVE  LimiterOK' /\ outages' \in 0 .. MaxOutages
<1>1. /\ tat \in [Clients -> Nat] /\ served \in Seq(Nat) /\ Len(served) <= 2 * Requests
      /\ promise \in Nat /\ Bucket /\ Promised /\ outages \in 0 .. MaxOutages
  BY DEF AdmissionInv, AdmissionTypeOK
<1>2. ASSUME redis, ~Refuses(k), Counted(k, k) PROVE LimiterOK'
  BY <1>2, CountedKeepsLimiter
<1>3. ASSUME UNCHANGED limiter PROVE LimiterOK'
  BY <1>1, <1>3 DEF limiter, LimiterOK, Promised, Bucket
<1>4. LimiterOK'
  BY <1>2, <1>3 DEF Allowed, ReplyLost, limiter
<1>5. outages' = outages \/ (outages < MaxOutages /\ outages' = outages + 1)
  BY DEF Allowed, ReplyLost
<1>6. outages' \in 0 .. MaxOutages
  BY <1>1, <1>5, Numbers
<1> QED
  BY <1>4, <1>6

(* Retry-After, counted from now, is later than the entry allows.          *)
LEMMA RetryIsLate ==
    ASSUME AdmissionTypeOK, NEW k \in Clients, Refuses(k)
    PROVE  now + RetryAfter(k) \in Nat /\ now + RetryAfter(k) > tat[k] + T - Window
<1>1. tat[k] \in Nat /\ now \in Nat /\ T \in Nat /\ Window \in Nat /\ T * Requests = Window
  BY Interval, Numbers DEF AdmissionTypeOK
<1>2. AllowAt(k) = (IF tat[k] >= now THEN tat[k] ELSE now) + T - Window
  BY <1>1, MaxOfTwo DEF AllowAt, NewTat
<1>3. now < AllowAt(k)
  BY DEF Refuses
<1> DEFINE x == AllowAt(k) - now
<1>4. x \in Nat /\ AllowAt(k) \in Int
  BY <1>1, <1>2, <1>3
<1>5. AllowAt(k) >= tat[k] + T - Window
  BY <1>1, <1>2
<1>6. RetryAfter(k) = Second * (x \div Second + 1)
  BY DEF RetryAfter
<1> HIDE DEF x
<1>7. RetryAfter(k) \in Nat /\ x < RetryAfter(k)
  BY <1>4, <1>6, WholeSeconds, Numbers
<1>8. now + RetryAfter(k) > AllowAt(k)
  BY <1>1, <1>4, <1>7 DEF x
<1> QED
  BY <1>1, <1>4, <1>5, <1>7, <1>8

LEMMA LimitedKeepsLimiter ==
    ASSUME AdmissionInv, NEW k \in Clients, Limited(k, k), now' = now, watched' = watched
    PROVE  LimiterOK'
<1>1. /\ tat \in [Clients -> Nat] /\ served \in Seq(Nat) /\ Len(served) <= 2 * Requests
      /\ promise \in Nat /\ Bucket /\ Promised
  BY DEF AdmissionInv, AdmissionTypeOK
<1>2. tat' = tat /\ served' = served /\ Refuses(k)
  BY DEF Limited
<1>3. Bucket'
  BY <1>1, <1>2 DEF Bucket
<1>4. promise' \in Nat /\ Promised'
  <2>1. CASE k = watched /\ promise = 0
    <3>1. promise' = now + RetryAfter(k)
      BY <2>1 DEF Limited
    <3> QED
      BY <1>2, <2>1, <3>1, RetryIsLate DEF Promised, AdmissionInv
  <2>2. CASE ~(k = watched /\ promise = 0)
    BY <1>1, <1>2, <2>2 DEF Limited, Promised
  <2> QED
    BY <2>1, <2>2
<1> QED
  BY <1>1, <1>2, <1>3, <1>4 DEF LimiterOK

(* A token keeps to its lifetime from the beginning.                       *)
LEMMA IssueKeepsIssued ==
    ASSUME AdmissionInv, NEW u \in Users,
           token' = token \/ token' = [token EXCEPT ![u] = Issue]
    PROVE  token' \in [Users -> [issued: Nat, exp: Nat]] /\ Issued'
<1>1. token \in [Users -> [issued: Nat, exp: Nat]] /\ Issued /\ now \in Nat
  BY DEF AdmissionInv, AdmissionTypeOK
<1>2. CASE token' = token
  BY <1>1, <1>2 DEF Issued
<1>3. CASE token' = [token EXCEPT ![u] = Issue]
  <2> DEFINE e == Second * ((now + TTL) \div Second)
  <2>1. now + TTL \in Nat
    BY <1>1, Numbers
  <2>2. e \in Nat /\ e <= now + TTL /\ now + TTL < e + Second
    BY <2>1, WholeSeconds
  <2>3. Issue = [issued |-> now, exp |-> e]
    BY DEF Issue
  <2> HIDE DEF e
  <2>4. token' \in [Users -> [issued: Nat, exp: Nat]]
    BY <1>1, <1>3, <2>2, <2>3
  <2>5. Issue.issued = now /\ Issue.exp = e
    BY <2>3
  <2>6. Issue.exp <= Issue.issued + TTL /\ Issue.exp > Issue.issued + TTL - Second
    BY <2>2, <2>5, <1>1, Numbers
  <2>7. \A v \in Users : token'[v] = Issue \/ token'[v] = token[v]
    BY <1>1, <1>3
  <2> QED
    BY <1>1, <2>4, <2>6, <2>7 DEF Issued
<1> QED
  BY <1>2, <1>3

LEMMA AdmissionInitInv ==
    AdmissionInit => AdmissionInv
<1> SUFFICES ASSUME AdmissionInit PROVE AdmissionInv
  OBVIOUS
<1>1. served = << >> /\ Len(served) = 0 /\ served \in Seq(Nat)
  BY DEF AdmissionInit
<1>2. tat[watched] = 0
  BY DEF AdmissionInit
<1>3. Bucket
  BY <1>1, <1>2 DEF Bucket
<1>4. AdmissionTypeOK
  BY <1>1, Numbers DEF AdmissionTypeOK, AdmissionInit, NoToken
<1>5. Promised /\ Issued
  BY DEF AdmissionInit, Promised, Issued
<1> QED
  BY <1>3, <1>4, <1>5 DEF AdmissionInv

LEMMA AdmissionNextInv ==
    AdmissionInv /\ [AdmissionNext]_admissionVars => AdmissionInv'
<1> SUFFICES ASSUME AdmissionInv, [AdmissionNext]_admissionVars
             PROVE  AdmissionInv'
  OBVIOUS
<1> USE DEF AdmissionInv
<1>1. /\ now \in Nat /\ now \in 0 .. MaxTime /\ redis \in BOOLEAN /\ outages \in 0 .. MaxOutages
      /\ watched \in Clients /\ token \in [Users -> [issued: Nat, exp: Nat]]
      /\ LimiterOK /\ Issued
  BY Numbers DEF AdmissionTypeOK, LimiterOK
<1>2. Users \subseteq Clients /\ Ip \in Clients
  BY DEF Clients
<1>3. ASSUME now' = now, redis' = redis, outages' \in 0 .. MaxOutages, watched' = watched,
             token' \in [Users -> [issued: Nat, exp: Nat]], Issued', LimiterOK'
      PROVE  AdmissionInv'
  BY <1>1, <1>3 DEF AdmissionTypeOK, LimiterOK
<1>4. UNCHANGED token => token' \in [Users -> [issued: Nat, exp: Nat]] /\ Issued'
  BY <1>1 DEF Issued
<1>5. ASSUME UNCHANGED limiter, UNCHANGED watched, now <= now', now' \in Nat
      PROVE  LimiterOK'
  <2>1. /\ tat' = tat /\ served' = served /\ promise' = promise
        /\ tat' \in [Clients -> Nat] /\ served' \in Seq(Nat) /\ Len(served') <= 2 * Requests
        /\ promise' \in Nat
    BY <1>1, <1>5 DEF limiter, LimiterOK
  <2>2. Promised'
    BY <1>1, <1>5, <2>1 DEF LimiterOK, Promised
  <2>3. \A i \in 1 .. Len(served) : served[i] <= now'
    <3> SUFFICES ASSUME NEW i \in 1 .. Len(served)
                 PROVE  served[i] <= now'
      OBVIOUS
    <3>1. served[i] \in Nat /\ served[i] <= now
      BY <1>1, SMTT(30) DEF LimiterOK, Bucket
    <3> QED
      BY <3>1, <1>1, <1>5
  <2>4. Bucket'
    BY <1>1, <1>5, <2>1, <2>3 DEF LimiterOK, Bucket
  <2> QED
    BY <2>1, <2>2, <2>4 DEF LimiterOK
<1>6. ASSUME NEW u \in Users, Login(u)
      PROVE  AdmissionInv'
  <2>1. UNCHANGED <<now, redis, watched>>
    BY <1>6 DEF Login
  <2>2. token' = token \/ token' = [token EXCEPT ![u] = Issue]
    BY <1>6 DEF Login
  <2>3. token' \in [Users -> [issued: Nat, exp: Nat]] /\ Issued'
    BY <2>2, IssueKeepsIssued
  <2>4. LimiterOK' /\ outages' \in 0 .. MaxOutages
    <3>1. CASE UNCHANGED <<limiter, outages>>
      BY <1>1, <1>5, <2>1, <3>1
    <3>2. CASE Allowed(Ip, Ip)
      BY <1>2, <2>1, <3>2, AllowedKeepsLimiter
    <3> QED
      BY <1>6, <3>1, <3>2 DEF Login
  <2> QED
    BY <1>3, <2>1, <2>3, <2>4
<1>7. ASSUME NEW u \in Users, LoginLimited(u)
      PROVE  AdmissionInv'
  <2>1. UNCHANGED <<now, redis, outages, token, watched>> /\ Limited(Ip, Ip)
    BY <1>7 DEF LoginLimited
  <2>2. LimiterOK'
    BY <1>2, <2>1, LimitedKeepsLimiter
  <2> QED
    BY <1>1, <1>3, <1>4, <2>1, <2>2
<1>8. ASSUME NEW u \in Users, Serve(u)
      PROVE  AdmissionInv'
  <2>1. UNCHANGED <<now, redis, token, watched>> /\ Allowed(u, u)
    BY <1>8 DEF Serve, UserKey
  <2>2. LimiterOK' /\ outages' \in 0 .. MaxOutages
    BY <1>2, <2>1, AllowedKeepsLimiter
  <2> QED
    BY <1>1, <1>3, <1>4, <2>1, <2>2
<1>9. ASSUME NEW u \in Users, RequestLimited(u)
      PROVE  AdmissionInv'
  <2>1. UNCHANGED <<now, redis, outages, token, watched>> /\ Limited(u, u)
    BY <1>9 DEF RequestLimited, UserKey
  <2>2. LimiterOK'
    BY <1>2, <2>1, LimitedKeepsLimiter
  <2> QED
    BY <1>1, <1>3, <1>4, <2>1, <2>2
<1>10. CASE Tock
  <2>1. UNCHANGED <<limiter, redis, outages, token, watched>> /\ now' = now + 1
    BY <1>10 DEF Tock
  <2>2. now' \in 0 .. MaxTime
    BY <1>1, <1>10, Numbers DEF Tock
  <2>3. LimiterOK'
    BY <1>1, <1>5, <2>1
  <2> QED
    BY <1>1, <1>4, <2>1, <2>2, <2>3 DEF AdmissionTypeOK, LimiterOK
<1>11. CASE RedisFails \/ RedisReturns
  <2>1. UNCHANGED <<now, token, watched>>
    BY <1>11 DEF RedisFails, RedisReturns
  <2>2. redis' \in BOOLEAN /\ outages' \in 0 .. MaxOutages
    <3>1. redis' \in BOOLEAN
      BY <1>11, Zenon DEF RedisFails, RedisReturns
    <3>2. outages' = outages \/ (outages < MaxOutages /\ outages' = outages + 1)
      BY <1>11, Zenon DEF RedisFails, RedisReturns
    <3> QED
      BY <3>1, <3>2, <1>1, Numbers
  <2>3. ASSUME UNCHANGED limiter PROVE LimiterOK'
    BY <1>1, <1>5, <2>1, <2>3
  <2>4. ASSUME tat' = [k \in Clients |-> 0], served' = <<>>, promise' = promise
        PROVE  LimiterOK'
    <3>1. /\ tat' \in [Clients -> Nat] /\ tat'[watched'] = 0
          /\ served' \in Seq(Nat) /\ Len(served') = 0 /\ promise' \in Nat
      BY <1>1, <2>1, <2>4 DEF LimiterOK
    <3>2. Bucket'
      BY <3>1 DEF Bucket
    <3>3. T \in Nat /\ Window \in Nat /\ T <= Window /\ Requests \in Nat
      BY Interval, Numbers
    <3>4. Promised'
      BY <3>1, <3>3 DEF Promised
    <3> QED
      BY <3>1, <3>2, <3>3, <3>4 DEF LimiterOK
  <2>5. LimiterOK'
    BY <1>11, <2>3, <2>4 DEF RedisFails, RedisReturns, limiter
  <2> QED
    BY <1>1, <1>4, <2>1, <2>2, <2>5 DEF AdmissionTypeOK, LimiterOK
<1>12. CASE UNCHANGED admissionVars
  <2>1. UNCHANGED <<limiter, now, redis, outages, token, watched>>
    BY <1>12 DEF admissionVars
  <2>2. LimiterOK'
    BY <1>1, <1>5, <2>1
  <2> QED
    BY <1>1, <1>3, <1>4, <2>1, <2>2
<1> QED
  BY <1>6, <1>7, <1>8, <1>9, <1>10, <1>11, <1>12 DEF AdmissionNext

(* The invariant of the way to a handler.                                  *)
THEOREM AdmissionInvariant == AdmissionSpec => []AdmissionInv
BY AdmissionInitInv, AdmissionNextInv, PTL DEF AdmissionSpec

(* Whatever the rate, the window and the clients: in a window a client is  *)
(* counted less than twice the rate while Redis keeps its entry            *)
(* (Limiter.Allow).                                                        *)
THEOREM RateIsBounded == AdmissionSpec => []RateBound
<1>1. AdmissionInv => RateBound
  <2> SUFFICES ASSUME AdmissionInv, Len(served) = 2 * Requests
               PROVE  served[2 * Requests] - served[1] >= Window
    BY DEF RateBound
  <2> DEFINE n == Len(served)
             t == tat[watched]
  <2>1. n >= 1 /\ n \in Nat /\ 1 \in 1 .. n /\ n \in 1 .. n
    BY Numbers
  <2>2. t \in Nat /\ served[1] \in Nat /\ served[n] \in Nat
    BY <2>1 DEF AdmissionInv, AdmissionTypeOK
  <2>3. t >= served[1] + (n - 1 + 1) * T /\ t <= served[n] + Window
    BY <2>1 DEF AdmissionInv, Bucket
  <2>4. (n - 1 + 1) * T = Window + Window
    BY Interval, Numbers
  <2> HIDE DEF n, t
  <2>5. served[n] - served[1] >= Window
    BY <2>2, <2>3, <2>4, Numbers
  <2> QED
    BY <2>5 DEF n
<1> QED
  BY <1>1, AdmissionInvariant, PTL

(* A client is refused only when it was itself counted Requests times      *)
(* within the last window, replies that were lost and retried included,    *)
(* and, until it is counted again, never once it has waited as long as     *)
(* Retry-After asked (rejectOrServe).                                      *)
THEOREM RefusalsAreHonest == AdmissionSpec => []HonestRefusal
<1>1. AdmissionInv => HonestRefusal
  <2> SUFFICES ASSUME AdmissionInv, Refuses(watched)
               PROVE  /\ Cardinality({i \in DOMAIN served : now - served[i] < Window}) >= Requests
                      /\ promise # 0 => now < promise
    BY DEF HonestRefusal, UserKey
  <2> DEFINE n == Len(served)
             t == tat[watched]
             R == Requests
             W == {i \in DOMAIN served : now - served[i] < Window}
  <2>1. /\ n \in Nat /\ n <= 2 * R /\ t \in Nat /\ now \in Nat /\ served \in Seq(Nat)
        /\ T \in Nat /\ T * R = Window /\ Window \in Nat /\ R \in Nat /\ R >= 1
        /\ promise \in Nat
    BY Interval, Numbers DEF AdmissionInv, AdmissionTypeOK
  <2>2. now < (IF t >= now THEN t ELSE now) + T - Window
    <3>1. now < AllowAt(watched)
      BY DEF Refuses
    <3>2. Max({t, now}) = IF t >= now THEN t ELSE now
      BY <2>1, MaxOfTwo, SMTT(30)
    <3>3. AllowAt(watched) = (Max({t, now}) + T) - Window
      <4>1. T * Requests = Window
        BY <2>1
      <4> QED
        BY <4>1, Zenon DEF AllowAt, NewTat
    <3> QED
      BY <3>1, <3>2, <3>3, <2>1
  <2>3. T <= Window
    BY Interval, Numbers
  <2>4. t > now + Window - T
    BY <2>1, <2>2, <2>3
  <2>5. promise # 0 => now < promise
    BY <2>1, <2>4 DEF AdmissionInv, Promised
  <2>6. (R - 1) * T = Window - T
    BY <2>1
  <2>7. n >= 1
    BY <2>1, <2>3, <2>4 DEF AdmissionInv, Bucket
  <2>8. served[n] \in Nat /\ served[n] <= now
    BY <2>1, <2>7 DEF AdmissionInv, Bucket
  <2>9. n >= R
    <3> SUFFICES ASSUME n < R
                 PROVE  FALSE
      BY <2>1
    <3>1. t <= served[n] + n * T
      BY <2>1, <2>7, SMTT(30) DEF AdmissionInv, Bucket
    <3>2. n * T <= (R - 1) * T /\ n * T \in Int
      BY <2>1, MoreT, SMTT(30)
    <3> DEFINE b == n * T
    <3>3. b <= Window - T /\ b \in Int /\ t <= served[n] + b
      BY <3>1, <3>2, <2>6
    <3>4. t \in Nat /\ now \in Nat /\ T \in Nat /\ Window \in Nat
      BY <2>1
    <3> HIDE DEF n, t, R, b
    <3> QED
      BY <3>3, <3>4, <2>4, <2>8
  <2>10. ASSUME NEW i \in n - R + 1 .. n
         PROVE  i \in W
    <3>1. i \in 1 .. n /\ n - i \in 0 .. R - 1
      BY <2>1, <2>9
    <3> DEFINE b == (n - i) * T
    <3>2. b <= Window - T /\ b \in Int
      <4>1. n - i \in Int /\ R - 1 \in Int /\ n - i <= R - 1
        BY <2>1, <3>1
      <4>2. (n - i) * T <= (R - 1) * T /\ (n - i) * T \in Int
        BY <4>1, MoreT, OneMoreT
      <4> QED
        BY <4>2, <2>6
    <3>3. t <= served[i] + Window + (n - i) * T \/ t <= served[n] + (n - i) * T
      BY <3>1 DEF AdmissionInv, Bucket
    <3>4. served[i] \in Nat
      BY <3>1, <2>1
    <3>5. t <= served[i] + Window + b \/ t <= served[n] + b
      BY <3>3
    <3>6. t \in Nat /\ now \in Nat /\ T \in Nat /\ Window \in Nat
      BY <2>1
    <3> HIDE DEF n, t, R, b
    <3>7. now - served[i] < Window
      BY <3>2, <3>4, <3>5, <3>6, <2>4, <2>8
    <3> QED
      BY <3>1, <3>7, <2>1 DEF n
  <2>11. n - R + 1 .. n \in SUBSET W
    BY <2>10
  <2>12. IsFiniteSet(W) /\ Cardinality(W) \in Nat
    <3>1. W \in SUBSET (1 .. n) /\ IsFiniteSet(1 .. n)
      <4>1. DOMAIN served = 1 .. n
        BY <2>1
      <4> QED
        BY <4>1, <2>1, FS_Interval
    <3> QED
      BY <3>1, FS_Subset, FS_CardinalityType
  <2> HIDE DEF n, t, R, W
  <2>13. Cardinality(n - R + 1 .. n) = R
    BY <2>1, FS_Interval
  <2>14. Cardinality(W) >= R
    BY <2>1, <2>11, <2>12, <2>13, FS_Subset
  <2> QED
    BY <2>5, <2>14 DEF W, R
<1> QED
  BY <1>1, AdmissionInvariant, PTL

(* A token is accepted for its TTL, short of less than a second, and not   *)
(* a moment longer (Provider.Issue and Parse).                             *)
THEOREM TokensLiveTheirTTL == AdmissionSpec => []TokenLifetime
<1>1. AdmissionInv => TokenLifetime
  <2> SUFFICES ASSUME AdmissionInv, NEW u \in Users, token[u] # NoToken
               PROVE  IF Valid(token[u]) THEN now < token[u].issued + TTL
                                         ELSE now > token[u].issued + TTL - Second
    BY DEF TokenLifetime
  <2>1. now \in Nat /\ token[u].issued \in Nat /\ token[u].exp \in Nat
    BY DEF AdmissionInv, AdmissionTypeOK
  <2>2. /\ token[u].exp <= token[u].issued + TTL
        /\ token[u].exp > token[u].issued + TTL - Second
    BY DEF AdmissionInv, Issued
  <2> QED
    BY <2>1, <2>2, Numbers DEF Valid
<1> QED
  BY <1>1, AdmissionInvariant, PTL
=============================================================================
