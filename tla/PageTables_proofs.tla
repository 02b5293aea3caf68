-------------------------- MODULE PageTables_proofs --------------------------
(***************************************************************************)
(* Proofs about the page tables, for every size of table and memory, every *)
(* set of devices and every heap.                                          *)
(***************************************************************************)
EXTENDS PageTables, SequenceTheorems, WellFoundedInduction, TLAPS

(***************************************************************************)
(* Addresses: what is left of a page's address below the PML4 fits into an *)
(* index, so that four indexes tell pages apart.                           *)
(***************************************************************************)
LEMMA Division ==
    ASSUME NEW x \in Nat, NEW n \in Nat \ {0}
    PROVE  /\ x \div n \in Nat /\ x % n \in 0 .. n - 1
           /\ x = (n * (x \div n)) + (x % n)
OBVIOUS

LEMMA QuotientBelow ==
    ASSUME NEW x \in Nat, NEW n \in Nat \ {0}, NEW m \in Nat, x < n * m
    PROVE  x \div n \in Nat /\ x \div n < m
<1> DEFINE q == x \div n
<1>1. q \in Nat /\ n * q <= x
  BY Division
<1> HIDE DEF q
<1>2. ASSUME q >= m PROVE FALSE
  <2>1. n * q >= n * m
    BY <1>1, <1>2
  <2> QED
    BY <1>1, <2>1
<1>3. q \in Nat /\ q < m
  BY <1>1, <1>2
<1> QED
  BY <1>3 DEF q

LEMMA SameQuotient ==
    ASSUME NEW x \in Nat, NEW y \in Nat, NEW n \in Nat \ {0},
           x \div n = y \div n, x % n = y % n
    PROVE  x = y
BY Division

LEMMA PagesTyped ==
    /\ Fanout \in Nat \ {0, 1} /\ Fanout \in Nat \ {0}
    /\ VirtualPages \subseteq Nat /\ Frames \subseteq VirtualPages /\ Frames \subseteq Nat
    /\ Memory \in Nat /\ NULL \in Frames /\ NULL \in VirtualPages
    /\ Devices \subseteq VirtualPages /\ HeapArea \subseteq VirtualPages
<1>1. Devices \subseteq Nat
  <2>1. \A i \in 1 .. Len(Framebuffer) : Framebuffer[i] \in Nat
    BY PageTablesAssumption, ElementOfSeq
  <2> QED
    BY <2>1, PageTablesAssumption DEF Devices
<1>2. HeapArea \subseteq Nat
  BY PageTablesAssumption DEF HeapArea
<1>3. Memory \in Nat /\ Memory > 0
  BY PageTablesAssumption DEF Frames
<1> QED
  BY <1>1, <1>2, <1>3, PageTablesAssumption DEF VirtualPages, Frames, NULL

LEMMA IndexTyped ==
    ASSUME NEW v \in Nat, NEW level \in 1 .. 4
    PROVE  Index(v, level) \in Indexes
<1> DEFINE v2 == v \div Fanout
           v3 == v2 \div Fanout
           v4 == v3 \div Fanout
<1>1. v2 \in Nat /\ v % Fanout \in Indexes
  BY Division, PagesTyped DEF Indexes
<1>2. v3 \in Nat /\ v2 % Fanout \in Indexes
  BY <1>1, Division, PagesTyped DEF Indexes
<1>3. v4 \in Nat /\ v3 % Fanout \in Indexes
  BY <1>2, Division, PagesTyped DEF Indexes
<1>4. v4 % Fanout \in Indexes
  BY <1>3, Division, PagesTyped DEF Indexes
<1> HIDE DEF v2, v3, v4
<1>5. Index(v, level) = <<v % Fanout, v2 % Fanout, v3 % Fanout, v4 % Fanout>>[level]
  BY DEF Index, GetIndexes, v2, v3, v4
<1> QED
  BY <1>1, <1>2, <1>3, <1>4, <1>5

LEMMA IndexesDistinguish ==
    ASSUME NEW v \in VirtualPages, NEW w \in VirtualPages,
           \A level \in 1 .. 4 : Index(v, level) = Index(w, level)
    PROVE  v = w
<1> DEFINE v2 == v \div Fanout
           v3 == v2 \div Fanout
           v4 == v3 \div Fanout
           w2 == w \div Fanout
           w3 == w2 \div Fanout
           w4 == w3 \div Fanout
<1>1. /\ v \in Nat /\ v < Fanout * (Fanout * (Fanout * Fanout))
      /\ w \in Nat /\ w < Fanout * (Fanout * (Fanout * Fanout))
      /\ Fanout \in Nat \ {0} /\ Fanout * Fanout \in Nat /\ Fanout * (Fanout * Fanout) \in Nat
  BY PagesTyped, PageTablesAssumption
<1>2. v2 \in Nat /\ v2 < Fanout * (Fanout * Fanout) /\ w2 \in Nat /\ w2 < Fanout * (Fanout * Fanout)
  BY <1>1, QuotientBelow
<1>3. v3 \in Nat /\ v3 < Fanout * Fanout /\ w3 \in Nat /\ w3 < Fanout * Fanout
  BY <1>1, <1>2, QuotientBelow
<1>4. v4 \in Nat /\ v4 < Fanout /\ w4 \in Nat /\ w4 < Fanout
  BY <1>1, <1>3, QuotientBelow
<1>5. /\ v % Fanout = w % Fanout /\ v2 % Fanout = w2 % Fanout
      /\ v3 % Fanout = w3 % Fanout /\ v4 % Fanout = w4 % Fanout
  BY DEF Index, GetIndexes
<1> HIDE DEF v4, w4
<1>6. v4 = w4
  BY <1>1, <1>4, <1>5
<1>7. v3 = w3
  BY <1>1, <1>3, <1>5, <1>6, SameQuotient DEF v4, w4
<1> HIDE DEF v3, w3
<1>8. v2 = w2
  BY <1>1, <1>2, <1>5, <1>7, SameQuotient DEF v3, w3
<1> QED
  BY <1>1, <1>5, <1>8, SameQuotient

LEMMA LowestIn ==
    ASSUME NEW S \in SUBSET Nat, S # {}
    PROVE  Lowest(S) \in S
<1>1. \E x \in S : \A y \in S : ~(<<y, x>> \in OpToRel(<, Nat))
  BY NatLessThanWellFounded, WFMin
<1>2. ASSUME NEW x \in Nat, NEW y \in Nat, <<y, x>> \notin OpToRel(<, Nat)
      PROVE  x <= y
  <2>1. <<y, x>> \in {pair \in Nat \X Nat : pair[1] < pair[2]} <=> y < x
    OBVIOUS
  <2> QED
    BY <1>2, <2>1 DEF OpToRel
<1>3. \E x \in S : \A y \in S : x <= y
  BY <1>1, <1>2
<1> QED
  BY <1>3 DEF Lowest

LEMMA Pml4Frame == PML4 \in Frames \ Locked /\ PML4 # NULL
<1>1. Frames \ Locked \in SUBSET Nat /\ Frames \ Locked # {}
  BY PagesTyped, PageTablesAssumption
<1>2. Lowest(Frames \ Locked) \in Frames \ Locked
  BY <1>1, LowestIn
<1> QED
  BY <1>2, PageTablesAssumption DEF PML4, NULL

-----------------------------------------------------------------------------
(***************************************************************************)
(* Trees of tables.  A walk works on tables of its own: these definitions  *)
(* are about any tables, and level says how far from the pages each is.    *)
(***************************************************************************)
Entries == [present : BOOLEAN, user : BOOLEAN, addr : VirtualPages]

Typed(tabs) ==
    /\ tabs \in [DOMAIN tabs -> [Indexes -> Entries]]
    /\ DOMAIN tabs \subseteq Frames \ Locked

Levelled(tabs, level) ==
    /\ level \in [DOMAIN tabs -> 1 .. 4]
    /\ PML4 \in DOMAIN tabs
    /\ \A t \in DOMAIN tabs : level[t] = 4 <=> t = PML4

(* An entry of an upper table points at a table one level down...          *)
PointsDown(tabs, level) ==
    \A t \in DOMAIN tabs, i \in Indexes :
      level[t] > 1 /\ tabs[t][i].present =>
        tabs[t][i].addr \in DOMAIN tabs /\ level[tabs[t][i].addr] = level[t] - 1

(* ... that no other entry points at, and each table but the PML4 has one. *)
Unshared(tabs, level) ==
    \A t \in DOMAIN tabs, s \in DOMAIN tabs : \A i \in Indexes, j \in Indexes :
      /\ level[t] > 1 /\ level[s] > 1
      /\ tabs[t][i].present /\ tabs[s][j].present /\ tabs[t][i].addr = tabs[s][j].addr
      => t = s /\ i = j

Reached(tabs, level) ==
    \A t \in DOMAIN tabs \ {PML4} :
      \E s \in DOMAIN tabs, i \in Indexes :
        level[s] > 1 /\ tabs[s][i].present /\ tabs[s][i].addr = t

IsTree(tabs, level) ==
    /\ Typed(tabs) /\ Levelled(tabs, level) /\ PointsDown(tabs, level)
    /\ Unshared(tabs, level) /\ Reached(tabs, level)

(* A new table, empty, hangs at an entry of another.                       *)
Hung(tabs, at, i, new) ==
    [t \in DOMAIN tabs \cup {new} |->
       IF t = new THEN EmptyTable
       ELSE IF t = at THEN [tabs[t] EXCEPT ![i] = SetAddress(@, new)] ELSE tabs[t]]

(* What is different then.                                                 *)
IsHung(tabs, tabs2, at, i, new) ==
    /\ DOMAIN tabs2 = DOMAIN tabs \cup {new}
    /\ \A t \in DOMAIN tabs, j \in Indexes :
         t # at \/ j # i => tabs2[t][j] = tabs[t][j]
    /\ tabs2[at][i].present /\ tabs2[at][i].addr = new
    /\ tabs2[at][i].user = tabs[at][i].user
    /\ \A j \in Indexes : tabs2[new][j] = Absent

LEMMA SetAddressTyped ==
    ASSUME NEW e \in Entries, NEW f \in VirtualPages
    PROVE  /\ SetAddress(e, f) \in Entries
           /\ SetAddress(e, f).present /\ SetAddress(e, f).addr = f
           /\ SetAddress(e, f).user = e.user
BY DEF SetAddress, Entries

LEMMA HangTyped ==
    ASSUME NEW tabs, Typed(tabs), NEW at \in DOMAIN tabs, NEW i \in Indexes,
           NEW new \in (Frames \ Locked) \ DOMAIN tabs
    PROVE  Typed(Hung(tabs, at, i, new)) /\ IsHung(tabs, Hung(tabs, at, i, new), at, i, new)
<1> DEFINE tabs2 == Hung(tabs, at, i, new)
           entry == SetAddress(tabs[at][i], new)
<1>1. tabs \in [DOMAIN tabs -> [Indexes -> Entries]] /\ new # at
  BY DEF Typed
<1>2. tabs[at] \in [Indexes -> Entries] /\ new \in VirtualPages
  BY <1>1, PagesTyped
<1>3. entry \in Entries /\ entry.present /\ entry.addr = new /\ entry.user = tabs[at][i].user
  BY <1>2, SetAddressTyped
<1> HIDE DEF entry
<1>4. /\ DOMAIN tabs2 = DOMAIN tabs \cup {new} /\ tabs2[new] = EmptyTable
      /\ tabs2[at] = [tabs[at] EXCEPT ![i] = entry]
      /\ \A t \in DOMAIN tabs : t # at => tabs2[t] = tabs[t]
      /\ tabs2 = [t \in DOMAIN tabs \cup {new} |-> tabs2[t]]
  BY <1>1 DEF Hung, entry
<1> HIDE DEF tabs2
<1>5. EmptyTable \in [Indexes -> Entries] /\ \A j \in Indexes : EmptyTable[j] = Absent
  BY PagesTyped DEF EmptyTable, Absent, Entries
<1>6. [tabs[at] EXCEPT ![i] = entry] \in [Indexes -> Entries]
  BY <1>2, <1>3
<1>7. \A t \in DOMAIN tabs \cup {new} : tabs2[t] \in [Indexes -> Entries]
  BY <1>1, <1>4, <1>5, <1>6
<1>8. Typed(tabs2)
  BY <1>4, <1>7 DEF Typed
<1>9. \A j \in Indexes : j # i => tabs2[at][j] = tabs[at][j]
  BY <1>2, <1>4
<1>10. tabs2[at][i] = entry
  BY <1>2, <1>4
<1>11. IsHung(tabs, tabs2, at, i, new)
  BY <1>3, <1>4, <1>5, <1>9, <1>10 DEF IsHung
<1> QED
  BY <1>8, <1>11 DEF tabs2

LEMMA HangTree ==
    ASSUME NEW tabs, NEW level, IsTree(tabs, level),
           NEW at \in DOMAIN tabs, NEW i \in Indexes, level[at] > 1, ~tabs[at][i].present,
           NEW new \in (Frames \ Locked) \ DOMAIN tabs,
           NEW tabs2, Typed(tabs2), IsHung(tabs, tabs2, at, i, new),
           NEW level2,
           level2 = [t \in DOMAIN tabs2 |-> IF t = new THEN level[at] - 1 ELSE level[t]]
    PROVE  IsTree(tabs2, level2)
<1>1. /\ DOMAIN tabs2 = DOMAIN tabs \cup {new}
      /\ level2[new] = level[at] - 1 /\ level[at] \in 2 .. 4
      /\ \A t \in DOMAIN tabs : level2[t] = level[t] /\ level[t] \in 1 .. 4 /\ t # new
  BY DEF IsHung, IsTree, Levelled
<1>2. Levelled(tabs2, level2)
  BY <1>1 DEF IsTree, Levelled
<1>3. \A j \in Indexes : ~tabs2[new][j].present
  BY DEF IsHung, Absent
<1>4. /\ \A t \in DOMAIN tabs, j \in Indexes :
           t # at \/ j # i => tabs2[t][j] = tabs[t][j]
      /\ tabs2[at][i].addr = new
  BY DEF IsHung
<1>5. PointsDown(tabs2, level2)
  <2> SUFFICES ASSUME NEW t \in DOMAIN tabs2, NEW j \in Indexes,
                      level2[t] > 1, tabs2[t][j].present
               PROVE  tabs2[t][j].addr \in DOMAIN tabs2 /\ level2[tabs2[t][j].addr] = level2[t] - 1
    BY DEF PointsDown
  <2>1. t \in DOMAIN tabs
    BY <1>1, <1>3
  <2>2. CASE t = at /\ j = i
    BY <1>1, <1>4, <2>2
  <2>3. CASE t # at \/ j # i
    <3>1. tabs2[t][j] = tabs[t][j]
      BY <1>4, <2>1, <2>3
    <3>2. tabs[t][j].addr \in DOMAIN tabs /\ level[tabs[t][j].addr] = level[t] - 1
      BY <1>1, <2>1, <3>1 DEF IsTree, PointsDown
    <3> QED
      BY <1>1, <2>1, <3>1, <3>2
  <2> QED
    BY <2>2, <2>3
<1>6. Unshared(tabs2, level2)
  <2> SUFFICES ASSUME NEW t \in DOMAIN tabs2, NEW s \in DOMAIN tabs2,
                      NEW j \in Indexes, NEW k \in Indexes,
                      level2[t] > 1, level2[s] > 1, tabs2[t][j].present, tabs2[s][k].present,
                      tabs2[t][j].addr = tabs2[s][k].addr
               PROVE  t = s /\ j = k
    BY DEF Unshared
  <2>1. t \in DOMAIN tabs /\ s \in DOMAIN tabs
    BY <1>1, <1>3
  <2>2. ASSUME NEW u \in DOMAIN tabs, NEW l \in Indexes, level[u] > 1, u # at \/ l # i,
               tabs2[u][l].present
        PROVE  tabs2[u][l].addr # new
    <3>1. tabs2[u][l] = tabs[u][l]
      BY <1>4, <2>2
    <3>2. tabs[u][l].addr \in DOMAIN tabs
      BY <2>2, <3>1 DEF IsTree, PointsDown
    <3> QED
      BY <3>1, <3>2
  <2>3. CASE t = at /\ j = i
    BY <1>1, <1>4, <2>1, <2>2, <2>3
  <2>4. CASE s = at /\ k = i
    BY <1>1, <1>4, <2>1, <2>2, <2>4
  <2>5. CASE (t # at \/ j # i) /\ (s # at \/ k # i)
    <3>1. tabs2[t][j] = tabs[t][j] /\ tabs2[s][k] = tabs[s][k]
      BY <1>4, <2>1, <2>5
    <3> QED
      BY <1>1, <2>1, <3>1 DEF IsTree, Unshared
  <2> QED
    BY <2>3, <2>4, <2>5
<1>7. Reached(tabs2, level2)
  <2> SUFFICES ASSUME NEW t \in DOMAIN tabs2, t # PML4
               PROVE  \E s \in DOMAIN tabs2, j \in Indexes :
                        level2[s] > 1 /\ tabs2[s][j].present /\ tabs2[s][j].addr = t
    BY DEF Reached
  <2>1. CASE t = new
    BY <1>1, <2>1 DEF IsHung
  <2>2. CASE t \in DOMAIN tabs
    <3>1. PICK s \in DOMAIN tabs, j \in Indexes :
            level[s] > 1 /\ tabs[s][j].present /\ tabs[s][j].addr = t
      BY <2>2 DEF IsTree, Reached
    <3>2. s # at \/ j # i
      BY <3>1
    <3>3. tabs2[s][j] = tabs[s][j]
      BY <1>4, <3>2
    <3> QED
      BY <1>1, <3>1, <3>3
  <2> QED
    BY <1>1, <2>1, <2>2
<1> QED
  BY <1>2, <1>5, <1>6, <1>7 DEF IsTree

-----------------------------------------------------------------------------
(***************************************************************************)
(* Where a walk through any tables leads, and what it finds for a page.    *)
(***************************************************************************)
Follow(tabs, t, i) == IF t # NULL /\ tabs[t][i].present THEN tabs[t][i].addr ELSE NULL
At3(tabs, v) == Follow(tabs, PML4, Index(v, 4))
At2(tabs, v) == Follow(tabs, At3(tabs, v), Index(v, 3))
At1(tabs, v) == Follow(tabs, At2(tabs, v), Index(v, 2))

Found(tabs, v) == IF At1(tabs, v) # NULL THEN tabs[At1(tabs, v)][Index(v, 1)] ELSE Absent

Open(tabs, v) ==
    /\ At1(tabs, v) # NULL /\ tabs[At1(tabs, v)][Index(v, 1)].present
    /\ tabs[At1(tabs, v)][Index(v, 1)].user /\ tabs[At2(tabs, v)][Index(v, 2)].user
    /\ tabs[At3(tabs, v)][Index(v, 3)].user /\ tabs[PML4][Index(v, 4)].user

LEMMA FollowDown ==
    ASSUME NEW tabs, NEW level, IsTree(tabs, level), NEW i \in Indexes,
           NEW t, t = NULL \/ (t \in DOMAIN tabs /\ level[t] > 1)
    PROVE  \/ Follow(tabs, t, i) = NULL
           \/ /\ t # NULL /\ Follow(tabs, t, i) \in DOMAIN tabs
              /\ level[Follow(tabs, t, i)] = level[t] - 1
BY DEF Follow, IsTree, PointsDown

LEMMA NullNoTable == \A tabs : Typed(tabs) => NULL \notin DOMAIN tabs
BY PageTablesAssumption DEF Typed, NULL

LEMMA PathDown ==
    ASSUME NEW tabs, NEW level, IsTree(tabs, level), NEW v \in Nat
    PROVE  /\ PML4 \in DOMAIN tabs /\ level[PML4] = 4
           /\ At3(tabs, v) = NULL \/ (At3(tabs, v) \in DOMAIN tabs /\ level[At3(tabs, v)] = 3)
           /\ \/ At2(tabs, v) = NULL
              \/ /\ At3(tabs, v) # NULL /\ At2(tabs, v) \in DOMAIN tabs
                 /\ level[At2(tabs, v)] = 2
           /\ \/ At1(tabs, v) = NULL
              \/ /\ At3(tabs, v) # NULL /\ At2(tabs, v) # NULL /\ At1(tabs, v) \in DOMAIN tabs
                 /\ level[At1(tabs, v)] = 1
<1>1. PML4 \in DOMAIN tabs /\ level[PML4] = 4
  BY DEF IsTree, Levelled
<1>2. Index(v, 4) \in Indexes /\ Index(v, 3) \in Indexes /\ Index(v, 2) \in Indexes
  BY IndexTyped
<1>3. At3(tabs, v) = NULL \/ (At3(tabs, v) \in DOMAIN tabs /\ level[At3(tabs, v)] = 3)
  BY <1>1, <1>2, FollowDown DEF At3
<1>4. \/ At2(tabs, v) = NULL
      \/ At3(tabs, v) # NULL /\ At2(tabs, v) \in DOMAIN tabs /\ level[At2(tabs, v)] = 2
  BY <1>2, <1>3, FollowDown DEF At2
<1>5. \/ At1(tabs, v) = NULL
      \/ At2(tabs, v) # NULL /\ At1(tabs, v) \in DOMAIN tabs /\ level[At1(tabs, v)] = 1
  BY <1>2, <1>4, FollowDown DEF At1
<1> QED
  BY <1>1, <1>3, <1>4, <1>5

LEMMA FoundTyped ==
    ASSUME NEW tabs, NEW level, IsTree(tabs, level), NEW v \in VirtualPages
    PROVE  Found(tabs, v) \in Entries
<1>1. v \in Nat /\ Index(v, 1) \in Indexes /\ Absent \in Entries
  BY PagesTyped, IndexTyped DEF Absent, Entries
<1>2. At1(tabs, v) = NULL \/ At1(tabs, v) \in DOMAIN tabs
  BY <1>1, PathDown
<1> QED
  BY <1>1, <1>2 DEF Found, IsTree, Typed

(* A new table is where there was none, and leads nowhere.                 *)
LEMMA FollowHung ==
    ASSUME NEW tabs, NEW level, IsTree(tabs, level),
           NEW at \in DOMAIN tabs, NEW i \in Indexes, ~tabs[at][i].present,
           NEW new, new # NULL,
           NEW tabs2, IsHung(tabs, tabs2, at, i, new),
           NEW j \in Indexes,
           NEW a, NEW b, \/ a = b /\ a \in DOMAIN tabs \cup {NULL}
                         \/ a = NULL /\ b = new
    PROVE  \/ Follow(tabs, a, j) = Follow(tabs2, b, j)
           \/ Follow(tabs, a, j) = NULL /\ Follow(tabs2, b, j) = new
<1>1. CASE a = NULL /\ b = NULL
  BY <1>1 DEF Follow
<1>2. CASE a = NULL /\ b = new
  BY <1>2 DEF Follow, IsHung, Absent
<1>3. CASE a = b /\ a \in DOMAIN tabs /\ (a # at \/ j # i)
  <2>1. tabs2[a][j] = tabs[a][j]
    BY <1>3 DEF IsHung
  <2> QED
    BY <1>3, <2>1 DEF Follow
<1>4. CASE a = b /\ a = at /\ j = i
  <2>1. a # NULL
    BY <1>4, NullNoTable DEF IsTree
  <2> QED
    BY <1>4, <2>1 DEF Follow, IsHung
<1> QED
  BY <1>1, <1>2, <1>3, <1>4

LEMMA HangKeeps ==
    ASSUME NEW tabs, NEW level, IsTree(tabs, level),
           NEW at \in DOMAIN tabs, NEW i \in Indexes, level[at] > 1, ~tabs[at][i].present,
           NEW new, new # NULL, new \notin DOMAIN tabs,
           NEW tabs2, IsHung(tabs, tabs2, at, i, new), NEW w \in Nat
    PROVE  Found(tabs2, w) = Found(tabs, w) /\ (Open(tabs, w) => Open(tabs2, w))
<1> DEFINE i1 == Index(w, 1)  i2 == Index(w, 2)  i3 == Index(w, 3)  i4 == Index(w, 4)
           a3 == At3(tabs, w)  a2 == At2(tabs, w)  a1 == At1(tabs, w)
           b3 == At3(tabs2, w)  b2 == At2(tabs2, w)  b1 == At1(tabs2, w)
<1>1. i1 \in Indexes /\ i2 \in Indexes /\ i3 \in Indexes /\ i4 \in Indexes
  BY IndexTyped
<1>2. /\ PML4 \in DOMAIN tabs
      /\ a3 = NULL \/ a3 \in DOMAIN tabs
      /\ a2 = NULL \/ (a3 # NULL /\ a2 \in DOMAIN tabs)
      /\ a1 = NULL \/ (a3 # NULL /\ a2 # NULL /\ a1 \in DOMAIN tabs /\ level[a1] = 1)
  BY PathDown
<1>3. a3 = b3 \/ (a3 = NULL /\ b3 = new)
  BY <1>1, <1>2, FollowHung DEF At3
<1>4. a2 = b2 \/ (a2 = NULL /\ b2 = new)
  BY <1>1, <1>2, <1>3, FollowHung DEF At2
<1>5. a1 = b1 \/ (a1 = NULL /\ b1 = new)
  BY <1>1, <1>2, <1>4, FollowHung DEF At1
<1> HIDE DEF i1, i2, i3, i4, a1, a2, a3, b1, b2, b3
<1>6. ASSUME a1 # NULL
      PROVE  tabs2[b1][i1] = tabs[a1][i1] /\ a1 = b1
  <2>1. a1 # at
    BY <1>2, <1>6
  <2> QED
    BY <1>1, <1>2, <1>5, <1>6, <2>1 DEF IsHung
<1>7. Found(tabs2, w) = Found(tabs, w)
  <2>1. CASE a1 # NULL
    BY <1>6, <2>1 DEF Found, a1, b1, i1
  <2>2. CASE a1 = NULL /\ b1 = NULL
    BY <2>2 DEF Found, a1, b1
  <2>3. CASE a1 = NULL /\ b1 = new
    <3>1. tabs2[new][i1] = Absent
      BY <1>1 DEF IsHung
    <3> QED
      BY <2>3, <3>1 DEF Found, a1, b1, i1
  <2> QED
    BY <1>5, <2>1, <2>2, <2>3
<1>8. ASSUME Open(tabs, w) PROVE Open(tabs2, w)
  <2>1. /\ a1 # NULL /\ tabs[a1][i1].present /\ tabs[a1][i1].user
        /\ tabs[a2][i2].user /\ tabs[a3][i3].user /\ tabs[PML4][i4].user
    BY <1>8 DEF Open, a1, a2, a3, i1, i2, i3, i4
  <2>2. a2 = b2 /\ a3 = b3 /\ a2 \in DOMAIN tabs /\ a3 \in DOMAIN tabs
    BY <1>2, <1>3, <1>4, <2>1
  <2>3. \A t \in DOMAIN tabs, j \in Indexes : tabs2[t][j].user = tabs[t][j].user
    BY DEF IsHung
  <2>4. /\ b1 # NULL /\ tabs2[b1][i1].present /\ tabs2[b1][i1].user
        /\ tabs2[b2][i2].user /\ tabs2[b3][i3].user /\ tabs2[PML4][i4].user
    BY <1>1, <1>2, <1>6, <2>1, <2>2, <2>3
  <2> QED
    BY <2>4 DEF Open, b1, b2, b3, i1, i2, i3, i4
<1> QED
  BY <1>7, <1>8

-----------------------------------------------------------------------------
(***************************************************************************)
(* MapMemory: three descents, then the entry of the page.                  *)
(***************************************************************************)
(* A walk that set out with tables tabs and the free frames avail: what it *)
(* has added shows no page differently.                                    *)
GoodWalk(walk, level, tabs, avail) ==
    /\ DOMAIN walk = {"tables", "free", "at", "panicked"}
    /\ IsTree(walk.tables, level)
    /\ walk.free \subseteq avail /\ walk.free \cap DOMAIN walk.tables = {}
    /\ DOMAIN walk.tables \subseteq DOMAIN tabs \cup avail
    /\ walk.panicked \in BOOLEAN
    /\ \A w \in Nat : /\ Found(walk.tables, w) = Found(tabs, w)
                      /\ Open(tabs, w) => Open(walk.tables, w)

Stays(tabs, tabs2) ==
    \A t \in DOMAIN tabs, j \in Indexes :
      t \in DOMAIN tabs2 /\ (tabs[t][j].present => tabs2[t][j] = tabs[t][j])

Descended(walk, level, walk2, level2, i) ==
    /\ Stays(walk.tables, walk2.tables)
    /\ \A t \in DOMAIN walk.tables : level2[t] = level[t]
    /\ ~walk2.panicked =>
         /\ ~walk.panicked /\ walk2.at \in DOMAIN walk2.tables
         /\ level2[walk2.at] = level[walk.at] - 1
         /\ walk2.tables[walk.at][i].present /\ walk2.tables[walk.at][i].addr = walk2.at

LEMMA WithTableWalk ==
    ASSUME NEW walk, NEW level, NEW tabs, NEW avail \in SUBSET (Frames \ Locked),
           GoodWalk(walk, level, tabs, avail), NEW i \in Indexes, ~walk.panicked,
           walk.at \in DOMAIN walk.tables, level[walk.at] > 1,
           ~walk.tables[walk.at][i].present, NEW new \in walk.free
    PROVE  \E level2 : /\ GoodWalk(WithTable(walk, i, new), level2, tabs, avail)
                       /\ Descended(walk, level, WithTable(walk, i, new), level2, i)
<1> DEFINE tabs1 == walk.tables
           tabs2 == Hung(tabs1, walk.at, i, new)
           walk2 == WithTable(walk, i, new)
           level2 == [t \in DOMAIN tabs2 |-> IF t = new THEN level[walk.at] - 1 ELSE level[t]]
<1>1. /\ DOMAIN walk = {"tables", "free", "at", "panicked"}
      /\ new \in (Frames \ Locked) \ DOMAIN tabs1 /\ new \in avail /\ new # NULL
      /\ IsTree(tabs1, level) /\ Typed(tabs1) /\ tabs1 = walk.tables
  BY PageTablesAssumption DEF GoodWalk, IsTree, NULL
<1>2. /\ walk2.tables = tabs2 /\ walk2.free = walk.free \ {new}
      /\ walk2.at = new /\ walk2.panicked = walk.panicked
      /\ DOMAIN walk2 = {"tables", "free", "at", "panicked"}
  BY <1>1 DEF WithTable, Hung
<1> HIDE DEF tabs1
<1>3. Typed(tabs2) /\ IsHung(tabs1, tabs2, walk.at, i, new)
  BY <1>1, HangTyped
<1> HIDE DEF tabs2, walk2
<1>4. IsTree(tabs2, level2)
  BY <1>1, <1>3, HangTree
<1>5. /\ DOMAIN tabs2 = DOMAIN tabs1 \cup {new}
      /\ level2[new] = level[walk.at] - 1
      /\ \A t \in DOMAIN tabs1 : level2[t] = level[t]
  BY <1>1, <1>3 DEF IsHung
<1> HIDE DEF level2
<1>6. \A w \in Nat : /\ Found(tabs2, w) = Found(tabs1, w)
                     /\ Open(tabs1, w) => Open(tabs2, w)
  BY <1>1, <1>3, HangKeeps
<1>7. GoodWalk(walk2, level2, tabs, avail)
  BY <1>1, <1>2, <1>4, <1>5, <1>6 DEF GoodWalk
<1>8. Stays(tabs1, tabs2)
  BY <1>1, <1>3, <1>5 DEF Stays, IsHung
<1>9. Descended(walk, level, walk2, level2, i)
  BY <1>1, <1>2, <1>3, <1>5, <1>8 DEF Descended, IsHung
<1> QED
  BY <1>7, <1>9 DEF walk2

LEMMA DescendWalk ==
    ASSUME NEW walk, NEW level, NEW tabs, NEW avail \in SUBSET (Frames \ Locked),
           GoodWalk(walk, level, tabs, avail), NEW i \in Indexes,
           ~walk.panicked => walk.at \in DOMAIN walk.tables /\ level[walk.at] > 1
    PROVE  \E level2 : /\ GoodWalk(Descend(walk, i), level2, tabs, avail)
                       /\ Descended(walk, level, Descend(walk, i), level2, i)
<1> DEFINE walk2 == Descend(walk, i)
<1>1. CASE walk.panicked
  <2>1. walk2 = walk
    BY <1>1 DEF Descend
  <2>2. Descended(walk, level, walk, level, i)
    BY <1>1 DEF Descended, Stays
  <2> QED
    BY <2>1, <2>2
<1>2. CASE ~walk.panicked /\ walk.tables[walk.at][i].present
  <2>1. walk2 = [walk EXCEPT !.at = walk.tables[walk.at][i].addr]
    BY <1>2 DEF Descend
  <2> HIDE DEF walk2
  <2>2. /\ walk2.tables = walk.tables /\ walk2.free = walk.free /\ ~walk2.panicked
        /\ walk2.at = walk.tables[walk.at][i].addr /\ walk2.panicked = walk.panicked
        /\ DOMAIN walk2 = {"tables", "free", "at", "panicked"}
    BY <1>2, <2>1 DEF GoodWalk
  <2>3. walk2.at \in DOMAIN walk.tables /\ level[walk2.at] = level[walk.at] - 1
    BY <1>2, <2>2 DEF GoodWalk, IsTree, PointsDown
  <2>4. GoodWalk(walk2, level, tabs, avail)
    BY <2>2 DEF GoodWalk
  <2>5. Descended(walk, level, walk2, level, i)
    BY <1>2, <2>2, <2>3 DEF Descended, Stays
  <2> QED
    BY <2>4, <2>5 DEF walk2
<1>3. CASE ~walk.panicked /\ ~walk.tables[walk.at][i].present /\ walk.free = {}
  <2>1. walk2 = [walk EXCEPT !.panicked = TRUE]
    BY <1>3 DEF Descend
  <2> HIDE DEF walk2
  <2>2. /\ walk2.tables = walk.tables /\ walk2.free = walk.free /\ walk2.panicked
        /\ walk2.panicked \in BOOLEAN
        /\ DOMAIN walk2 = {"tables", "free", "at", "panicked"}
    BY <2>1 DEF GoodWalk
  <2>3. GoodWalk(walk2, level, tabs, avail)
    BY <2>2 DEF GoodWalk
  <2>4. Descended(walk, level, walk2, level, i)
    BY <2>2 DEF Descended, Stays
  <2> QED
    BY <2>3, <2>4 DEF walk2
<1>4. CASE ~walk.panicked /\ ~walk.tables[walk.at][i].present /\ walk.free # {}
  <2>1. walk2 = WithTable(walk, i, Lowest(walk.free))
    BY <1>4 DEF Descend
  <2>2. Lowest(walk.free) \in walk.free
    BY <1>4, LowestIn, PagesTyped DEF GoodWalk
  <2> QED
    BY <1>4, <2>1, <2>2, WithTableWalk
<1> QED
  BY <1>1, <1>2, <1>3, <1>4

(* Where no walk has set out yet.                                          *)
Setting(tabs, avail) == [tables |-> tabs, free |-> avail, at |-> PML4, panicked |-> FALSE]

LEMMA WalkSets ==
    ASSUME NEW tabs, NEW level, IsTree(tabs, level),
           NEW avail \in SUBSET (Frames \ Locked), avail \cap DOMAIN tabs = {}
    PROVE  /\ GoodWalk(Setting(tabs, avail), level, tabs, avail)
           /\ Setting(tabs, avail).at \in DOMAIN Setting(tabs, avail).tables
           /\ level[Setting(tabs, avail).at] = 4
<1>1. PML4 \in DOMAIN tabs /\ level[PML4] = 4
  BY DEF IsTree, Levelled
<1> QED
  BY <1>1 DEF GoodWalk, Setting

(* The walk of MapMemory down to the table of level 1.                     *)
WalkDown(walk, v) ==
    Descend(Descend(Descend(walk, Index(v, 4)), Index(v, 3)), Index(v, 2))

LEMMA WalkDownGood ==
    ASSUME NEW tabs, NEW level, IsTree(tabs, level), NEW v \in Nat,
           NEW avail \in SUBSET (Frames \ Locked), avail \cap DOMAIN tabs = {}
    PROVE  \E level2 :
             /\ GoodWalk(WalkDown(Setting(tabs, avail), v), level2, tabs, avail)
             /\ Stays(tabs, WalkDown(Setting(tabs, avail), v).tables)
             /\ ~WalkDown(Setting(tabs, avail), v).panicked =>
                  /\ WalkDown(Setting(tabs, avail), v).at
                       = At1(WalkDown(Setting(tabs, avail), v).tables, v)
                  /\ WalkDown(Setting(tabs, avail), v).at # NULL
<1> DEFINE walk == Setting(tabs, avail)
           walk3 == Descend(walk, Index(v, 4))
           walk2 == Descend(walk3, Index(v, 3))
           walk1 == Descend(walk2, Index(v, 2))
<1>1. Index(v, 4) \in Indexes /\ Index(v, 3) \in Indexes /\ Index(v, 2) \in Indexes
  BY IndexTyped
<1>2. /\ GoodWalk(walk, level, tabs, avail)
      /\ walk.at \in DOMAIN walk.tables /\ level[walk.at] = 4
      /\ walk.at = PML4 /\ walk.tables = tabs
  BY WalkSets DEF Setting
<1> HIDE DEF walk
<1>3. PICK level3 : /\ GoodWalk(walk3, level3, tabs, avail)
                    /\ Descended(walk, level, walk3, level3, Index(v, 4))
  BY <1>1, <1>2, DescendWalk
<1> HIDE DEF walk3
<1>4. ~walk3.panicked => walk3.at \in DOMAIN walk3.tables /\ level3[walk3.at] = 3
  BY <1>2, <1>3 DEF Descended
<1>5. PICK level2 : /\ GoodWalk(walk2, level2, tabs, avail)
                    /\ Descended(walk3, level3, walk2, level2, Index(v, 3))
  BY <1>1, <1>3, <1>4, DescendWalk
<1> HIDE DEF walk2
<1>6. ~walk2.panicked => walk2.at \in DOMAIN walk2.tables /\ level2[walk2.at] = 2
  BY <1>4, <1>5 DEF Descended
<1>7. PICK level1 : /\ GoodWalk(walk1, level1, tabs, avail)
                    /\ Descended(walk2, level2, walk1, level1, Index(v, 2))
  BY <1>1, <1>5, <1>6, DescendWalk
<1> HIDE DEF walk1
<1>8. Stays(tabs, walk1.tables)
  <2>1. /\ Stays(tabs, walk3.tables) /\ Stays(walk3.tables, walk2.tables)
        /\ Stays(walk2.tables, walk1.tables)
    BY <1>2, <1>3, <1>5, <1>7 DEF Descended
  <2> QED
    BY <2>1 DEF Stays
<1>9. ASSUME ~walk1.panicked
      PROVE  walk1.at = At1(walk1.tables, v) /\ walk1.at # NULL
  <2>1. /\ ~walk2.panicked /\ ~walk3.panicked
        /\ walk1.at \in DOMAIN walk1.tables
        /\ Stays(walk3.tables, walk2.tables) /\ Stays(walk2.tables, walk1.tables)
    BY <1>5, <1>7, <1>9 DEF Descended
  <2>2. /\ PML4 \in DOMAIN walk3.tables /\ walk3.at \in DOMAIN walk3.tables
        /\ walk2.at \in DOMAIN walk2.tables
        /\ walk3.tables[PML4][Index(v, 4)].present
        /\ walk3.tables[PML4][Index(v, 4)].addr = walk3.at
        /\ walk2.tables[walk3.at][Index(v, 3)].present
        /\ walk2.tables[walk3.at][Index(v, 3)].addr = walk2.at
        /\ walk1.tables[walk2.at][Index(v, 2)].present
        /\ walk1.tables[walk2.at][Index(v, 2)].addr = walk1.at
    BY <1>2, <1>3, <1>4, <1>5, <1>6, <1>7, <1>9, <2>1 DEF Descended, GoodWalk, IsTree, Levelled
  <2>3. /\ walk1.tables[PML4][Index(v, 4)] = walk3.tables[PML4][Index(v, 4)]
        /\ walk1.tables[walk3.at][Index(v, 3)] = walk2.tables[walk3.at][Index(v, 3)]
    BY <1>1, <2>1, <2>2 DEF Stays
  <2>4. PML4 # NULL /\ walk3.at # NULL /\ walk2.at # NULL /\ walk1.at # NULL
    <3>1. /\ Typed(walk3.tables) /\ Typed(walk2.tables) /\ Typed(walk1.tables)
      BY <1>3, <1>5, <1>7 DEF GoodWalk, IsTree
    <3> QED
      BY <2>1, <2>2, <3>1, NullNoTable
  <2>5. At3(walk1.tables, v) = walk3.at
    BY <2>2, <2>3, <2>4 DEF At3, Follow
  <2>6. At2(walk1.tables, v) = walk2.at
    BY <2>2, <2>3, <2>4, <2>5 DEF At2, Follow
  <2> QED
    BY <2>2, <2>4, <2>6 DEF At1, Follow
<1>10. walk1 = WalkDown(Setting(tabs, avail), v)
  BY DEF WalkDown, walk1, walk2, walk3, walk
<1> QED
  BY <1>7, <1>8, <1>9, <1>10

-----------------------------------------------------------------------------
(***************************************************************************)
(* Changes that leave alone where the upper tables point: the last write   *)
(* of MapMemory, and all of MapUserspaceMemory.                            *)
(***************************************************************************)
SamePointers(tabs, tabs2, level) ==
    /\ DOMAIN tabs2 = DOMAIN tabs
    /\ \A t \in DOMAIN tabs, i \in Indexes :
         level[t] > 1 => /\ tabs2[t][i].present = tabs[t][i].present
                         /\ tabs2[t][i].addr = tabs[t][i].addr

LEMMA PointersTree ==
    ASSUME NEW tabs, NEW level, IsTree(tabs, level), NEW tabs2, Typed(tabs2),
           SamePointers(tabs, tabs2, level)
    PROVE  IsTree(tabs2, level)
<1>1. /\ DOMAIN tabs2 = DOMAIN tabs
      /\ \A t \in DOMAIN tabs, i \in Indexes :
           level[t] > 1 => /\ tabs2[t][i].present = tabs[t][i].present
                           /\ tabs2[t][i].addr = tabs[t][i].addr
  BY DEF SamePointers
<1>2. Levelled(tabs2, level)
  BY <1>1 DEF IsTree, Levelled
<1>3. PointsDown(tabs2, level)
  BY <1>1 DEF IsTree, PointsDown
<1>4. Unshared(tabs2, level)
  BY <1>1 DEF IsTree, Unshared
<1>5. Reached(tabs2, level)
  BY <1>1 DEF IsTree, Reached
<1> QED
  BY <1>2, <1>3, <1>4, <1>5 DEF IsTree

LEMMA PointersPath ==
    ASSUME NEW tabs, NEW level, IsTree(tabs, level), NEW tabs2,
           SamePointers(tabs, tabs2, level), NEW v \in Nat
    PROVE  /\ At3(tabs2, v) = At3(tabs, v) /\ At2(tabs2, v) = At2(tabs, v)
           /\ At1(tabs2, v) = At1(tabs, v)
<1>1. \A t \in DOMAIN tabs \cup {NULL}, i \in Indexes :
        t = NULL \/ level[t] > 1 => Follow(tabs2, t, i) = Follow(tabs, t, i)
  BY DEF Follow, SamePointers
<1>2. Index(v, 4) \in Indexes /\ Index(v, 3) \in Indexes /\ Index(v, 2) \in Indexes
  BY IndexTyped
<1>3. /\ PML4 \in DOMAIN tabs /\ level[PML4] = 4
      /\ At3(tabs, v) = NULL \/ (At3(tabs, v) \in DOMAIN tabs /\ level[At3(tabs, v)] = 3)
      /\ At2(tabs, v) = NULL \/ (At2(tabs, v) \in DOMAIN tabs /\ level[At2(tabs, v)] = 2)
  BY PathDown
<1>4. At3(tabs2, v) = At3(tabs, v)
  BY <1>1, <1>2, <1>3 DEF At3
<1>5. At2(tabs2, v) = At2(tabs, v)
  BY <1>1, <1>2, <1>3, <1>4 DEF At2
<1>6. At1(tabs2, v) = At1(tabs, v)
  BY <1>1, <1>2, <1>3, <1>5 DEF At1
<1> QED
  BY <1>4, <1>5, <1>6

(* The way to an entry can be found back: two pages whose walks meet in    *)
(* the same entry of the same table are the same page.                     *)
LEMMA PathUp ==
    ASSUME NEW tabs, NEW level, IsTree(tabs, level),
           NEW a \in DOMAIN tabs, NEW b \in DOMAIN tabs, level[a] > 1, level[b] > 1,
           NEW i \in Indexes, NEW j \in Indexes,
           Follow(tabs, a, i) # NULL, Follow(tabs, a, i) = Follow(tabs, b, j)
    PROVE  a = b /\ i = j
BY DEF Follow, IsTree, Unshared

LEMMA OneWay ==
    ASSUME NEW tabs, NEW level, IsTree(tabs, level),
           NEW v \in VirtualPages, NEW w \in VirtualPages,
           At1(tabs, v) # NULL, At1(tabs, v) = At1(tabs, w), Index(v, 1) = Index(w, 1)
    PROVE  v = w
<1>1. v \in Nat /\ w \in Nat
  BY PagesTyped
<1>2. \A l \in 1 .. 4 : Index(v, l) \in Indexes /\ Index(w, l) \in Indexes
  BY <1>1, IndexTyped
<1>3. /\ At3(tabs, v) \in DOMAIN tabs /\ level[At3(tabs, v)] = 3
      /\ At2(tabs, v) \in DOMAIN tabs /\ level[At2(tabs, v)] = 2
      /\ At3(tabs, v) # NULL /\ At2(tabs, v) # NULL
  BY <1>1, PathDown
<1>4. /\ At3(tabs, w) \in DOMAIN tabs /\ level[At3(tabs, w)] = 3
      /\ At2(tabs, w) \in DOMAIN tabs /\ level[At2(tabs, w)] = 2
  BY <1>1, PathDown
<1>5. PML4 \in DOMAIN tabs /\ level[PML4] = 4
  BY DEF IsTree, Levelled
<1>6. At2(tabs, v) = At2(tabs, w) /\ Index(v, 2) = Index(w, 2)
  BY <1>2, <1>3, <1>4, PathUp DEF At1
<1>7. At3(tabs, v) = At3(tabs, w) /\ Index(v, 3) = Index(w, 3)
  BY <1>2, <1>3, <1>4, <1>6, PathUp DEF At2
<1>8. Index(v, 4) = Index(w, 4)
  BY <1>2, <1>3, <1>5, <1>7, PathUp DEF At3
<1>9. \A l \in 1 .. 4 : Index(v, l) = Index(w, l)
  <2> SUFFICES ASSUME NEW l \in 1 .. 4 PROVE Index(v, l) = Index(w, l)
    OBVIOUS
  <2>1. l = 1 \/ l = 2 \/ l = 3 \/ l = 4
    OBVIOUS
  <2> QED
    BY <1>6, <1>7, <1>8, <2>1
<1> QED
  BY <1>9, IndexesDistinguish

(* The entry of a page gets its frame.                                     *)
Placed(tabs, v, f) ==
    [tabs EXCEPT ![At1(tabs, v)][Index(v, 1)] = SetAddress(@, f)]

LEMMA PlaceTree ==
    ASSUME NEW tabs, NEW level, IsTree(tabs, level), NEW v \in Nat,
           NEW f \in VirtualPages, At1(tabs, v) # NULL
    PROVE  /\ IsTree(Placed(tabs, v, f), level)
           /\ SamePointers(tabs, Placed(tabs, v, f), level)
           /\ Placed(tabs, v, f)[At1(tabs, v)][Index(v, 1)]
                = SetAddress(tabs[At1(tabs, v)][Index(v, 1)], f)
           /\ \A t \in DOMAIN tabs, j \in Indexes :
                t # At1(tabs, v) \/ j # Index(v, 1) => Placed(tabs, v, f)[t][j] = tabs[t][j]
<1> DEFINE a == At1(tabs, v)  i == Index(v, 1)  tabs2 == Placed(tabs, v, f)
           entry == SetAddress(tabs[a][i], f)
<1>1. i \in Indexes /\ a \in DOMAIN tabs /\ level[a] = 1
  BY IndexTyped, PathDown
<1>2. /\ tabs \in [DOMAIN tabs -> [Indexes -> Entries]]
      /\ DOMAIN tabs \subseteq Frames \ Locked
  BY DEF IsTree, Typed
<1>3. entry \in Entries
  BY <1>1, <1>2, SetAddressTyped
<1>4. tabs2 = [tabs EXCEPT ![a] = [tabs[a] EXCEPT ![i] = entry]]
  BY <1>1, <1>2 DEF Placed
<1> HIDE DEF a, i, tabs2, entry
<1>5. [tabs[a] EXCEPT ![i] = entry] \in [Indexes -> Entries]
  BY <1>1, <1>2, <1>3
<1>6. Typed(tabs2)
  BY <1>1, <1>2, <1>4, <1>5 DEF Typed
<1>7. /\ DOMAIN tabs2 = DOMAIN tabs /\ tabs2[a][i] = entry
      /\ \A t \in DOMAIN tabs, j \in Indexes : t # a \/ j # i => tabs2[t][j] = tabs[t][j]
  BY <1>1, <1>2, <1>4
<1>8. SamePointers(tabs, tabs2, level)
  BY <1>1, <1>7 DEF SamePointers
<1>9. IsTree(tabs2, level)
  BY <1>6, <1>8, PointersTree
<1> QED
  BY <1>7, <1>8, <1>9 DEF a, i, tabs2, entry

LEMMA PlacePages ==
    ASSUME NEW tabs, NEW level, IsTree(tabs, level), NEW v \in VirtualPages,
           NEW f \in VirtualPages, At1(tabs, v) # NULL, NEW w \in VirtualPages
    PROVE  /\ At1(Placed(tabs, v, f), w) = At1(tabs, w)
           /\ w # v => Found(Placed(tabs, v, f), w) = Found(tabs, w)
           /\ Found(Placed(tabs, v, f), v) = SetAddress(Found(tabs, v), f)
           /\ Open(tabs, w) => Open(Placed(tabs, v, f), w)
<1> DEFINE tabs2 == Placed(tabs, v, f)
<1>1. v \in Nat /\ w \in Nat
  BY PagesTyped
<1>2. /\ SamePointers(tabs, tabs2, level)
      /\ tabs2[At1(tabs, v)][Index(v, 1)] = SetAddress(tabs[At1(tabs, v)][Index(v, 1)], f)
      /\ \A t \in DOMAIN tabs, j \in Indexes :
           t # At1(tabs, v) \/ j # Index(v, 1) => tabs2[t][j] = tabs[t][j]
  BY <1>1, PlaceTree
<1> HIDE DEF tabs2
<1>3. /\ At3(tabs2, w) = At3(tabs, w) /\ At2(tabs2, w) = At2(tabs, w)
      /\ At1(tabs2, w) = At1(tabs, w) /\ At1(tabs2, v) = At1(tabs, v)
  BY <1>1, <1>2, PointersPath
<1>4. \A l \in 1 .. 4 : Index(v, l) \in Indexes /\ Index(w, l) \in Indexes
  BY <1>1, IndexTyped
<1>5. At1(tabs, v) \in DOMAIN tabs /\ At1(tabs, w) \in DOMAIN tabs \cup {NULL}
  BY <1>1, PathDown
<1>6. ASSUME w # v PROVE Found(tabs2, w) = Found(tabs, w)
  <2>1. CASE At1(tabs, w) = NULL
    BY <1>3, <2>1 DEF Found
  <2>2. CASE At1(tabs, w) # NULL
    <3>1. At1(tabs, w) # At1(tabs, v) \/ Index(w, 1) # Index(v, 1)
      BY <1>6, <2>2, OneWay
    <3> QED
      BY <1>2, <1>3, <1>4, <1>5, <2>2, <3>1 DEF Found
  <2> QED
    BY <2>1, <2>2
<1>7. Found(tabs2, v) = SetAddress(Found(tabs, v), f)
  BY <1>2, <1>3 DEF Found
<1>8. ASSUME Open(tabs, w) PROVE Open(tabs2, w)
  <2>1. \A t \in DOMAIN tabs, j \in Indexes :
          /\ tabs[t][j].present => tabs2[t][j].present
          /\ tabs2[t][j].user = tabs[t][j].user
    <3>1. tabs[At1(tabs, v)][Index(v, 1)] \in Entries
      BY <1>4, <1>5 DEF IsTree, Typed
    <3> QED
      BY <1>2, <3>1, SetAddressTyped
  <2>2. /\ PML4 \in DOMAIN tabs /\ At1(tabs, w) \in DOMAIN tabs
        /\ At2(tabs, w) \in DOMAIN tabs /\ At3(tabs, w) \in DOMAIN tabs
    BY <1>1, <1>8, PathDown DEF Open
  <2> QED
    BY <1>3, <1>4, <1>8, <2>1, <2>2 DEF Open
<1> QED
  BY <1>3, <1>6, <1>7, <1>8 DEF tabs2

(***************************************************************************)
(* What MapMemory does to the tables, as one step.                         *)
(***************************************************************************)
IsMapping(walk, tabs, avail, v, f) ==
    /\ \E level : IsTree(walk.tables, level)
    /\ walk.free \subseteq avail /\ walk.free \cap DOMAIN walk.tables = {}
    /\ DOMAIN walk.tables \subseteq DOMAIN tabs \cup avail
    /\ walk.panicked \in BOOLEAN
    /\ \A w \in VirtualPages :
         /\ w # v \/ walk.panicked => Found(walk.tables, w) = Found(tabs, w)
         /\ Open(tabs, w) => Open(walk.tables, w)
    /\ ~walk.panicked => Found(walk.tables, v) = SetAddress(Found(tabs, v), f)

LEMMA MapMemoryMaps ==
    ASSUME NEW level, IsTree(tables, level), NEW v \in VirtualPages, NEW f \in VirtualPages,
           NEW avail \in SUBSET (Frames \ Locked), avail \cap DOMAIN tables = {}
    PROVE  IsMapping(MapMemory(avail, v, f), tables, avail, v, f)
<1> DEFINE walk == WalkDown(Setting(tables, avail), v)
           walk2 == [walk EXCEPT !.tables = Placed(walk.tables, v, f)]
<1>1. v \in Nat /\ VirtualPages \subseteq Nat
  BY PagesTyped
<1>2. PICK level2 : /\ GoodWalk(walk, level2, tables, avail)
                    /\ ~walk.panicked => /\ walk.at = At1(walk.tables, v)
                                         /\ walk.at # NULL
  BY <1>1, WalkDownGood
<1>3. MapMemory(avail, v, f) =
        IF walk.panicked THEN walk
        ELSE [walk EXCEPT !.tables =
                [walk.tables EXCEPT ![walk.at][Index(v, 1)] = SetAddress(@, f)]]
  BY DEF MapMemory, WalkDown, Setting
<1> HIDE DEF walk
<1>4. CASE walk.panicked
  <2>1. IsMapping(walk, tables, avail, v, f)
    BY <1>1, <1>2, <1>4 DEF IsMapping, GoodWalk
  <2> QED
    BY <1>3, <1>4, <2>1
<1>5. CASE ~walk.panicked
  <2>1. MapMemory(avail, v, f) = walk2
    BY <1>2, <1>3, <1>5 DEF Placed
  <2>2. /\ walk2.tables = Placed(walk.tables, v, f) /\ walk2.free = walk.free
        /\ walk2.panicked = walk.panicked
    BY <1>2 DEF GoodWalk
  <2> HIDE DEF walk2
  <2>3. /\ IsTree(walk.tables, level2) /\ At1(walk.tables, v) # NULL
        /\ walk.free \subseteq avail /\ walk.free \cap DOMAIN walk.tables = {}
        /\ DOMAIN walk.tables \subseteq DOMAIN tables \cup avail /\ walk.panicked \in BOOLEAN
        /\ \A w \in VirtualPages : /\ Found(walk.tables, w) = Found(tables, w)
                                   /\ Open(tables, w) => Open(walk.tables, w)
    BY <1>1, <1>2, <1>5 DEF GoodWalk
  <2>4. IsTree(walk2.tables, level2) /\ DOMAIN walk2.tables = DOMAIN walk.tables
    BY <1>1, <2>2, <2>3, PlaceTree DEF SamePointers
  <2>5. Found(walk2.tables, v) = SetAddress(Found(tables, v), f)
    BY <2>2, <2>3, PlacePages
  <2>6. ASSUME NEW w \in VirtualPages
        PROVE  /\ w # v => Found(walk2.tables, w) = Found(tables, w)
               /\ Open(tables, w) => Open(walk2.tables, w)
    <3>1. /\ w # v => Found(Placed(walk.tables, v, f), w) = Found(walk.tables, w)
          /\ Open(walk.tables, w) => Open(Placed(walk.tables, v, f), w)
      BY <2>3, PlacePages
    <3> QED
      BY <2>2, <2>3, <3>1
  <2>7. IsMapping(walk2, tables, avail, v, f)
    BY <1>5, <2>2, <2>3, <2>4, <2>5, <2>6 DEF IsMapping
  <2> QED
    BY <2>1, <2>7
<1> QED
  BY <1>4, <1>5

-----------------------------------------------------------------------------
(***************************************************************************)
(* MapUserspaceMemory: only user bits change, and only from off to on.     *)
(***************************************************************************)
LEMMA Walks ==
    ASSUME NEW v
    PROVE  /\ TableAt3(v) = At3(tables, v) /\ TableAt2(v) = At2(tables, v)
           /\ TableAt1(v) = At1(tables, v)
BY DEF TableAt1, TableAt2, TableAt3, Below, At1, At2, At3, Follow

IsOpening(tabs, tabs2, pages) ==
    /\ \E level : IsTree(tabs2, level)
    /\ DOMAIN tabs2 = DOMAIN tabs
    /\ \A w \in VirtualPages :
         /\ Found(tabs2, w).present = Found(tabs, w).present
         /\ Found(tabs2, w).addr = Found(tabs, w).addr
         /\ Found(tabs, w).user => Found(tabs2, w).user
         /\ Open(tabs, w) \/ (w \in pages /\ Found(tabs, w).present) => Open(tabs2, w)

LEMMA MapUserspaceMemoryOpens ==
    ASSUME NEW level, IsTree(tables, level), NEW pages, MapUserspaceMemory(pages)
    PROVE  IsOpening(tables, tables', pages)
<1> DEFINE entries == UNION {Path(v) : v \in pages}
           tabs2 == tables'
<1>1. tabs2 = [t \in DOMAIN tables |-> [i \in Indexes |->
                 [tables[t][i] EXCEPT !.user = @ \/ <<t, i>> \in entries]]]
  BY DEF MapUserspaceMemory
<1>2. \A v \in pages : Path(v) \subseteq entries
  OBVIOUS
<1>3. /\ tables \in [DOMAIN tables -> [Indexes -> Entries]]
      /\ DOMAIN tables \subseteq Frames \ Locked
  BY DEF IsTree, Typed
<1> HIDE DEF tabs2, entries
<1>4. DOMAIN tabs2 = DOMAIN tables
  BY <1>1
<1>5. ASSUME NEW t \in DOMAIN tables, NEW i \in Indexes
      PROVE  /\ tabs2[t][i] \in Entries
             /\ tabs2[t][i].present = tables[t][i].present
             /\ tabs2[t][i].addr = tables[t][i].addr
             /\ tables[t][i].user \/ <<t, i>> \in entries => tabs2[t][i].user
  <2> DEFINE marked == <<t, i>> \in entries
             on == tables[t][i].user \/ marked
  <2>1. tables[t][i] \in Entries /\ on \in BOOLEAN
    BY <1>3, <1>5
  <2>2. tabs2[t][i] = [tables[t][i] EXCEPT !.user = on]
    BY <1>1, <1>5
  <2>3. on = (tables[t][i].user \/ <<t, i>> \in entries)
    OBVIOUS
  <2> HIDE DEF on, marked
  <2>4. /\ tabs2[t][i] \in Entries /\ tabs2[t][i].user = on
        /\ tabs2[t][i].present = tables[t][i].present /\ tabs2[t][i].addr = tables[t][i].addr
    BY <2>1, <2>2 DEF Entries
  <2> QED
    BY <2>3, <2>4
<1>6. Typed(tabs2)
  <2>1. \A t \in DOMAIN tables : tabs2[t] = [i \in Indexes |-> tabs2[t][i]]
    BY <1>1
  <2>2. \A t \in DOMAIN tables : tabs2[t] \in [Indexes -> Entries]
    BY <1>5, <2>1
  <2>3. tabs2 = [t \in DOMAIN tables |-> tabs2[t]]
    BY <1>1
  <2> QED
    BY <1>3, <1>4, <2>2, <2>3 DEF Typed
<1>7. SamePointers(tables, tabs2, level)
  BY <1>4, <1>5 DEF SamePointers
<1>8. IsTree(tabs2, level)
  BY <1>6, <1>7, PointersTree
<1>9. ASSUME NEW w \in VirtualPages
      PROVE  /\ Found(tabs2, w).present = Found(tables, w).present
             /\ Found(tabs2, w).addr = Found(tables, w).addr
             /\ Found(tables, w).user => Found(tabs2, w).user
             /\ Open(tables, w) \/ (w \in pages /\ Found(tables, w).present) => Open(tabs2, w)
  <2> DEFINE a1 == At1(tables, w)  a2 == At2(tables, w)  a3 == At3(tables, w)
  <2>1. w \in Nat
    BY PagesTyped
  <2>2. /\ At1(tabs2, w) = a1 /\ At2(tabs2, w) = a2 /\ At3(tabs2, w) = a3
    BY <1>7, <2>1, PointersPath
  <2>3. \A l \in 1 .. 4 : Index(w, l) \in Indexes
    BY <2>1, IndexTyped
  <2>4. /\ PML4 \in DOMAIN tables
        /\ a1 # NULL => a1 \in DOMAIN tables /\ a2 \in DOMAIN tables /\ a3 \in DOMAIN tables
    BY <2>1, PathDown
  <2> DEFINE i1 == Index(w, 1)  i2 == Index(w, 2)  i3 == Index(w, 3)  i4 == Index(w, 4)
  <2> HIDE DEF a1, a2, a3, i1, i2, i3, i4
  <2>5. i1 \in Indexes /\ i2 \in Indexes /\ i3 \in Indexes /\ i4 \in Indexes
    BY <2>3 DEF i1, i2, i3, i4
  <2>6. CASE a1 = NULL
    <3>1. Found(tabs2, w) = Found(tables, w) /\ ~Found(tables, w).present /\ ~Open(tables, w)
      BY <2>2, <2>6 DEF Found, Open, Absent, a1
    <3> QED
      BY <3>1
  <2>7. CASE a1 # NULL
    <3>1. Found(tables, w) = tables[a1][i1] /\ Found(tabs2, w) = tabs2[a1][i1]
      BY <2>2, <2>7 DEF Found, a1, i1
    <3>2. /\ Found(tabs2, w).present = Found(tables, w).present
          /\ Found(tabs2, w).addr = Found(tables, w).addr
          /\ Found(tables, w).user => Found(tabs2, w).user
      <4>1. a1 \in DOMAIN tables
        BY <2>4, <2>7
      <4>2. /\ tabs2[a1][i1].present = tables[a1][i1].present
            /\ tabs2[a1][i1].addr = tables[a1][i1].addr
            /\ tables[a1][i1].user => tabs2[a1][i1].user
        BY <1>5, <2>5, <4>1
      <4> QED
        BY <3>1, <4>2
    <3>3. ASSUME Open(tables, w) PROVE Open(tabs2, w)
      <4>1. /\ tables[a1][i1].present /\ tables[a1][i1].user /\ tables[a2][i2].user
            /\ tables[a3][i3].user /\ tables[PML4][i4].user
        BY <3>3 DEF Open, a1, a2, a3, i1, i2, i3, i4
      <4>2. /\ tabs2[a1][i1].present /\ tabs2[a1][i1].user /\ tabs2[a2][i2].user
            /\ tabs2[a3][i3].user /\ tabs2[PML4][i4].user
        BY <1>5, <2>4, <2>5, <2>7, <4>1
      <4> QED
        BY <2>2, <2>7, <4>2 DEF Open, i1, i2, i3, i4
    <3>4. ASSUME w \in pages, Found(tables, w).present PROVE Open(tabs2, w)
      <4>1. /\ <<PML4, i4>> \in entries /\ <<a3, i3>> \in entries
            /\ <<a2, i2>> \in entries /\ <<a1, i1>> \in entries
        BY <1>2, <3>4, Walks DEF Path, a1, a2, a3, i1, i2, i3, i4
      <4>2. /\ tabs2[a1][i1].present /\ tabs2[a1][i1].user /\ tabs2[a2][i2].user
            /\ tabs2[a3][i3].user /\ tabs2[PML4][i4].user
        BY <1>5, <2>4, <2>5, <2>7, <3>1, <3>4, <4>1
      <4> QED
        BY <2>2, <2>7, <4>2 DEF Open, i1, i2, i3, i4
    <3> QED
      BY <3>2, <3>3, <3>4
  <2> QED
    BY <2>6, <2>7
<1> QED
  BY <1>4, <1>8, <1>9 DEF IsOpening, tabs2

-----------------------------------------------------------------------------
(***************************************************************************)
(* The inductive invariant.  It says what the walks of MapMemory rely on:  *)
(* the tables are a tree of frames that the allocator has given away, and  *)
(* what every page of the kernel, of the heap and of userspace is mapped   *)
(* to.  A page is followed from the PML4, with Found, so that one lemma    *)
(* about a walk serves all of them.                                        *)
(***************************************************************************)
Kernel == Frames \cup {Framebuffer[i] : i \in 1 .. Len(Framebuffer)}

Waiting(v) == \E i \in 1 .. Len(toMap) : toMap[i] = v

Shape ==
    /\ \E level : IsTree(tables, level)
    /\ free \subseteq Frames \ Locked
    /\ free \cap DOMAIN tables = {}

Others ==
    /\ toMap \in Seq(Frames \cup Devices)
    /\ heapEnd \in HeapStart .. HeapStart + MaxHeapPages
    /\ given \subseteq VirtualPages
    /\ strayed \in BOOLEAN
    /\ panicked \in BOOLEAN

KernelMapped ==
    ~panicked => \A v \in Kernel :
      Waiting(v) \/ (Found(tables, v).present /\ Found(tables, v).addr = v)

HeapMapped ==
    ~panicked => \A v \in HeapPages :
      /\ Found(tables, v).present
      /\ Found(tables, v).addr \notin DOMAIN tables \cup free
      /\ \A w \in HeapPages : Found(tables, v).addr = Found(tables, w).addr => v = w

GivenOpen == \A v \in given : Open(tables, v)

IndInv == Shape /\ Others /\ KernelMapped /\ HeapMapped /\ GivenOpen

LEMMA KernelPages ==
    /\ Kernel \subseteq VirtualPages /\ Frames \subseteq Kernel
    /\ Kernel \subseteq Frames \cup Devices /\ Frames \cup Devices \subseteq VirtualPages
    /\ HeapArea \cap (Frames \cup Devices) = {}
BY PagesTyped, PageTablesAssumption DEF Kernel, Devices

LEMMA HeapPagesTyped ==
    ASSUME Others
    PROVE  /\ HeapPages \subseteq HeapArea /\ HeapPages \subseteq VirtualPages
           /\ HeapPages \cap (Frames \cup Devices) = {}
<1>1. HeapStart \in Nat /\ MaxHeapPages \in Nat
  BY PageTablesAssumption
<1>2. HeapPages \subseteq HeapArea
  BY <1>1 DEF Others, HeapPages, HeapArea
<1> QED
  BY <1>2, KernelPages, PagesTyped

(* A step of MapMemory.                                                    *)
Maps(avail, v, f) ==
    /\ Shape'
    /\ free' \subseteq avail
    /\ DOMAIN tables' \subseteq DOMAIN tables \cup avail
    /\ panicked' \in BOOLEAN
    /\ \A w \in VirtualPages :
         w # v \/ panicked' => Found(tables', w) = Found(tables, w)
    /\ ~panicked' => Found(tables', v) = SetAddress(Found(tables, v), f)

LEMMA MapStep ==
    ASSUME Shape, Others, GivenOpen, NEW v \in VirtualPages, NEW f \in VirtualPages,
           NEW avail, avail \subseteq free, TablesBecome(MapMemory(avail, v, f)), given' = given
    PROVE  Maps(avail, v, f) /\ GivenOpen'
<1> DEFINE walk == MapMemory(avail, v, f)
<1>1. PICK level : IsTree(tables, level)
  BY DEF Shape
<1>2. avail \in SUBSET (Frames \ Locked) /\ avail \cap DOMAIN tables = {}
  BY DEF Shape
<1>3. IsMapping(walk, tables, avail, v, f)
  BY <1>1, <1>2, MapMemoryMaps
<1>4. tables' = walk.tables /\ free' = walk.free /\ panicked' = walk.panicked
  BY DEF TablesBecome
<1> HIDE DEF walk
<1>5. Shape'
  BY <1>2, <1>3, <1>4 DEF Shape, IsMapping
<1>6. GivenOpen'
  BY <1>3, <1>4 DEF GivenOpen, Others, IsMapping
<1>7. Maps(avail, v, f)
  BY <1>3, <1>4, <1>5 DEF Maps, IsMapping
<1> QED
  BY <1>6, <1>7

(* A step of MapUserspaceMemory.                                           *)
Opens(pages) ==
    /\ \E level : IsTree(tables', level)
    /\ DOMAIN tables' = DOMAIN tables
    /\ \A w \in VirtualPages :
         /\ Found(tables', w).present = Found(tables, w).present
         /\ Found(tables', w).addr = Found(tables, w).addr
         /\ Found(tables, w).user => Found(tables', w).user
         /\ w \in pages /\ Found(tables, w).present => Open(tables', w)
         /\ Open(tables, w) => Open(tables', w)

LEMMA MappedHasTable ==
    ASSUME NEW v, Found(tables, v).present
    PROVE  TableAt1(v) # NULL
BY Walks DEF Found, Absent

(* Whatever is asked for is opened and no more, and the walk strays only   *)
(* for a page that is not mapped.                                          *)
LEMMA OpenStep ==
    ASSUME Shape, strayed \in BOOLEAN, NEW pages, MapUserspaceMemory(pages)
    PROVE  /\ Opens(pages)
           /\ (\A v \in pages : Found(tables, v).present) => strayed' = strayed
           /\ strayed' \in {strayed, TRUE}
<1>1. PICK level : IsTree(tables, level)
  BY DEF Shape
<1>2. IsOpening(tables, tables', pages)
  BY <1>1, MapUserspaceMemoryOpens
<1>3. Opens(pages)
  BY <1>2 DEF IsOpening, Opens
<1>4. strayed' = (strayed \/ \E v \in pages : TableAt1(v) = NULL)
  BY DEF MapUserspaceMemory
<1>5. ASSUME strayed' = strayed \/ strayed' = TRUE PROVE strayed' \in {strayed, TRUE}
  BY <1>5
<1>6. ASSUME strayed \in BOOLEAN PROVE strayed' = strayed \/ strayed' = TRUE
  BY <1>4
<1>7. ASSUME \A v \in pages : Found(tables, v).present PROVE strayed' = strayed
  BY <1>4, <1>7, MappedHasTable
<1> QED
  BY <1>3, <1>5, <1>6, <1>7

(* A page that is mapped is mapped to what was asked for, and the others   *)
(* stay as they were.                                                      *)
LEMMA MapsTo ==
    ASSUME Shape, NEW v \in VirtualPages, NEW f \in VirtualPages, NEW avail, Maps(avail, v, f),
           ~panicked'
    PROVE  /\ Found(tables', v).present /\ Found(tables', v).addr = f
           /\ Found(tables', v).user = Found(tables, v).user
<1>1. PICK level : IsTree(tables, level)
  BY DEF Shape
<1>2. Found(tables, v) \in Entries
  BY <1>1, FoundTyped
<1>3. Found(tables', v) = SetAddress(Found(tables, v), f)
  BY DEF Maps
<1> QED
  BY <1>2, <1>3, SetAddressTyped

LEMMA MapKeepsKernel ==
    ASSUME Shape, KernelMapped, ~panicked, NEW v \in VirtualPages, NEW f \in VirtualPages, NEW avail,
           Maps(avail, v, f), f = v \/ v \notin Kernel,
           \A u \in Kernel : u # v /\ Waiting(u) => Waiting(u)'
    PROVE  KernelMapped'
<1> SUFFICES ASSUME ~panicked', NEW u \in Kernel
             PROVE  \/ Waiting(u)'
                    \/ Found(tables', u).present /\ Found(tables', u).addr = u
  BY DEF KernelMapped, Kernel
<1>1. CASE u = v
  BY <1>1, MapsTo
<1>2. CASE u # v
  <2>1. Found(tables', u) = Found(tables, u)
    BY <1>2, KernelPages DEF Maps
  <2> QED
    BY <1>2, <2>1 DEF KernelMapped
<1> QED
  BY <1>1, <1>2

LEMMA MapKeepsHeap ==
    ASSUME HeapMapped, Others, ~panicked, NEW v \in VirtualPages, NEW f \in VirtualPages, NEW avail,
           avail \subseteq free, Maps(avail, v, f), v \notin HeapPages, heapEnd' = heapEnd
    PROVE  HeapMapped'
<1>1. HeapPages' = HeapPages /\ HeapPages \subseteq VirtualPages
  BY HeapPagesTyped DEF HeapPages
<1>2. \A w \in HeapPages : Found(tables', w) = Found(tables, w)
  BY <1>1 DEF Maps
<1>3. DOMAIN tables' \cup free' \subseteq DOMAIN tables \cup free
  BY DEF Maps
<1> QED
  BY <1>1, <1>2, <1>3 DEF HeapMapped

LEMMA EnablePagingInv ==
    ASSUME IndInv, EnablePaging PROVE IndInv'
<1> DEFINE v == Head(toMap)
<1>1. /\ toMap \in Seq(Frames \cup Devices) /\ toMap # <<>> /\ ~panicked
      /\ toMap' = Tail(toMap) /\ TablesBecome(MapMemory(free, v, v))
      /\ heapEnd' = heapEnd /\ given' = given /\ strayed' = strayed
  BY DEF IndInv, Others, EnablePaging
<1>2. v \in Frames \cup Devices /\ toMap' \in Seq(Frames \cup Devices)
  BY <1>1
<1>3. v \in VirtualPages
  BY <1>2, KernelPages
<1>4. Waiting(v) /\ \A u : u # v /\ Waiting(u) => Waiting(u)'
  <2>1. /\ Len(toMap) \in Nat /\ Len(toMap) > 0 /\ v = toMap[1]
        /\ Len(toMap') = Len(toMap) - 1
        /\ \A i \in 1 .. Len(toMap) - 1 : toMap'[i] = toMap[i + 1]
    BY <1>1
  <2> HIDE DEF v
  <2>2. ASSUME NEW u, u # v, Waiting(u) PROVE Waiting(u)'
    <3>1. PICK i \in 1 .. Len(toMap) : toMap[i] = u
      BY <2>2 DEF Waiting
    <3>2. i # 1 /\ i - 1 \in 1 .. Len(toMap) - 1 /\ (i - 1) + 1 = i
      BY <2>1, <2>2, <3>1
    <3>3. i - 1 \in 1 .. Len(toMap') /\ toMap'[i - 1] = u
      BY <2>1, <3>1, <3>2
    <3> QED
      BY <3>3 DEF Waiting
  <2> QED
    BY <2>1, <2>2 DEF Waiting
<1> HIDE DEF v
<1>5. Maps(free, v, v) /\ GivenOpen'
  BY <1>1, <1>3, MapStep DEF IndInv
<1>6. KernelMapped'
  BY <1>1, <1>3, <1>4, <1>5, MapKeepsKernel DEF IndInv
<1>7. HeapMapped'
  BY <1>1, <1>2, <1>3, <1>5, MapKeepsHeap, HeapPagesTyped DEF IndInv
<1>8. Others'
  BY <1>1, <1>2, <1>5 DEF IndInv, Others, Maps
<1> QED
  BY <1>5, <1>6, <1>7, <1>8 DEF IndInv, Maps

LEMMA MapDeviceInv ==
    ASSUME IndInv, NEW v \in PciPages, MapDevice(v) PROVE IndInv'
<1>1. /\ ~panicked /\ toMap' = toMap /\ TablesBecome(MapMemory(free, v, v))
      /\ heapEnd' = heapEnd /\ given' = given /\ strayed' = strayed
  BY DEF MapDevice, Running
<1>2. v \in VirtualPages /\ v \in Devices
  BY KernelPages DEF Devices
<1>3. Maps(free, v, v) /\ GivenOpen'
  BY <1>1, <1>2, MapStep DEF IndInv
<1>4. KernelMapped'
  BY <1>1, <1>2, <1>3, MapKeepsKernel DEF IndInv, Waiting
<1>5. HeapMapped'
  BY <1>1, <1>2, <1>3, MapKeepsHeap, HeapPagesTyped DEF IndInv
<1>6. Others'
  BY <1>1, <1>3 DEF IndInv, Others, Maps
<1> QED
  BY <1>3, <1>4, <1>5, <1>6 DEF IndInv, Maps

(* Nothing is promised after a panic but the shape of the tables.          *)
LEMMA PanicInv ==
    ASSUME IndInv, panicked' = TRUE, UNCHANGED <<tables, free, toMap, given, strayed>>,
           heapEnd' \in HeapStart .. HeapStart + MaxHeapPages
    PROVE  IndInv'
<1>1. Shape'
  BY DEF IndInv, Shape
<1>2. Others' /\ KernelMapped' /\ HeapMapped' /\ GivenOpen'
  BY DEF IndInv, Others, KernelMapped, HeapMapped, GivenOpen
<1> QED
  BY <1>1, <1>2 DEF IndInv

LEMMA GrowHeapInv ==
    ASSUME IndInv, GrowHeap PROVE IndInv'
<1> DEFINE v == heapEnd  f == Lowest(free)
<1>1. /\ ~panicked /\ toMap' = toMap /\ given' = given /\ strayed' = strayed
      /\ heapEnd' = heapEnd + 1 /\ heapEnd < HeapStart + MaxHeapPages
      /\ heapEnd \in HeapStart .. HeapStart + MaxHeapPages /\ HeapStart \in Nat
      /\ MaxHeapPages \in Nat
  BY PageTablesAssumption DEF GrowHeap, Running, IndInv, Others
<1>2. /\ heapEnd' \in HeapStart .. HeapStart + MaxHeapPages
      /\ v \in HeapArea /\ v \notin HeapPages
      /\ HeapPages' = HeapPages \cup {v}
  BY <1>1 DEF HeapPages, HeapArea
<1>3. CASE free = {}
  <2>1. panicked' = TRUE /\ tables' = tables /\ free' = free
    BY <1>3 DEF GrowHeap
  <2> QED
    BY <1>1, <1>2, <2>1, PanicInv
<1>4. CASE free # {}
  <2>1. f \in free /\ f \in Frames /\ f \notin DOMAIN tables /\ f \in VirtualPages
    BY <1>4, LowestIn, PagesTyped DEF IndInv, Shape
  <2>2. TablesBecome(MapMemory(free \ {f}, v, f))
    BY <1>4 DEF GrowHeap
  <2>3. v \in VirtualPages /\ v \notin Kernel
    BY <1>2, PagesTyped, KernelPages
  <2> HIDE DEF f
  <2>4. Maps(free \ {f}, v, f) /\ GivenOpen'
    BY <1>1, <2>1, <2>2, <2>3, MapStep DEF IndInv
  <2>5. KernelMapped'
    BY <1>1, <2>1, <2>3, <2>4, MapKeepsKernel DEF IndInv, Waiting
  <2>6. HeapMapped'
    <3> SUFFICES ASSUME ~panicked'
                 PROVE  \A w \in HeapPages \cup {v} :
                          /\ Found(tables', w).present
                          /\ Found(tables', w).addr \notin DOMAIN tables' \cup free'
                          /\ \A u \in HeapPages \cup {v} :
                               Found(tables', w).addr = Found(tables', u).addr => w = u
      BY <1>2 DEF HeapMapped
    <3>1. Found(tables', v).present /\ Found(tables', v).addr = f
      BY <2>1, <2>3, <2>4, MapsTo DEF IndInv
    <3>2. \A w \in HeapPages : Found(tables', w) = Found(tables, w)
      BY <1>2, <2>4, HeapPagesTyped DEF Maps, IndInv
    <3>3. /\ DOMAIN tables' \cup free' \subseteq DOMAIN tables \cup free
          /\ f \notin DOMAIN tables' \cup free'
      BY <2>1, <2>4 DEF Maps
    <3>4. \A w \in HeapPages :
            /\ Found(tables, w).present
            /\ Found(tables, w).addr \notin DOMAIN tables \cup free
            /\ \A u \in HeapPages : Found(tables, w).addr = Found(tables, u).addr => w = u
      BY <1>1 DEF IndInv, HeapMapped
    <3>5. \A w \in HeapPages : Found(tables', w).addr # f
      BY <2>1, <3>2, <3>4
    <3> HIDE DEF v
    <3> QED
      BY <3>1, <3>2, <3>3, <3>4, <3>5
  <2>7. Others'
    BY <1>1, <1>2, <2>4 DEF IndInv, Others, Maps
  <2> QED
    BY <2>4, <2>5, <2>6, <2>7 DEF IndInv, Maps
<1> QED
  BY <1>3, <1>4

(***************************************************************************)
(* Opening pages.  Every block lies in memory, all of which is mapped.     *)
(***************************************************************************)
LEMMA KernelIsMapped ==
    ASSUME KernelMapped, Running
    PROVE  \A v \in Kernel : Found(tables, v).present /\ Found(tables, v).addr = v
<1>1. \A v : ~Waiting(v)
  BY DEF Running, Waiting
<1> QED
  BY <1>1 DEF KernelMapped, Running

(* A block is free and starts below Reach, or there is none.               *)
LEMMA RequestPagesGrants ==
    ASSUME Shape, NEW count \in Nat \ {0}
    PROVE  /\ RequestPages(count) \in Nat
           /\ \/ RequestPages(count) = NULL
              \/ /\ RequestPages(count) < Reach
                 /\ Block(RequestPages(count), count) \subseteq free
<1>1. free \subseteq Nat /\ Reach \in Nat
  BY PageTablesAssumption, PagesTyped DEF Shape
<1>2. CASE RunsOf(count) = {}
  BY <1>2 DEF RequestPages, NULL
<1>3. CASE RunsOf(count) # {}
  <2>1. RunsOf(count) \subseteq Nat
    BY <1>1 DEF RunsOf
  <2>2. RequestPages(count) \in RunsOf(count)
    BY <1>3, <2>1, LowestIn DEF RequestPages
  <2> QED
    BY <2>1, <2>2 DEF RunsOf
<1> QED
  BY <1>2, <1>3

LEMMA OneFrame ==
    ASSUME Shape
    PROVE  RequestPages(1) \in Frames
<1>1. Memory \in Nat /\ 0 \in Frames /\ free \subseteq Frames /\ NULL = 0
  BY PageTablesAssumption DEF Shape, NULL
<1>2. RequestPages(1) \in Nat
      /\ (RequestPages(1) = NULL \/ Block(RequestPages(1), 1) \subseteq free)
  BY RequestPagesGrants
<1>3. RequestPages(1) \in Block(RequestPages(1), 1)
  BY <1>2 DEF Block
<1> QED
  BY <1>1, <1>2, <1>3

(* All of a block is memory.  So is the page after it, or after as many    *)
(* pages from NULL, when no block of that length below Reach could end     *)
(* with memory.                                                            *)
LEMMA RequestPagesInMemory ==
    ASSUME Shape, NEW count \in Nat \ {0}
    PROVE  /\ RequestPages(count) # NULL => Block(RequestPages(count), count) \subseteq Frames
           /\ Reach + count < Memory => Block(RequestPages(count), count + 1) \subseteq Frames
<1>1. /\ Memory \in Nat /\ Reach \in Nat /\ NULL = 0
      /\ Frames = 0 .. Memory - 1 /\ free \subseteq Frames
  BY PageTablesAssumption DEF Frames, Shape, NULL
<1> DEFINE base == RequestPages(count)
<1>2. base \in Nat /\ (base = NULL \/ (base < Reach /\ Block(base, count) \subseteq free))
  BY RequestPagesGrants
<1> HIDE DEF base
<1>3. base # NULL => Block(base, count) \subseteq Frames
  BY <1>1, <1>2
<1>4. Reach + count < Memory => Block(base, count + 1) \subseteq Frames
  BY <1>1, <1>2 DEF Block
<1> QED
  BY <1>3, <1>4 DEF base

LEMMA KernelBlocks ==
    ASSUME Shape, NEW count \in BlockSizes
    PROVE  Block(RequestPages(count), count) \subseteq Frames
<1>1. count \in Nat \ {0} /\ Reach + count < Memory
  BY PageTablesAssumption
<1>2. Block(RequestPages(count), count + 1) \subseteq Frames /\ RequestPages(count) \in Nat
  BY <1>1, RequestPagesInMemory, RequestPagesGrants
<1>3. Block(RequestPages(count), count) \subseteq Block(RequestPages(count), count + 1)
  BY <1>1, <1>2 DEF Block
<1> QED
  BY <1>2, <1>3

(* Opening pages keeps the invariant, of whatever pages, if what is given  *)
(* of them is mapped.                                                      *)
LEMMA OpeningInv ==
    ASSUME IndInv, Running, NEW pages, MapUserspaceMemory(pages),
           free' \subseteq free, UNCHANGED <<toMap, heapEnd, panicked>>,
           \A v \in given' : v \in given \/ ( /\ v \in pages /\ v \in VirtualPages
                                             /\ Found(tables, v).present )
    PROVE  IndInv'
<1>1. Opens(pages) /\ strayed' \in {strayed, TRUE}
  BY OpenStep DEF IndInv, Others
<1>2. Shape'
  BY <1>1 DEF IndInv, Shape, Opens
<1>3. Others'
  BY <1>1 DEF IndInv, Others
<1>4. KernelMapped'
  <2>1. \A v \in Kernel : Found(tables', v).present /\ Found(tables', v).addr = v
    BY <1>1, KernelIsMapped, KernelPages DEF IndInv, Opens
  <2> QED
    BY <2>1 DEF KernelMapped, Kernel
<1>5. HeapMapped'
  <2>1. HeapPages' = HeapPages /\ HeapPages \subseteq VirtualPages
    BY HeapPagesTyped DEF HeapPages, IndInv
  <2>2. \A w \in HeapPages : /\ Found(tables', w).present = Found(tables, w).present
                             /\ Found(tables', w).addr = Found(tables, w).addr
    BY <1>1, <2>1 DEF Opens
  <2>3. DOMAIN tables' \cup free' \subseteq DOMAIN tables \cup free
    BY <1>1 DEF Opens
  <2> QED
    BY <2>1, <2>2, <2>3 DEF IndInv, HeapMapped, Running
<1>6. GivenOpen'
  BY <1>1 DEF IndInv, Others, GivenOpen, Opens
<1> QED
  BY <1>2, <1>3, <1>4, <1>5, <1>6 DEF IndInv

LEMMA FramesMapped ==
    ASSUME IndInv, Running
    PROVE  \A v \in Frames : v \in VirtualPages /\ Found(tables, v).present
BY KernelIsMapped, KernelPages DEF IndInv

LEMMA EntryMapped ==
    ASSUME IndInv, Running, NEW entry \in Locked \cup HeapStart .. heapEnd - 1
    PROVE  entry \in VirtualPages /\ Found(tables, entry).present
<1>1. CASE entry \in Locked
  BY <1>1, FramesMapped, PageTablesAssumption
<1>2. CASE entry \in HeapStart .. heapEnd - 1
  BY <1>2, HeapPagesTyped DEF IndInv, HeapMapped, HeapPages, Running
<1> QED
  BY <1>1, <1>2

LEMMA AddTaskInv ==
    ASSUME IndInv, NEW entry \in Locked \cup HeapStart .. heapEnd - 1, AddTask(entry)
    PROVE  IndInv'
<1>1. entry \in VirtualPages /\ Found(tables, entry).present
  BY EntryMapped DEF AddTask
<1> QED
  BY <1>1, OpeningInv DEF AddTask

LEMMA SyscallOpenInv ==
    ASSUME IndInv, SyscallOpen PROVE IndInv'
<1>1. Running /\ toMap' = toMap /\ heapEnd' = heapEnd
  BY DEF SyscallOpen
<1>2. CASE free = {}
  <2>1. panicked' = TRUE /\ UNCHANGED <<tables, free, given, strayed>>
    BY <1>2 DEF SyscallOpen
  <2> QED
    BY <1>1, <2>1, PanicInv DEF IndInv, Others
<1>3. CASE free # {}
  <2> DEFINE descriptor == Lowest(free)
  <2>1. descriptor \in Frames
    BY <1>3, LowestIn, PagesTyped DEF IndInv, Shape
  <2>2. /\ free' = free \ {descriptor} /\ MapUserspaceMemory({descriptor})
        /\ given' = given \cup {descriptor} /\ panicked' = panicked
    BY <1>3 DEF SyscallOpen
  <2> HIDE DEF descriptor
  <2> QED
    BY <1>1, <2>1, <2>2, FramesMapped, OpeningInv
<1> QED
  BY <1>2, <1>3

LEMMA OpenPagesInv ==
    ASSUME IndInv, Running, NEW base, NEW count, NEW pages, OpenPages(base, count, pages),
           base # NULL => Block(base, count) \subseteq Frames
    PROVE  IndInv'
<1>1. /\ MapUserspaceMemory(pages) /\ free' \subseteq free
      /\ UNCHANGED <<toMap, heapEnd, panicked>>
  BY DEF OpenPages
<1>2. \A v \in given' : v \in given \/ (v \in pages /\ v \in Frames)
  BY DEF OpenPages
<1> QED
  BY <1>1, <1>2, FramesMapped, OpeningInv

LEMMA InitTerminalInv ==
    ASSUME IndInv, InitTerminal PROVE IndInv'
BY RequestPagesInMemory, OpenPagesInv DEF InitTerminal, IndInv

LEMMA BlockOpeningsInv ==
    ASSUME IndInv, NEW count \in BlockSizes \cup Requests,
           \/ GenerateUserspaceStack(count) \/ LLFSMap(count) \/ SyscallAllocateMemory(count)
    PROVE  IndInv'
<1> DEFINE base == RequestPages(count)
<1>1. base # NULL => Block(base, count) \subseteq Frames
  BY RequestPagesInMemory, PageTablesAssumption DEF IndInv
<1>2. Running /\ \E pages : OpenPages(base, count, pages)
  BY DEF GenerateUserspaceStack, LLFSMap, SyscallAllocateMemory
<1> HIDE DEF base
<1> QED
  BY <1>1, <1>2, OpenPagesInv

LEMMA InitInv == Init => IndInv
<1> SUFFICES ASSUME Init PROVE IndInv
  OBVIOUS
<1>1. /\ PML4 \in Frames \ Locked
      /\ tables = [t \in {PML4} |-> EmptyTable]
      /\ free = Frames \ (Locked \cup {PML4})
  BY Pml4Frame DEF Init
<1>2. EmptyTable \in [Indexes -> Entries] /\ \A i \in Indexes : ~EmptyTable[i].present
  BY PagesTyped DEF EmptyTable, Absent, Entries
<1>3. Shape
  <2> DEFINE level == [t \in {PML4} |-> 4]
  <2>1. /\ DOMAIN tables = {PML4} /\ tables[PML4] = EmptyTable /\ level[PML4] = 4
        /\ \A t \in DOMAIN tables, i \in Indexes : ~tables[t][i].present
    BY <1>1, <1>2
  <2>2. Typed(tables)
    BY <1>1, <1>2 DEF Typed
  <2>3. Levelled(tables, level)
    BY <2>1 DEF Levelled
  <2> HIDE DEF level
  <2>4. PointsDown(tables, level) /\ Unshared(tables, level) /\ Reached(tables, level)
    BY <2>1 DEF PointsDown, Unshared, Reached
  <2> QED
    BY <1>1, <2>2, <2>3, <2>4 DEF Shape, IsTree
<1>4. Others /\ \A v \in Kernel : Waiting(v)
  <2> DEFINE memory == [i \in 1 .. Memory |-> i - 1]
  <2>1. /\ Memory \in Nat /\ Framebuffer \in Seq(Nat) /\ Framebuffer \in Seq(Devices)
        /\ Len(Framebuffer) \in Nat
    <3>1. Framebuffer \in Seq(Nat) /\ Len(Framebuffer) \in Nat
      BY PageTablesAssumption
    <3>2. \A i \in 1 .. Len(Framebuffer) : Framebuffer[i] \in Devices
      BY DEF Devices
    <3> QED
      BY <3>1, <3>2, PageTablesAssumption, ElementOfSeq
  <2>2. memory \in Seq(Frames) /\ Len(memory) = Memory
        /\ \A i \in 1 .. Memory : memory[i] = i - 1
    BY <2>1 DEF Frames
  <2>3. toMap = memory \o Framebuffer
    BY DEF Init
  <2> HIDE DEF memory
  <2>4. toMap \in Seq(Frames \cup Devices)
    BY <2>1, <2>2, <2>3
  <2>5. /\ Len(toMap) = Memory + Len(Framebuffer)
        /\ \A i \in 1 .. Memory : toMap[i] = i - 1
        /\ \A i \in 1 .. Len(Framebuffer) : toMap[Memory + i] = Framebuffer[i]
    <3>1. Len(toMap) = Memory + Len(Framebuffer)
      BY <2>1, <2>2, <2>3
    <3>2. \A i \in 1 .. Memory + Len(Framebuffer) :
            toMap[i] = IF i <= Memory THEN memory[i] ELSE Framebuffer[i - Memory]
      BY <2>1, <2>2, <2>3
    <3>3. \A i \in 1 .. Memory : toMap[i] = i - 1
      BY <2>1, <2>2, <3>2
    <3>4. ASSUME NEW i \in 1 .. Len(Framebuffer) PROVE toMap[Memory + i] = Framebuffer[i]
      <4>1. Memory + i \in 1 .. Memory + Len(Framebuffer) /\ ~(Memory + i <= Memory)
            /\ (Memory + i) - Memory = i
        BY <2>1
      <4> QED
        BY <3>2, <4>1
    <3> QED
      BY <3>1, <3>3, <3>4
  <2>6. \A v \in Frames : Waiting(v)
    <3> SUFFICES ASSUME NEW v \in Frames PROVE Waiting(v)
      OBVIOUS
    <3>1. v + 1 \in 1 .. Memory /\ v + 1 \in 1 .. Len(toMap) /\ (v + 1) - 1 = v
      BY <2>1, <2>5 DEF Frames
    <3> QED
      BY <2>5, <3>1 DEF Waiting
  <2>7. \A i \in 1 .. Len(Framebuffer) : Waiting(Framebuffer[i])
    <3> SUFFICES ASSUME NEW i \in 1 .. Len(Framebuffer) PROVE Waiting(Framebuffer[i])
      OBVIOUS
    <3>1. Memory + i \in 1 .. Len(toMap)
      BY <2>1, <2>5
    <3> QED
      BY <2>5, <3>1 DEF Waiting
  <2>8. heapEnd \in HeapStart .. HeapStart + MaxHeapPages
    BY PageTablesAssumption DEF Init
  <2> QED
    BY <2>4, <2>6, <2>7, <2>8 DEF Others, Init, Kernel
<1>5. KernelMapped
  BY <1>4 DEF KernelMapped
<1>6. HeapPages = {}
  BY PageTablesAssumption DEF HeapPages, Init
<1>7. HeapMapped /\ GivenOpen
  BY <1>6 DEF HeapMapped, GivenOpen, Init
<1> QED
  BY <1>3, <1>4, <1>5, <1>7 DEF IndInv

LEMMA NextInv == IndInv /\ [Next]_vars => IndInv'
<1> SUFFICES ASSUME IndInv, [Next]_vars PROVE IndInv'
  OBVIOUS
<1>1. CASE EnablePaging
  BY <1>1, EnablePagingInv
<1>2. CASE GrowHeap
  BY <1>2, GrowHeapInv
<1>3. CASE \E v \in PciPages : MapDevice(v)
  BY <1>3, MapDeviceInv
<1>4. CASE \E v \in Locked \cup HeapStart .. heapEnd - 1 : AddTask(v)
  BY <1>4, AddTaskInv
<1>5. CASE SyscallOpen
  BY <1>5, SyscallOpenInv
<1>6. CASE InitTerminal
  BY <1>6, InitTerminalInv
<1>7. CASE \E count \in BlockSizes \cup Requests :
             \/ GenerateUserspaceStack(count) \/ LLFSMap(count)
             \/ SyscallAllocateMemory(count)
  BY <1>7, BlockOpeningsInv
<1>8. CASE UNCHANGED vars
  <2>1. Shape' /\ Others'
    BY <1>8 DEF IndInv, Shape, Others, vars
  <2>2. KernelMapped' /\ HeapMapped' /\ GivenOpen'
    BY <1>8 DEF IndInv, KernelMapped, Kernel, Waiting, HeapMapped, HeapPages, GivenOpen, vars
  <2> QED
    BY <2>1, <2>2 DEF IndInv
<1> QED
  BY <1>1, <1>2, <1>3, <1>4, <1>5, <1>6, <1>7, <1>8 DEF Next

LEMMA Invariant == Spec => []IndInv
BY InitInv, NextInv, PTL DEF Spec

-----------------------------------------------------------------------------
(***************************************************************************)
(* What the invariant says of the properties that TLC checks.              *)
(***************************************************************************)
LEMMA Shown ==
    ASSUME NEW v
    PROVE  /\ Mapped(v) <=> Found(tables, v).present
           /\ Found(tables, v).present => FrameOf(v) = Found(tables, v).addr
           /\ IsUser(v) <=> Found(tables, v).user
<1>1. TableAt1(v) = At1(tables, v)
  BY Walks
<1>2. CASE At1(tables, v) = NULL
  <2>1. ~Found(tables, v).present /\ ~Found(tables, v).user
    BY <1>2 DEF Found, Absent
  <2> QED
    BY <1>1, <1>2, <2>1 DEF Mapped, IsUser
<1>3. CASE At1(tables, v) # NULL
  BY <1>1, <1>3 DEF Mapped, FrameOf, IsUser, Found
<1> QED
  BY <1>2, <1>3

(* The variables keep their types, and no frame that was taken when paging *)
(* was set up becomes a table.                                             *)
THEOREM TypeCorrect == Spec => []TypeOK
<1>1. IndInv => TypeOK
  <2> SUFFICES ASSUME IndInv PROVE TypeOK
    OBVIOUS
  <2>1. PICK level : IsTree(tables, level)
    BY DEF IndInv, Shape
  <2>2. /\ DOMAIN tables \subseteq Frames \ Locked
        /\ \A t \in DOMAIN tables, i \in Indexes : tables[t][i] \in Entries
    BY <2>1 DEF IsTree, Typed
  <2>3. /\ free \subseteq Frames \ Locked /\ toMap \in Seq(Frames \cup Devices)
        /\ heapEnd \in HeapStart .. HeapStart + MaxHeapPages
        /\ given \subseteq VirtualPages /\ strayed \in BOOLEAN /\ panicked \in BOOLEAN
    BY DEF IndInv, Shape, Others
  <2>4. toMap \in Seq(Nat)
    <3>1. Frames \cup Devices \subseteq Nat
      BY KernelPages, PagesTyped
    <3>2. Seq(Frames \cup Devices) \subseteq Seq(Nat)
      BY <3>1, SeqMonotonic
    <3> QED
      BY <2>3, <3>2
  <2>5. \A t \in DOMAIN tables, i \in Indexes :
          /\ tables[t][i].present \in BOOLEAN /\ tables[t][i].user \in BOOLEAN
          /\ tables[t][i].addr \in VirtualPages
    BY <2>2 DEF Entries
  <2> QED
    BY <2>2, <2>3, <2>4, <2>5 DEF TypeOK
<1> QED
  BY <1>1, Invariant, PTL

(* Memory and framebuffer are mapped one to one from the load of cr3 on,   *)
(* whatever the heap, the PCI scan and the openings do to the tables.      *)
THEOREM KernelIsKept == Spec => []KernelStaysMapped
<1>1. IndInv => KernelStaysMapped
  <2> SUFFICES ASSUME IndInv, Running, NEW v \in Kernel PROVE Mapped(v) /\ FrameOf(v) = v
    BY DEF KernelStaysMapped, Kernel
  <2>1. Found(tables, v).present /\ Found(tables, v).addr = v
    BY KernelIsMapped DEF IndInv
  <2> QED
    BY <2>1, Shown
<1> QED
  BY <1>1, Invariant, PTL

(* The frame of a heap page never becomes a table, is not handed out again *)
(* and is no other heap page's.                                            *)
THEOREM HeapIsPrivate == Spec => []HeapFramesPrivate
<1>1. IndInv => HeapFramesPrivate
  <2> SUFFICES ASSUME IndInv, ~panicked, NEW v \in HeapPages
               PROVE  /\ Mapped(v) /\ FrameOf(v) \notin DOMAIN tables \cup free
                      /\ \A w \in HeapPages : FrameOf(v) = FrameOf(w) => v = w
    BY DEF HeapFramesPrivate
  <2>1. \A w \in HeapPages :
          /\ Found(tables, w).present
          /\ Found(tables, w).addr \notin DOMAIN tables \cup free
          /\ \A u \in HeapPages : Found(tables, w).addr = Found(tables, u).addr => w = u
    BY DEF IndInv, HeapMapped
  <2>2. \A w \in HeapPages : Mapped(w) /\ FrameOf(w) = Found(tables, w).addr
    BY <2>1, Shown
  <2> QED
    BY <2>1, <2>2
<1> QED
  BY <1>1, Invariant, PTL

(* What was opened for userspace stays open, on every level of the way,    *)
(* and stays mapped: no later mapping or opening takes a bit back.         *)
THEOREM GivenStayUsable == Spec => []GivenPagesUsable
<1>1. IndInv => GivenPagesUsable
  <2> SUFFICES ASSUME IndInv, NEW v \in given
               PROVE  Mapped(v) /\ \A e \in Path(v) : tables[e[1]][e[2]].user
    BY DEF GivenPagesUsable
  <2>1. Open(tables, v)
    BY DEF IndInv, GivenOpen
  <2>2. Mapped(v)
    BY <2>1, Walks DEF Open, Mapped
  <2>3. ASSUME NEW e \in Path(v) PROVE tables[e[1]][e[2]].user
    <3>1. \/ e = <<PML4, Index(v, 4)>> \/ e = <<At3(tables, v), Index(v, 3)>>
          \/ e = <<At2(tables, v), Index(v, 2)>> \/ e = <<At1(tables, v), Index(v, 1)>>
      BY Walks DEF Path
    <3> QED
      BY <2>1, <3>1 DEF Open
  <2> QED
    BY <2>2, <2>3
<1> QED
  BY <1>1, Invariant, PTL

(* MapUserspaceMemory looks at no Present bit, and finds every table it    *)
(* goes through all the same, but for a program that asks for so much that *)
(* a block below Reach could end with the last frame: a smaller request    *)
(* does not stray, granted or refused, in whatever state of the tables.    *)
THEOREM HugeRequestsStray == Spec => StraysOnlyOnHugeRequest
<1> DEFINE Huge == \E count \in Requests : /\ Reach + count >= Memory
                                           /\ SyscallAllocateMemory(count)
<1>1. ASSUME IndInv, Next, ~strayed, strayed' PROVE Huge
  <2>1. Shape /\ strayed \in BOOLEAN
    BY <1>1 DEF IndInv, Others
  <2>2. ASSUME Running, NEW pages, MapUserspaceMemory(pages),
               \A v \in pages : Found(tables, v).present
        PROVE  FALSE
    BY <1>1, <2>1, <2>2, OpenStep
  <2>3. ASSUME Running, NEW pages, MapUserspaceMemory(pages), pages \subseteq Frames
        PROVE  FALSE
    BY <1>1, <2>2, <2>3, FramesMapped
  <2>4. ~(EnablePaging \/ GrowHeap \/ \E v \in PciPages : MapDevice(v))
    BY <1>1 DEF EnablePaging, GrowHeap, MapDevice
  <2>5. ASSUME NEW v \in Locked \cup HeapStart .. heapEnd - 1, AddTask(v) PROVE FALSE
    BY <1>1, <2>2, <2>5, EntryMapped DEF AddTask
  <2>6. ~SyscallOpen
    <3> SUFFICES ASSUME SyscallOpen PROVE FALSE
      OBVIOUS
    <3>1. free # {} /\ Running /\ MapUserspaceMemory({Lowest(free)})
      BY <1>1 DEF SyscallOpen
    <3>2. Lowest(free) \in Frames
      BY <2>1, <3>1, LowestIn, PagesTyped DEF Shape
    <3> QED
      BY <2>3, <3>1, <3>2
  <2>7. ~InitTerminal
    BY <2>1, <2>3, OneFrame DEF InitTerminal, OpenPages
  <2>8. ASSUME NEW count \in BlockSizes, GenerateUserspaceStack(count) \/ LLFSMap(count)
        PROVE  FALSE
    BY <2>1, <2>3, <2>8, KernelBlocks DEF GenerateUserspaceStack, LLFSMap, OpenPages
  <2>9. ASSUME NEW count \in Requests, SyscallAllocateMemory(count)
        PROVE  Reach + count >= Memory
    <3> SUFFICES ASSUME ~(Reach + count >= Memory) PROVE FALSE
      OBVIOUS
    <3>1. count \in Nat \ {0} /\ Reach + count < Memory
      BY PageTablesAssumption
    <3> QED
      BY <2>1, <2>3, <2>9, <3>1, RequestPagesInMemory
         DEF SyscallAllocateMemory, OpenPages
  <2>10. \E count \in Requests : SyscallAllocateMemory(count)
    BY <1>1, <2>4, <2>5, <2>6, <2>7, <2>8 DEF Next
  <2> QED
    BY <2>9, <2>10
<1>2. IndInv /\ [Next]_vars => [strayed' => strayed \/ Huge]_vars
  BY <1>1
<1> QED
  BY <1>2, Invariant, PTL DEF Spec, StraysOnlyOnHugeRequest

(* The tables of a level are those that the entries of the level above     *)
(* point at.                                                               *)
TablesOf(tabs, level, l) == {t \in DOMAIN tabs : level[t] = l}

LEMMA LevelBelow ==
    ASSUME NEW level, IsTree(tables, level), NEW l \in 2 .. 4
    PROVE  UNION {TablesUnder(t) : t \in TablesOf(tables, level, l)}
             = TablesOf(tables, level, l - 1)
<1>1. ASSUME NEW t \in TablesOf(tables, level, l), NEW x \in TablesUnder(t)
      PROVE  x \in TablesOf(tables, level, l - 1)
  <2>1. t \in DOMAIN tables /\ level[t] = l /\ level[t] > 1
    BY DEF TablesOf
  <2>2. PICK i \in Indexes : tables[t][i].present /\ x = tables[t][i].addr
    BY DEF TablesUnder
  <2> QED
    BY <2>1, <2>2 DEF TablesOf, IsTree, PointsDown
<1>2. ASSUME NEW x \in TablesOf(tables, level, l - 1)
      PROVE  \E t \in TablesOf(tables, level, l) : x \in TablesUnder(t)
  <2>1. x \in DOMAIN tables /\ level[x] = l - 1 /\ l - 1 # 4
    BY DEF TablesOf
  <2>2. x # PML4
    BY <2>1 DEF IsTree, Levelled
  <2>3. PICK s \in DOMAIN tables, i \in Indexes :
          level[s] > 1 /\ tables[s][i].present /\ tables[s][i].addr = x
    BY <2>1, <2>2 DEF IsTree, Reached
  <2>4. level[s] \in 1 .. 4 /\ level[x] = level[s] - 1
    BY <2>3 DEF IsTree, PointsDown, Levelled
  <2>5. s \in TablesOf(tables, level, l)
    BY <2>1, <2>3, <2>4 DEF TablesOf
  <2>6. x \in TablesUnder(s)
    BY <2>3 DEF TablesUnder
  <2> QED
    BY <2>5, <2>6
<1> QED
  BY <1>1, <1>2

(* No frame is a table twice, or both a table and free: whatever order the *)
(* walks of MapMemory take frames in, the tables are a tree.               *)
THEOREM TablesAreTree == Spec => []TablesFormTree
<1>1. IndInv => TablesFormTree
  <2> SUFFICES ASSUME IndInv PROVE TablesFormTree
    OBVIOUS
  <2>1. PICK level : IsTree(tables, level)
    BY DEF IndInv, Shape
  <2> DEFINE threes == TablesUnder(PML4)
             twos == UNION {TablesUnder(t) : t \in threes}
             ones == UNION {TablesUnder(t) : t \in twos}
             upper == {PML4} \cup threes \cup twos
  <2>2. TablesOf(tables, level, 4) = {PML4}
    BY <2>1 DEF TablesOf, IsTree, Levelled
  <2>3. threes = UNION {TablesUnder(t) : t \in {PML4}}
    OBVIOUS
  <2>4. threes = TablesOf(tables, level, 3)
    BY <2>1, <2>2, <2>3, LevelBelow
  <2> HIDE DEF threes
  <2>5. twos = TablesOf(tables, level, 2)
    BY <2>1, <2>4, LevelBelow
  <2> HIDE DEF twos
  <2>6. ones = TablesOf(tables, level, 1)
    BY <2>1, <2>5, LevelBelow
  <2> HIDE DEF ones
  <2>7. \A t \in DOMAIN tables : level[t] \in 1 .. 4 /\ (level[t] = 4 <=> t = PML4)
    BY <2>1 DEF IsTree, Levelled
  <2>8. PML4 \in DOMAIN tables
    BY <2>1 DEF IsTree, Levelled
  <2>9. /\ DOMAIN tables = upper \cup ones
        /\ threes \cap twos = {} /\ (threes \cup twos) \cap ones = {}
        /\ PML4 \notin threes \cup twos \cup ones
    BY <2>4, <2>5, <2>6, <2>7, <2>8 DEF TablesOf
  <2>10. \A t \in upper : t \in DOMAIN tables /\ level[t] > 1
    BY <2>4, <2>5, <2>7, <2>8 DEF TablesOf
  <2>11. \A t \in upper, s \in upper : \A i \in Indexes, j \in Indexes :
           /\ tables[t][i].present /\ tables[s][j].present
           /\ tables[t][i].addr = tables[s][j].addr
           => t = s /\ i = j
    BY <2>1, <2>10 DEF IsTree, Unshared
  <2>12. DOMAIN tables \cap free = {}
    BY DEF IndInv, Shape
  <2> QED
    BY <2>9, <2>11, <2>12 DEF TablesFormTree, threes, twos, ones
<1> QED
  BY <1>1, Invariant, PTL

-----------------------------------------------------------------------------
(***************************************************************************)
(* The tables implement the abstract address space: what a page is mapped  *)
(* to and who may use it is all that a walk finds for it.                  *)
(***************************************************************************)
FrameMap == [v \in VirtualPages |-> IF Mapped(v) THEN FrameOf(v) ELSE NoFrame]
Users == {v \in VirtualPages : IsUser(v)}

FrameFound(tabs, v) == IF Found(tabs, v).present THEN Found(tabs, v).addr ELSE NoFrame

LEMMA FrameMapFound ==
    /\ FrameMap = [v \in VirtualPages |-> FrameFound(tables, v)]
    /\ Users = {v \in VirtualPages : Found(tables, v).user}
<1>1. \A v \in VirtualPages :
        /\ (IF Mapped(v) THEN FrameOf(v) ELSE NoFrame) = FrameFound(tables, v)
        /\ IsUser(v) <=> Found(tables, v).user
  BY Shown DEF FrameFound
<1> QED
  BY <1>1 DEF FrameMap, Users

LEMMA FrameMapFoundNext ==
    /\ FrameMap' = [v \in VirtualPages |-> FrameFound(tables', v)]
    /\ Users' = {v \in VirtualPages : Found(tables', v).user}
<1>1. (/\ FrameMap = [v \in VirtualPages |-> FrameFound(tables, v)]
       /\ Users = {v \in VirtualPages : Found(tables, v).user})'
  BY FrameMapFound, PTL
<1> QED
  BY <1>1

LEMMA InitAbstract == Init => Abstract!Init
<1> SUFFICES ASSUME Init PROVE Abstract!Init
  OBVIOUS
<1>1. /\ PML4 # NULL /\ PML4 \in {PML4} /\ EmptyTable = [i \in Indexes |-> Absent]
      /\ tables = [t \in {PML4} |-> EmptyTable]
  BY Pml4Frame DEF Init, EmptyTable
<1>2. ASSUME NEW v \in VirtualPages
      PROVE  ~Found(tables, v).present /\ ~Found(tables, v).user
  <2>1. Index(v, 4) \in Indexes
    BY IndexTyped, PagesTyped
  <2>2. ~tables[PML4][Index(v, 4)].present
    BY <1>1, <2>1 DEF Absent
  <2>3. At3(tables, v) = NULL
    BY <2>2 DEF At3, Follow
  <2>4. At1(tables, v) = NULL
    BY <2>3 DEF At2, At1, Follow
  <2> QED
    BY <2>4 DEF Found, Absent
<1>3. FrameMap = [v \in VirtualPages |-> NoFrame]
  BY <1>2, FrameMapFound DEF FrameFound
<1>4. Users = {}
  BY <1>2, FrameMapFound
<1> QED
  BY <1>3, <1>4 DEF Abstract!Init, FrameMap, Users

LEMMA MapsAbstract ==
    ASSUME Shape, NEW v \in VirtualPages, NEW f \in Frames \cup Devices, NEW avail,
           Maps(avail, v, f)
    PROVE  Abstract!Next \/ UNCHANGED <<FrameMap, Users>>
<1>1. f \in VirtualPages
  BY KernelPages
<1>2. \A w \in VirtualPages : w # v => Found(tables', w) = Found(tables, w)
  BY DEF Maps
<1>3. CASE panicked'
  <2>1. \A w \in VirtualPages : Found(tables', w) = Found(tables, w)
    BY <1>3 DEF Maps
  <2> QED
    BY <2>1, FrameMapFound, FrameMapFoundNext DEF FrameFound
<1>4. CASE ~panicked'
  <2>1. /\ Found(tables', v).present /\ Found(tables', v).addr = f
        /\ Found(tables', v).user = Found(tables, v).user
    BY <1>1, <1>4, MapsTo
  <2>2. Users' = Users
    BY <1>2, <2>1, FrameMapFound, FrameMapFoundNext
  <2>3. \A w \in VirtualPages :
          FrameFound(tables', w) = IF w = v THEN f ELSE FrameFound(tables, w)
    BY <1>2, <2>1 DEF FrameFound
  <2>4. FrameMap' = [FrameMap EXCEPT ![v] = f] /\ FrameMap'[v] = f
    BY <2>3, FrameMapFound, FrameMapFoundNext
  <2>5. CASE FrameMap[v] = f
    <3>1. FrameMap' = FrameMap
      BY <2>4, <2>5, FrameMapFound
    <3> QED
      BY <2>2, <3>1
  <2>6. CASE FrameMap[v] # f
    <3>1. Abstract!Map(v)
      BY <2>2, <2>4, <2>6 DEF Abstract!Map, FrameMap, Users
    <3> QED
      BY <3>1 DEF Abstract!Next
  <2> QED
    BY <2>5, <2>6
<1> QED
  BY <1>3, <1>4

LEMMA OpensAbstract ==
    ASSUME NEW pages, Opens(pages)
    PROVE  Abstract!Next
<1>1. \A w \in VirtualPages : FrameFound(tables', w) = FrameFound(tables, w)
  BY DEF Opens, FrameFound
<1>2. FrameMap' = FrameMap
  BY <1>1, FrameMapFound, FrameMapFoundNext
<1>3. Users \subseteq Users' /\ Users' \subseteq VirtualPages
  BY FrameMapFound, FrameMapFoundNext DEF Opens
<1>4. Abstract!Open
  BY <1>2, <1>3 DEF Abstract!Open, FrameMap, Users
<1> QED
  BY <1>4 DEF Abstract!Next

(* Each step of the kernel maps one page or opens some: whatever tables a  *)
(* walk makes on its way, no other page moves or is opened or closed.      *)
THEOREM IsAddressSpace == Spec => ImplementsAddressSpace
<1>1. ASSUME IndInv, Next PROVE Abstract!Next \/ UNCHANGED <<FrameMap, Users>>
  <2>1. Shape /\ Others /\ GivenOpen /\ strayed \in BOOLEAN
    BY <1>1 DEF IndInv, Others
  <2>2. ASSUME NEW pages, MapUserspaceMemory(pages) PROVE Abstract!Next
    BY <2>1, <2>2, OpenStep, OpensAbstract
  <2>4. ASSUME UNCHANGED tables PROVE UNCHANGED <<FrameMap, Users>>
    BY <2>4, FrameMapFound, FrameMapFoundNext
  <2>5. CASE EnablePaging
    <3>1. Head(toMap) \in Frames \cup Devices
      BY <2>1, <2>5 DEF Others, EnablePaging
    <3>2. Maps(free, Head(toMap), Head(toMap))
      BY <2>1, <2>5, <3>1, KernelPages, MapStep DEF EnablePaging
    <3> QED
      BY <2>1, <3>1, <3>2, KernelPages, MapsAbstract
  <2>6. CASE GrowHeap
    <3>1. CASE free = {}
      BY <2>4, <2>6, <3>1 DEF GrowHeap
    <3>2. CASE free # {}
      <4>1. Lowest(free) \in Frames /\ Lowest(free) \in VirtualPages
        BY <2>1, <3>2, LowestIn, PagesTyped DEF Shape
      <4>2. heapEnd \in VirtualPages
        BY <2>1, <2>6, PageTablesAssumption, PagesTyped DEF Others, GrowHeap, HeapArea
      <4>3. Maps(free \ {Lowest(free)}, heapEnd, Lowest(free))
        BY <2>1, <2>6, <3>2, <4>1, <4>2, MapStep DEF GrowHeap
      <4> QED
        BY <2>1, <4>1, <4>2, <4>3, MapsAbstract
    <3> QED
      BY <3>1, <3>2
  <2>7. ASSUME NEW v \in PciPages, MapDevice(v)
        PROVE  Abstract!Next \/ UNCHANGED <<FrameMap, Users>>
    <3>1. v \in Frames \cup Devices
      BY DEF Devices
    <3>2. Maps(free, v, v)
      BY <2>1, <2>7, <3>1, KernelPages, MapStep DEF MapDevice
    <3> QED
      BY <2>1, <3>1, <3>2, KernelPages, MapsAbstract
  <2>8. ASSUME NEW v, AddTask(v) PROVE Abstract!Next
    BY <2>2, <2>8 DEF AddTask
  <2>9. CASE SyscallOpen
    BY <2>2, <2>4, <2>9 DEF SyscallOpen
  <2>10. CASE InitTerminal
    BY <2>2, <2>10 DEF InitTerminal, OpenPages
  <2>11. ASSUME NEW count,
                \/ GenerateUserspaceStack(count) \/ LLFSMap(count) \/ SyscallAllocateMemory(count)
         PROVE  Abstract!Next
    BY <2>2, <2>11
       DEF GenerateUserspaceStack, LLFSMap, SyscallAllocateMemory, OpenPages
  <2> QED
    BY <1>1, <2>5, <2>6, <2>7, <2>8, <2>9, <2>10, <2>11 DEF Next
<1>2. ASSUME UNCHANGED vars PROVE UNCHANGED <<FrameMap, Users>>
  BY <1>2, FrameMapFound, FrameMapFoundNext DEF vars
<1>3. IndInv /\ [Next]_vars => [Abstract!Next]_<<FrameMap, Users>>
  BY <1>1, <1>2
<1> QED
  BY <1>3, InitAbstract, Invariant, PTL
     DEF Spec, ImplementsAddressSpace, Abstract!Spec, FrameMap, Users
=============================================================================
