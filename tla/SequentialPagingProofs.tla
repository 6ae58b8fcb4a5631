----------------------- MODULE SequentialPagingProofs -----------------------
(***************************************************************************)
(* What NestedPaging owes to its callers when one thread at a time has the *)
(* file of a vm, which is how the emulator uses the driver: no page is     *)
(* lost, user space sees the memory of the guest, a page once given to the *)
(* guest stays, and the tables implement the memory of GuestMemory.  Run   *)
(* npt_lost_page shows what becomes of this with two threads in a vm.      *)
(*                                                                         *)
(* Proved for any number of vms, pages and frames, for tables of any size  *)
(* and for every allocator, on top of the invariants that need no such     *)
(* assumption (module NestedPagingProofs).                                 *)
(***************************************************************************)
EXTENDS NestedPagingProofs

-----------------------------------------------------------------------------
(* The inductive invariant.                                                 *)

(* No vm has two threads: the assumption of this module.                    *)
SoleThreads == \A m \in Vmms : \A t, u \in ThreadsOf[m] : t = u

(* The table of each level on the way of the processor to a frame, for      *)
(* entries that are given as a value, and at level 0 the page behind it;    *)
(* NULL below an entry that is not present.                                 *)
HopIn(e, p, g, level) ==
  IF p # NULL /\ e[p][table_index(g, level)].present
    THEN e[p][table_index(g, level)].page
    ELSE NULL
Reach3(e, r, g) == HopIn(e, r, g, PML4T)
Reach2(e, r, g) == HopIn(e, Reach3(e, r, g), g, PDPT)
Reach1(e, r, g) == HopIn(e, Reach2(e, r, g), g, PDT)
Reach0(e, r, g) == HopIn(e, Reach1(e, r, g), g, PT)
Reach(e, r, g, level) ==
  CASE level = 4 -> r
    [] level = 3 -> Reach3(e, r, g)
    [] level = 2 -> Reach2(e, r, g)
    [] level = 1 -> Reach1(e, r, g)
    [] level = 0 -> Reach0(e, r, g)

(* A walk is where the processor would be: on the table that the entries    *)
(* above lead to; the entry it found missing still is; and the page it has  *)
(* found is behind its frame.                                               *)
WalkReached(t) ==
  LET R(l) == Reach(entrys, ncr3[walk[t].vmm], walk[t].gfn, l)
  IN /\ walk[t].table = R(walk[t].level)
     /\ walk[t].at = "alloc" => WalkEntry(t) = NoEntry
     /\ walk[t].at = "done" => walk[t].level = PT /\ walk[t].page = R(0)

(* In a vm that is being created there is no memory but the page for the    *)
(* mmio frame that the walk of its creator ends with.                       *)
NoMemoryYet(t) ==
  \A p \in Tree(ncr3[walk[t].vmm]), i \in Index :
    role[p] = PT /\ entrys[p][i] # NoEntry =>
      /\ walk[t].at = "done"
      /\ p = walk[t].table
      /\ i = table_index(walk[t].gfn, walk[t].level)

(* A thread walks for a vm of its own.                                      *)
WalkOK(t) ==
  /\ t \in ThreadsOf[walk[t].vmm]
  /\ WalkReached(t)
  /\ walk[t].caller = "create" => NoMemoryYet(t)

SeqInv ==
  /\ SoleThreads
  /\ \A t \in Threads : Inside(t) => WalkOK(t)
  /\ NoPageLeak

(* For user mappings that start at the first page of the file: nothing is   *)
(* mapped of a vm that does not exist, and what is mapped is the guest's.   *)
UserInv ==
  /\ Offsets = {0}
  /\ \A m \in Vmms : pgoff[m] = 0
  /\ \A m \in Vmms \ ready, g \in Gfns : upte[m][g] = NULL
  /\ UserSeesGuest

-----------------------------------------------------------------------------
(* The processor's way to a frame.                                          *)

(* What holds at the root and goes down one level holds on the whole way.   *)
LEMMA WholeWay ==
  ASSUME NEW S \in SUBSET (0 .. 4), 4 \in S,
         \A l \in Levels : l \in S => l - 1 \in S
  PROVE  \A l \in 0 .. 4 : l \in S
<1>1. {1, 2, 3, 4} \subseteq Levels
  BY DEF Levels, PT, PML4T
<1>2. 3 \in S
  BY <1>1
<1>3. 2 \in S
  BY <1>1, <1>2
<1>4. 1 \in S
  BY <1>1, <1>3
<1>5. 0 \in S
  BY <1>1, <1>4
<1> QED BY <1>2, <1>3, <1>4, <1>5

(* The way begins at the root.                                              *)
LEMMA ReachTop ==
  ASSUME NEW e, NEW r, NEW g
  PROVE  Reach(e, r, g, 4) = r
BY DEF Reach

(* One level down the way.                                                  *)
LEMMA ReachNext ==
  ASSUME NEW e, NEW r, NEW g, NEW l \in Levels
  PROVE  Reach(e, r, g, l - 1) = HopIn(e, Reach(e, r, g, l), g, l)
<1>1. Reach(e, r, g, 4) = r
  BY DEF Reach
<1>2. Reach(e, r, g, 3) = Reach3(e, r, g)
  BY DEF Reach
<1>3. Reach(e, r, g, 2) = Reach2(e, r, g)
  BY DEF Reach
<1>4. Reach(e, r, g, 1) = Reach1(e, r, g)
  BY DEF Reach
<1>5. Reach(e, r, g, 0) = Reach0(e, r, g)
  BY DEF Reach
<1>6. \/ l = 4 /\ l = PML4T /\ l - 1 = 3
      \/ l = 3 /\ l = PDPT /\ l - 1 = 2
      \/ l = 2 /\ l = PDT /\ l - 1 = 1
      \/ l = 1 /\ l = PT /\ l - 1 = 0
  BY DEF Levels, PT, PDT, PDPT, PML4T
<1>7. CASE l = 4 /\ l = PML4T /\ l - 1 = 3
  BY <1>1, <1>2, <1>7 DEF Reach3
<1>8. CASE l = 3 /\ l = PDPT /\ l - 1 = 2
  BY <1>2, <1>3, <1>8 DEF Reach2
<1>9. CASE l = 2 /\ l = PDT /\ l - 1 = 1
  BY <1>3, <1>4, <1>9 DEF Reach1
<1>10. CASE l = 1 /\ l = PT /\ l - 1 = 0
  BY <1>4, <1>5, <1>10 DEF Reach0
<1> QED BY <1>6, <1>7, <1>8, <1>9, <1>10

(* The way ends where the processor's translation does, before and after a  *)
(* step.                                                                    *)
LEMMA TranslateDef ==
  ASSUME NEW m \in Vmms, NEW g
  PROVE  /\ Translate(m, g) = Reach(entrys, ncr3[m], g, 0)
         /\ Translate(m, g)' = Reach(entrys', ncr3'[m], g, 0)
<1>1. \A p, l : Hop(p, g, l) = HopIn(entrys, p, g, l)
  BY DEF Hop, HopIn
<1>2. \A p, l : Hop(p, g, l)' = HopIn(entrys', p, g, l)
  BY DEF Hop, HopIn
<1>3. \A e, r : Reach(e, r, g, 0) =
        HopIn(e, HopIn(e, HopIn(e, HopIn(e, r, g, PML4T), g, PDPT), g, PDT),
              g, PT)
  BY DEF Reach, Reach0, Reach1, Reach2, Reach3
<1>4. Translate(m, g) = Reach(entrys, ncr3[m], g, 0)
  BY <1>1, <1>3 DEF Translate
<1>5. Translate(m, g)' = Reach(entrys', ncr3'[m], g, 0)
  BY <1>2, <1>3 DEF Translate
<1> QED BY <1>4, <1>5

(* Present entries of a set of pages lead to its pages of the next level.   *)
Closed(e, lv, S) ==
  \A q \in S, i \in Index :
    e[q][i].present =>
      e[q][i].page \in S /\ lv[e[q][i].page] = lv[q] - 1

(* Then the way stays in the set, each table at its level.                  *)
LEMMA WayStays ==
  ASSUME NEW e, NEW lv, NEW r, NEW S, r \in S, lv[r] = 4, Closed(e, lv, S),
         NEW g \in Nat, NEW l \in 0 .. 4, Reach(e, r, g, l) # NULL
  PROVE  Reach(e, r, g, l) \in S /\ lv[Reach(e, r, g, l)] = l
<1> DEFINE R(k) == Reach(e, r, g, k)
           OK(k) == R(k) # NULL => R(k) \in S /\ lv[R(k)] = k
           U == {k \in 0 .. 4 : OK(k)}
<1>1. OK(4)
  BY ReachTop
<1>2. ASSUME NEW k \in Levels, OK(k)
      PROVE  OK(k - 1)
  <2> SUFFICES ASSUME R(k - 1) # NULL
               PROVE  R(k - 1) \in S /\ lv[R(k - 1)] = k - 1
    OBVIOUS
  <2> DEFINE i == table_index(g, k)
  <2>1. R(k - 1) = HopIn(e, R(k), g, k)
    BY ReachNext
  <2> HIDE DEF R
  <2>2. R(k) # NULL /\ e[R(k)][i].present /\ R(k - 1) = e[R(k)][i].page
    BY <2>1 DEF HopIn
  <2>3. R(k) \in S /\ lv[R(k)] = k
    BY <1>2, <2>2
  <2>4. i \in Index
    BY IndexInTable
  <2> HIDE DEF i
  <2> QED BY <2>2, <2>3, <2>4 DEF Closed
<1> HIDE DEF OK
<1>3. \A k \in Levels : k \in U => k - 1 \in U
  BY <1>2 DEF Levels, PT, PML4T
<1>4. 4 \in U
  BY <1>1
<1> HIDE DEF U
<1>5. l \in U
  <2>1. U \in SUBSET (0 .. 4)
    BY DEF U
  <2> QED BY <1>3, <1>4, <2>1, WholeWay
<1> QED BY <1>5 DEF U, OK

(* The way lies in the tree of the vm, each table at its level.             *)
LEMMA ReachFacts ==
  ASSUME TypeOK, PagesInv, NEW m \in Vmms, ncr3[m] # NULL, NEW g \in Nat,
         NEW l \in 0 .. 4, Reach(entrys, ncr3[m], g, l) # NULL
  PROVE  /\ Reach(entrys, ncr3[m], g, l) \in Tree(ncr3[m])
         /\ Reach(entrys, ncr3[m], g, l) \in Allocated
         /\ role[Reach(entrys, ncr3[m], g, l)] = l
<1> DEFINE r == ncr3[m]
           S == Tree(r)
<1>1. S \subseteq Allocated /\ S \subseteq Pages
  BY TreeFacts DEF Allocated
<1>2. r \in S /\ role[r] = 4
  BY TreeFacts DEF PagesInv, RootsOK, PML4T
<1>3. ASSUME NEW q \in S, NEW i \in Index, entrys[q][i].present
      PROVE  /\ entrys[q][i].page \in S
             /\ role[entrys[q][i].page] = role[q] - 1
  <2>1. entrys[q][i].page # NULL
    BY <1>1, <1>3 DEF PagesInv, PresentLeadsOn, NoEntry
  <2>2. entrys[q][i].page \in S
    BY <2>1, TreeFacts
  <2>3. role[entrys[q][i].page] = role[q] - 1
    BY <1>1, <2>1 DEF PagesInv, EntriesWellFormed
  <2> QED BY <2>2, <2>3
<1>4. Closed(entrys, role, S)
  BY <1>3 DEF Closed
<1> HIDE DEF S
<1>5. Reach(entrys, r, g, l) \in S /\ role[Reach(entrys, r, g, l)] = l
  BY <1>2, <1>4, WayStays
<1> QED BY <1>1, <1>5 DEF S

(* Where the present entries of a vm stay, what the processor reaches does. *)
LEMMA ReachKept ==
  ASSUME TypeOK, PagesInv, NEW m \in Vmms, ncr3[m] # NULL, NEW g \in Nat,
         NEW f,
         \A p \in Tree(ncr3[m]), i \in Index :
           entrys[p][i].present => f[p][i] = entrys[p][i],
         NEW l \in 0 .. 4, Reach(entrys, ncr3[m], g, l) # NULL
  PROVE  Reach(f, ncr3[m], g, l) = Reach(entrys, ncr3[m], g, l)
<1> DEFINE R(k) == Reach(entrys, ncr3[m], g, k)
           F(k) == Reach(f, ncr3[m], g, k)
           S == {k \in 0 .. 4 : R(k) # NULL => F(k) = R(k)}
<1>1. 4 \in S
  BY ReachTop
<1>2. ASSUME NEW k \in Levels, R(k) # NULL => F(k) = R(k), R(k - 1) # NULL
      PROVE  F(k - 1) = R(k - 1)
  <2> DEFINE i == table_index(g, k)
  <2>1. R(k - 1) = HopIn(entrys, R(k), g, k) /\ F(k - 1) = HopIn(f, F(k), g, k)
    BY ReachNext
  <2>2. k \in 0 .. 4 /\ i \in Index
    BY IndexInTable DEF Levels, PT, PML4T
  <2>3. R(k) # NULL => R(k) \in Tree(ncr3[m])
    BY <2>2, ReachFacts
  <2> HIDE DEF R, F
  <2>4. R(k) # NULL /\ entrys[R(k)][i].present
    BY <1>2, <2>1 DEF HopIn
  <2>5. F(k) = R(k) /\ f[R(k)][i] = entrys[R(k)][i]
    BY <1>2, <2>2, <2>3, <2>4
  <2> QED BY <2>1, <2>4, <2>5 DEF HopIn
<1> HIDE DEF R, F
<1>3. \A k \in Levels : k \in S => k - 1 \in S
  BY <1>2 DEF Levels, PT, PML4T
<1> HIDE DEF S
<1>4. l \in S
  <2>1. S \in SUBSET (0 .. 4)
    BY DEF S
  <2> QED BY <1>1, <1>3, <2>1, WholeWay
<1> QED BY <1>4 DEF S, R, F

-----------------------------------------------------------------------------
(* Vms that a step leaves alone.                                            *)
VmSame(n) ==
  /\ ncr3'[n] = ncr3[n]
  /\ ncr3[n] # NULL =>
       \A p \in Tree(ncr3[n]) : entrys'[p] = entrys[p] /\ role'[p] = role[p]

OthersSame(m) == \A n \in Vmms \ {m} : VmSame(n)

(* Entries that lead to pages and stay keep these pages in the tree.        *)
LEMMA TreeGrows ==
  ASSUME NEW e, NEW f, NEW r,
         \A p \in TreeIn(e, r), i \in Index :
           e[p][i].page \in Pages => f[p][i].page = e[p][i].page
  PROVE  TreeIn(e, r) \subseteq TreeIn(f, r)
<1> DEFINE E1 == Kids(e, {r})
           E2 == Kids(e, E1)
           E3 == Kids(e, E2)
           E4 == Kids(e, E3)
           F1 == Kids(f, {r})
           F2 == Kids(f, F1)
           F3 == Kids(f, F2)
           F4 == Kids(f, F3)
<1>1. /\ TreeIn(e, r) = {r} \union E1 \union E2 \union E3 \union E4
      /\ TreeIn(f, r) = {r} \union F1 \union F2 \union F3 \union F4
  BY DEF TreeIn
<1>2. ASSUME NEW S, NEW U, S \subseteq U, S \subseteq TreeIn(e, r)
      PROVE  Kids(e, S) \subseteq Kids(f, U)
  BY <1>2 DEF Kids
<1>3. E1 \subseteq F1
  BY <1>1, <1>2
<1> HIDE DEF E1, F1
<1>4. E2 \subseteq F2
  BY <1>1, <1>2, <1>3
<1> HIDE DEF E2, F2
<1>5. E3 \subseteq F3
  BY <1>1, <1>2, <1>4
<1> HIDE DEF E3, F3
<1>6. E4 \subseteq F4
  BY <1>1, <1>2, <1>5
<1> QED BY <1>1, <1>3, <1>4, <1>5, <1>6

(* The tree of a vm that is left alone.                                     *)
LEMMA SameTree ==
  ASSUME IInv, NEW n \in Vmms, VmSame(n), ncr3[n] # NULL
  PROVE  ncr3'[n] = ncr3[n] /\ Tree(ncr3[n])' = Tree(ncr3[n])
<1>1. /\ ncr3'[n] = ncr3[n]
      /\ \A p \in Tree(ncr3[n]), i \in Index :
           entrys'[p][i].page = entrys[p][i].page
  BY DEF VmSame
<1>2. Tree(ncr3[n])' \subseteq Tree(ncr3[n])
  BY <1>1, TreeKept DEF IInv
<1>3. TreeIn(entrys, ncr3[n]) \subseteq TreeIn(entrys', ncr3[n])
  BY <1>1, TreeDef, TreeGrows
<1> QED BY <1>1, <1>2, <1>3, TreeDef

(* The processor's ways in it.                                              *)
LEMMA SameReach ==
  ASSUME IInv, NEW n \in Vmms, VmSame(n), ncr3[n] # NULL, NEW g \in Nat,
         NEW l \in 0 .. 4
  PROVE  Reach(entrys', ncr3'[n], g, l) = Reach(entrys, ncr3[n], g, l)
<1> DEFINE R(k) == Reach(entrys, ncr3[n], g, k)
           F(k) == Reach(entrys', ncr3'[n], g, k)
           S == {k \in 0 .. 4 : F(k) = R(k)}
<1>1. /\ ncr3'[n] = ncr3[n]
      /\ \A p \in Tree(ncr3[n]) : entrys'[p] = entrys[p]
  BY DEF VmSame
<1>2. 4 \in S
  BY <1>1, ReachTop
<1>3. ASSUME NEW k \in Levels, F(k) = R(k)
      PROVE  F(k - 1) = R(k - 1)
  <2>1. R(k - 1) = HopIn(entrys, R(k), g, k)
    BY ReachNext
  <2>2. F(k - 1) = HopIn(entrys', F(k), g, k)
    BY ReachNext
  <2>3. k \in 0 .. 4
    BY DEF Levels, PT, PML4T
  <2>4. R(k) # NULL => R(k) \in Tree(ncr3[n])
    BY <2>3, ReachFacts DEF IInv
  <2> HIDE DEF R, F
  <2> QED BY <1>1, <1>3, <2>1, <2>2, <2>4 DEF HopIn
<1> HIDE DEF R, F
<1>4. \A k \in Levels : k \in S => k - 1 \in S
  BY <1>3 DEF Levels, PT, PML4T
<1> HIDE DEF S
<1>5. l \in S
  <2>1. S \in SUBSET (0 .. 4)
    BY DEF S
  <2> QED BY <1>2, <1>4, <2>1, WholeWay
<1> QED BY <1>5 DEF S, R, F

(* The memory of its guest.                                                 *)
LEMMA SameTranslate ==
  ASSUME IInv, NEW n \in Vmms, VmSame(n), ncr3[n] # NULL, NEW g \in Nat
  PROVE  Translate(n, g)' = Translate(n, g)
<1>1. Reach(entrys', ncr3'[n], g, 0) = Reach(entrys, ncr3[n], g, 0)
  BY SameReach
<1> QED BY <1>1, TranslateDef

(* The table a walk stands on is in the tree of its vm.                     *)
LEMMA WalkInTree ==
  ASSUME IInv, NEW t \in Threads, Inside(t), WalkReached(t)
  PROVE  /\ walk[t].vmm \in Vmms /\ ncr3[walk[t].vmm] # NULL
         /\ walk[t].gfn \in Nat /\ walk[t].level \in Levels
         /\ walk[t].level \in 0 .. 4
         /\ table_index(walk[t].gfn, walk[t].level) \in Index
         /\ walk[t].table # NULL
         /\ walk[t].table \in Tree(ncr3[walk[t].vmm])
         /\ role[walk[t].table] = walk[t].level
<1>1. walk[t].vmm \in Vmms /\ ncr3[walk[t].vmm] # NULL
  BY DEF IInv, WalksInv, CallsOK
<1>2. walk[t].gfn \in Nat /\ walk[t].level \in Levels
  BY DEF IInv, TypeOK, Walk
<1>3. walk[t].level \in 0 .. 4
  BY <1>2 DEF Levels, PT, PML4T
<1>4. walk[t].table \in Allocated /\ role[walk[t].table] = walk[t].level
  BY DEF IInv, WalksInv, WalkersSafe, Inside
<1>5. walk[t].table # NULL
  BY <1>4, ConstantsAssumption DEF Allocated
<1>6. walk[t].table
        = Reach(entrys, ncr3[walk[t].vmm], walk[t].gfn, walk[t].level)
  BY DEF WalkReached
<1>7. walk[t].table \in Tree(ncr3[walk[t].vmm])
  BY <1>1, <1>2, <1>3, <1>5, <1>6, ReachFacts DEF IInv
<1> QED BY <1>1, <1>2, <1>3, <1>4, <1>5, <1>7, IndexInTable

(* A thread that stays where it is, in a vm that is left alone.             *)
LEMMA WalkerUntouched ==
  ASSUME IInv, NEW u \in Threads, Inside(u), WalkOK(u), walk'[u] = walk[u],
         VmSame(walk[u].vmm)
  PROVE  WalkOK(u)'
<1> DEFINE n == walk[u].vmm
<1>1. /\ n \in Vmms /\ ncr3[n] # NULL
      /\ walk[u].gfn \in Nat /\ walk[u].level \in 0 .. 4
      /\ walk[u].table \in Tree(ncr3[n])
  BY WalkInTree DEF WalkOK
<1>2. ncr3'[n] = ncr3[n] /\ Tree(ncr3[n])' = Tree(ncr3[n])
  BY <1>1, SameTree
<1>3. \A l \in 0 .. 4 : Reach(entrys', ncr3'[n], walk[u].gfn, l)
                          = Reach(entrys, ncr3[n], walk[u].gfn, l)
  BY <1>1, SameReach
<1>4. \A p \in Tree(ncr3[n]) : entrys'[p] = entrys[p] /\ role'[p] = role[p]
  BY <1>1 DEF VmSame
<1>5. WalkEntry(u)' = WalkEntry(u)
  BY <1>1, <1>4 DEF WalkEntry
<1>6. WalkReached(u)'
  <2>1. 0 \in 0 .. 4
    OBVIOUS
  <2>2. WalkReached(u)
    BY DEF WalkOK
  <2> QED BY <1>1, <1>3, <1>5, <2>1, <2>2 DEF WalkReached
<1>7. walk[u].caller = "create" => NoMemoryYet(u)'
  <2> SUFFICES ASSUME walk[u].caller = "create" PROVE NoMemoryYet(u)'
    OBVIOUS
  <2>1. Tree(ncr3[walk[u].vmm])' = Tree(ncr3[n])
    BY <1>2
  <2> QED BY <1>4, <2>1 DEF WalkOK, NoMemoryYet
<1> QED BY <1>6, <1>7 DEF WalkOK

-----------------------------------------------------------------------------
(* Every step keeps the invariant.                                          *)

(* A step that is about one vm: what it allocates it puts in the tree of    *)
(* the vm, and what it takes out of the tree it frees or strands.           *)
LEMMA SeqKept ==
  ASSUME IInv, SeqInv, NEW m \in Vmms, OthersSame(m),
         \A u \in Threads :
           Inside(u)' =>
             \/ Inside(u) /\ walk'[u] = walk[u] /\ walk[u].vmm # m
             \/ WalkOK(u)',
         stranded \subseteq stranded',
         \A p \in Allocated' :
           \/ p \in stranded'
           \/ ncr3'[m] # NULL /\ p \in Tree(ncr3[m])'
           \/ p \in Allocated /\ ~(ncr3[m] # NULL /\ p \in Tree(ncr3[m]))
  PROVE  SeqInv'
<1>1. ASSUME NEW u \in Threads, Inside(u)'
      PROVE  WalkOK(u)'
  <2> SUFFICES ASSUME Inside(u), walk'[u] = walk[u], walk[u].vmm # m
               PROVE  WalkOK(u)'
    BY <1>1
  <2>1. walk[u].vmm \in Vmms
    BY DEF IInv, WalksInv, CallsOK
  <2>2. VmSame(walk[u].vmm)
    BY <2>1 DEF OthersSame
  <2> QED BY <2>2, WalkerUntouched DEF SeqInv
<1>2. NoPageLeak'
  <2> SUFFICES ASSUME NEW p \in Allocated', p \notin stranded'
               PROVE  \E n \in Vmms : ncr3'[n] # NULL /\ p \in Tree(ncr3[n])'
    BY DEF NoPageLeak
  <2>1. CASE ncr3'[m] # NULL /\ p \in Tree(ncr3[m])'
    BY <2>1
  <2>2. CASE p \in Allocated /\ ~(ncr3[m] # NULL /\ p \in Tree(ncr3[m]))
    <3>1. p \notin stranded
      OBVIOUS
    <3>2. PICK n \in Vmms : ncr3[n] # NULL /\ p \in Tree(ncr3[n])
      BY <2>2, <3>1 DEF SeqInv, NoPageLeak
    <3>3. VmSame(n)
      BY <2>2, <3>2 DEF OthersSame
    <3> QED BY <3>2, <3>3, SameTree
  <2> QED BY <2>1, <2>2
<1> QED BY <1>1, <1>2 DEF SeqInv, SoleThreads

(* A step that leaves the tables alone.                                     *)
LEMMA TablesSame ==
  ASSUME IInv, SeqInv, UNCHANGED <<role, entrys, ncr3, stranded>>,
         Allocated' = Allocated,
         \A u \in Threads :
           Inside(u)' => (Inside(u) /\ walk'[u] = walk[u]) \/ WalkOK(u)'
  PROVE  SeqInv'
<1>1. \A n \in Vmms : VmSame(n)
  BY DEF VmSame
<1>2. ASSUME NEW u \in Threads, Inside(u)'
      PROVE  WalkOK(u)'
  <2> SUFFICES ASSUME Inside(u), walk'[u] = walk[u]
               PROVE  WalkOK(u)'
    BY <1>2
  <2>1. VmSame(walk[u].vmm)
    BY <1>1 DEF IInv, WalksInv, CallsOK
  <2> QED BY <2>1, WalkerUntouched DEF SeqInv
<1>3. \A n \in Vmms : ncr3[n] # NULL =>
        ncr3'[n] = ncr3[n] /\ Tree(ncr3[n])' = Tree(ncr3[n])
  BY <1>1, SameTree
<1>4. NoPageLeak'
  <2> SUFFICES ASSUME NEW p \in Allocated', p \notin stranded'
               PROVE  \E n \in Vmms : ncr3'[n] # NULL /\ p \in Tree(ncr3[n])'
    BY DEF NoPageLeak
  <2>1. PICK n \in Vmms : ncr3[n] # NULL /\ p \in Tree(ncr3[n])
    BY DEF SeqInv, NoPageLeak
  <2> QED BY <1>3, <2>1
<1> QED BY <1>2, <1>4 DEF SeqInv, SoleThreads

(* A thread starts a walk at the root of a vm that exists.                  *)
LEMMA SeqBegin ==
  ASSUME IInv, SeqInv, NEW t \in Threads, NEW m \in Vmms, NEW g,
         NEW c \in {"ioctl", "fault"}, t \in ThreadsOf[m],
         Begin(t, m, g, c, ncr3[m]),
         UNCHANGED <<pageVars, vmVars, userVars, panicked>>
  PROVE  SeqInv'
<1>1. /\ UNCHANGED <<role, entrys, ncr3, stranded>>
      /\ Allocated' = Allocated
  BY DEF pageVars, vmVars, Allocated
<1>2. /\ walk'[t].at = "read" /\ walk'[t].caller = c /\ walk'[t].vmm = m
      /\ walk'[t].gfn = g /\ walk'[t].level = PML4T /\ walk'[t].table = ncr3[m]
      /\ \A u \in Threads \ {t} : walk'[u] = walk[u]
  BY DEF Begin, IInv, TypeOK
<1>3. Reach(entrys', ncr3[m], g, PML4T) = ncr3[m]
  BY ReachTop DEF PML4T
<1>4. WalkOK(t)'
  BY <1>1, <1>2, <1>3 DEF WalkOK, WalkReached
<1>5. \A u \in Threads :
        Inside(u)' => (Inside(u) /\ walk'[u] = walk[u]) \/ WalkOK(u)'
  BY <1>2, <1>4 DEF Inside
<1> QED BY <1>1, <1>5, TablesSame

(* It finds the entry missing, and remembers where.                         *)
LEMMA SeqMissing ==
  ASSUME IInv, SeqInv, NEW t \in Threads, npt_missing(t)
  PROVE  SeqInv'
<1>1. /\ UNCHANGED <<role, entrys, ncr3, stranded>>
      /\ Allocated' = Allocated
  BY DEF npt_missing, pageVars, vmVars, Allocated
<1>2. /\ walk'[t].at = "alloc" /\ walk'[t].caller = walk[t].caller
      /\ walk'[t].vmm = walk[t].vmm /\ walk'[t].gfn = walk[t].gfn
      /\ walk'[t].level = walk[t].level /\ walk'[t].table = walk[t].table
      /\ \A u \in Threads \ {t} : walk'[u] = walk[u]
  BY DEF npt_missing, IInv, TypeOK, Walk
<1>3. walk[t].at = "read" /\ Inside(t) /\ WalkEntry(t) = NoEntry
  BY DEF npt_missing, At, Inside
<1>4. WalkOK(t)
  BY <1>3 DEF SeqInv
<1>5. WalkEntry(t)' = WalkEntry(t)
  BY <1>1, <1>2 DEF WalkEntry
<1>6. WalkReached(t)'
  BY <1>1, <1>2, <1>3, <1>4, <1>5 DEF WalkOK, WalkReached
<1>7. walk[t].vmm \in Vmms /\ ncr3[walk[t].vmm] # NULL
  BY <1>3 DEF IInv, WalksInv, CallsOK
<1>8. Tree(ncr3[walk[t].vmm])' = Tree(ncr3[walk[t].vmm])
  BY <1>1, <1>2, <1>7, TreeDef
<1>9. walk[t].caller = "create" => NoMemoryYet(t)'
  BY <1>1, <1>2, <1>3, <1>4, <1>8 DEF WalkOK, NoMemoryYet
<1>10. WalkOK(t)'
  BY <1>2, <1>4, <1>6, <1>9 DEF WalkOK
<1>11. \A u \in Threads :
         Inside(u)' => (Inside(u) /\ walk'[u] = walk[u]) \/ WalkOK(u)'
  BY <1>2, <1>10 DEF Inside
<1> QED BY <1>1, <1>11, TablesSame

(* It follows an entry, as the processor does.  The creator of a vm never   *)
(* finds one in a PT.                                                       *)
LEMMA SeqFollow ==
  ASSUME IInv, SeqInv, NEW t \in Threads, npt_follow(t)
  PROVE  SeqInv'
<1> DEFINE m == walk[t].vmm
           L == walk[t].level
           g == walk[t].gfn
           T == walk[t].table
           q == WalkEntry(t).page
<1>1. /\ UNCHANGED <<role, entrys, ncr3, stranded>>
      /\ Allocated' = Allocated
  BY DEF npt_follow, pageVars, vmVars, Allocated
<1>2. /\ walk[t].at = "read" /\ Inside(t)
      /\ WalkEntry(t) # NoEntry /\ WalkEntry(t).present
      /\ Descend(t, q)
  BY DEF npt_follow, At, Inside
<1>3. q \in Pages
  BY <1>2, EntryLeads
<1>4. /\ \A u \in Threads \ {t} : walk'[u] = walk[u]
      /\ walk'[t].vmm = m /\ walk'[t].caller = walk[t].caller
      /\ walk'[t].gfn = g
      /\ L = PT => /\ walk'[t].at = "done" /\ walk'[t].page = q
                   /\ walk'[t].table = T /\ walk'[t].level = PT
      /\ L # PT => /\ walk'[t].at = "read" /\ walk'[t].table = q
                   /\ walk'[t].level = L - 1
  BY <1>2, <1>3, DescendFacts DEF IInv
<1>5. WalkOK(t) /\ WalkReached(t)
  BY <1>2 DEF SeqInv, WalkOK
<1>6. /\ m \in Vmms /\ ncr3[m] # NULL /\ g \in Nat /\ L \in Levels
      /\ table_index(g, L) \in Index
      /\ T # NULL /\ T \in Tree(ncr3[m]) /\ role[T] = L
  BY <1>2, <1>5, WalkInTree
<1>7. T = Reach(entrys, ncr3[m], g, L)
  BY <1>5 DEF WalkReached
<1>8. q = Reach(entrys, ncr3[m], g, L - 1)
  <2>1. Reach(entrys, ncr3[m], g, L - 1) = HopIn(entrys, T, g, L)
    BY <1>6, <1>7, ReachNext
  <2> QED BY <1>2, <1>6, <2>1 DEF HopIn, WalkEntry
<1>9. WalkReached(t)'
  <2>1. CASE L = PT
    <3>1. L = 1 /\ L - 1 = 0
      BY <2>1 DEF PT
    <3> QED BY <1>1, <1>4, <1>7, <1>8, <2>1, <3>1 DEF WalkReached
  <2>2. CASE L # PT
    BY <1>1, <1>4, <1>8, <2>2 DEF WalkReached
  <2> QED BY <2>1, <2>2
<1>10. ASSUME walk[t].caller = "create"
       PROVE  NoMemoryYet(t)'
  <2>1. NoMemoryYet(t)
    BY <1>5, <1>10 DEF WalkOK
  <2>2. Tree(ncr3[walk[t].vmm])' = Tree(ncr3[m])
    BY <1>1, <1>4, <1>6, TreeDef
  <2>3. \A p \in Tree(ncr3[m]), i \in Index :
          role[p] = PT => entrys[p][i] = NoEntry
    BY <1>2, <2>1 DEF NoMemoryYet
  <2> QED BY <1>1, <2>2, <2>3 DEF NoMemoryYet
<1>11. WalkOK(t)'
  BY <1>4, <1>5, <1>9, <1>10 DEF WalkOK
<1>12. \A u \in Threads :
         Inside(u)' => (Inside(u) /\ walk'[u] = walk[u]) \/ WalkOK(u)'
  BY <1>4, <1>11 DEF Inside
<1> QED BY <1>1, <1>12, TablesSame

(* It returns, whatever it was called for.                                  *)
LEMMA SeqReturn ==
  ASSUME IInv, SeqInv, NEW t \in Threads, Return(t),
         UNCHANGED <<role, entrys, ncr3, stranded>>, Allocated' = Allocated
  PROVE  SeqInv'
<1>1. ~Inside(t)' /\ \A u \in Threads \ {t} : walk'[u] = walk[u]
  BY DEF Return, Idle, Inside, IInv, TypeOK
<1>2. \A u \in Threads :
        Inside(u)' => (Inside(u) /\ walk'[u] = walk[u]) \/ WalkOK(u)'
  BY <1>1 DEF Inside
<1> QED BY <1>2, TablesSame

(* A vm is made: a PML4 table without entries, and its creator on it.       *)
LEMMA SeqCreate ==
  ASSUME IInv, SeqInv, NEW t \in Threads, NEW m \in Vmms,
         yakvm_create_vmm(t, m)
  PROVE  SeqInv'
<1>1. PICK p \in Pages :
        /\ alloc_page(p, PML4T)
        /\ entrys' = [entrys EXCEPT ![p] = EmptyTable]
        /\ ncr3' = [ncr3 EXCEPT ![m] = p]
        /\ Begin(t, m, MmioGfn, "create", p)
  BY DEF yakvm_create_vmm
<1>2. /\ p \in Pick(Pages \ Allocated)
      /\ ncr3[m] = NULL /\ t \in ThreadsOf[m]
      /\ upte' = upte /\ stranded' = stranded
  BY <1>1 DEF alloc_page, yakvm_create_vmm, userVars
<1>3. /\ entrys[p] = EmptyTable
      /\ \A n \in Vmms : ncr3[n] # NULL => p \notin Tree(ncr3[n])
  BY <1>2, FreshPage
<1>4. /\ entrys' = entrys
      /\ \A i \in Index : entrys'[p][i] = NoEntry
  BY <1>1, <1>3 DEF IInv, TypeOK, EmptyTable
<1>5. ncr3'[m] = p /\ \A n \in Vmms \ {m} : ncr3'[n] = ncr3[n]
  BY <1>1 DEF IInv, TypeOK
<1>6. /\ \A q \in Pages \ {p} : role'[q] = role[q]
      /\ Allocated' = Allocated \union {p}
  <2>1. PML4T \in 0 .. PML4T
    BY DEF PML4T
  <2> QED BY <1>1, <1>2, <2>1, FreshCount DEF alloc_page, IInv, TypeOK
<1>7. OthersSame(m)
  <2> SUFFICES ASSUME NEW n \in Vmms \ {m}, ncr3[n] # NULL,
                      NEW q \in Tree(ncr3[n])
               PROVE  role'[q] = role[q]
    BY <1>4, <1>5 DEF OthersSame, VmSame
  <2>1. q \in Pages
    BY TreeFacts DEF IInv, Allocated
  <2> QED BY <1>3, <1>6, <2>1
<1>8. /\ walk'[t].at = "read" /\ walk'[t].caller = "create"
      /\ walk'[t].vmm = m /\ walk'[t].level = PML4T /\ walk'[t].table = p
      /\ \A u \in Threads \ {t} : walk'[u] = walk[u]
  BY <1>1 DEF Begin, IInv, TypeOK
<1>9. TreeIn(entrys', p) = {p}
  <2>1. \A q \in {p}, i \in Index : entrys'[q][i].page \notin Pages
    BY <1>4, ConstantsAssumption DEF NoEntry
  <2>2. TreeIn(entrys', p) \subseteq {p}
    BY <2>1, TreeLeast
  <2> QED BY <2>2 DEF TreeIn
<1>10. Tree(ncr3[m])' = {p}
  BY <1>5, <1>9, TreeDef
<1>11. WalkOK(t)'
  <2>1. Reach(entrys', p, walk'[t].gfn, PML4T) = p
    BY ReachTop DEF PML4T
  <2>2. WalkReached(t)'
    BY <1>5, <1>8, <2>1 DEF WalkReached
  <2>3. Tree(ncr3[walk[t].vmm])' = {p}
    BY <1>8, <1>10
  <2>4. NoMemoryYet(t)'
    BY <1>4, <2>3 DEF NoMemoryYet
  <2> QED BY <1>2, <1>8, <2>2, <2>4 DEF WalkOK
<1>12. ASSUME NEW u \in Threads \ {t}, Inside(u)'
       PROVE  Inside(u) /\ walk'[u] = walk[u] /\ walk[u].vmm # m
  BY <1>2, <1>8, <1>12 DEF Inside, IInv, WalksInv, CallsOK
<1>13. p # NULL
  BY ConstantsAssumption
<1> QED BY <1>2, <1>5, <1>6, <1>7, <1>10, <1>11, <1>12, <1>13, SeqKept

(* A page is allocated for an entry that was found missing, and still is:   *)
(* nothing but this entry changes, and the tree of the vm grows by the      *)
(* page.                                                                    *)
LEMMA StoreFacts ==
  ASSUME IInv, SeqInv, IInv', NEW t \in Threads, npt_alloc(t)
  PROVE  LET m == walk[t].vmm
             r == ncr3[m]
             L == walk[t].level
             T == walk[t].table
             k == table_index(walk[t].gfn, L)
         IN /\ UNCHANGED <<ncr3, ready, stranded, pgoff, upte, panicked>>
            /\ Inside(t) /\ walk[t].at = "alloc" /\ WalkOK(t)
            /\ T \in Tree(r) /\ k \in Index /\ entrys[T][k] = NoEntry
            /\ OthersSame(m)
            /\ \E p \in Pages :
                 /\ p \notin Allocated
                 /\ Allocated' = Allocated \union {p}
                 /\ Descend(t, p)
                 /\ \A q \in Pages \ {p} : role'[q] = role[q]
                 /\ \A i \in Index : entrys'[p][i] = NoEntry
                 /\ \A q \in Tree(r), i \in Index :
                      q # T \/ i # k => entrys'[q][i] = entrys[q][i]
                 /\ entrys'[T][k] = [page |-> p, present |-> TRUE]
                 /\ Tree(r)' = Tree(r) \union {p}
<1> DEFINE m == walk[t].vmm
           r == ncr3[m]
           L == walk[t].level
           T == walk[t].table
           k == table_index(walk[t].gfn, L)
<1>1. /\ UNCHANGED <<ncr3, ready, stranded, pgoff, upte, panicked>>
      /\ Inside(t) /\ walk[t].at = "alloc"
      /\ L - 1 \in 0 .. PML4T
      /\ T \in Pages /\ k \in Index
  BY AllocFacts
<1>2. PICK p \in Pages :
        /\ p \in Pick(Pages \ Allocated)
        /\ alloc_page(p, L - 1)
        /\ Descend(t, p)
        /\ \A q \in Pages \ {T} : entrys'[q] = entrys[q]
        /\ \A i \in Index \ {k} : entrys'[T][i] = entrys[T][i]
        /\ entrys'[T][k] = [page |-> p, present |-> TRUE]
  BY AllocFacts
<1>3. WalkOK(t) /\ WalkReached(t)
  BY <1>1 DEF SeqInv, WalkOK
<1>4. m \in Vmms /\ r # NULL /\ T \in Tree(r)
  BY <1>1, <1>3, WalkInTree
<1>5. entrys[T][k] = NoEntry
  BY <1>1, <1>3 DEF WalkReached, WalkEntry
<1>6. /\ p \notin Allocated /\ entrys[p] = EmptyTable
      /\ \A n \in Vmms : ncr3[n] # NULL => p \notin Tree(ncr3[n])
      /\ T # p
  BY <1>1, <1>2, FreshPage
<1>7. /\ \A q \in Pages \ {p} : role'[q] = role[q]
      /\ Allocated' = Allocated \union {p}
  BY <1>1, <1>2, FreshCount DEF alloc_page, IInv, TypeOK
<1>8. \A n \in Vmms : ncr3[n] # NULL => Tree(ncr3[n]) \subseteq Pages
  BY TreeFacts DEF IInv, Allocated
<1>9. OthersSame(m)
  <2> SUFFICES ASSUME NEW n \in Vmms \ {m}, ncr3[n] # NULL,
                      NEW q \in Tree(ncr3[n])
               PROVE  entrys'[q] = entrys[q] /\ role'[q] = role[q]
    BY <1>1 DEF OthersSame, VmSame
  <2>1. T \notin Tree(ncr3[n])
    BY <1>4 DEF IInv, PagesInv, GuestsIsolated
  <2> QED BY <1>2, <1>6, <1>7, <1>8, <2>1
<1>10. \A i \in Index : entrys'[p][i] = NoEntry
  BY <1>2, <1>6 DEF EmptyTable
<1>11. \A q \in Tree(r), i \in Index :
         q # T \/ i # k => entrys'[q][i] = entrys[q][i]
  BY <1>2, <1>4, <1>8
<1> HIDE DEF k, T, r
<1>12. Tree(r)' = TreeIn(entrys', r) /\ Tree(r) = TreeIn(entrys, r)
  <2>1. walk'[t].vmm = m
    BY <1>2, DescendFacts DEF IInv
  <2> QED BY <1>1, <1>4, <2>1, TreeDef DEF r
<1>13. NULL \notin Pages /\ NoEntry.page = NULL
  BY ConstantsAssumption DEF NoEntry
<1>14. Tree(r)' \subseteq Tree(r) \union {p}
  <2> DEFINE S == Tree(r) \union {p}
  <2>1. ASSUME NEW q \in S, NEW i \in Index, entrys'[q][i].page \in Pages
        PROVE  entrys'[q][i].page \in S
    <3>1. CASE q = p
      BY <1>10, <1>13, <2>1, <3>1
    <3>2. CASE q = T /\ i = k
      BY <1>2, <3>2
    <3>3. CASE q # p /\ (q # T \/ i # k)
      <4>1. q \in Tree(r) /\ entrys'[q][i] = entrys[q][i]
        BY <1>11, <3>3
      <4>2. entrys[q][i].page \in Tree(r)
        BY <1>4, <1>13, <2>1, <4>1, TreeFacts DEF IInv, r
      <4> QED BY <4>1, <4>2
    <3> QED BY <3>1, <3>2, <3>3
  <2>2. r \in S
    BY <1>4, TreeFacts DEF IInv, r
  <2> HIDE DEF S
  <2>3. TreeIn(entrys', r) \subseteq S
    BY <2>1, <2>2, TreeLeast
  <2> QED BY <1>12, <2>3 DEF S
<1>15. Tree(r) \subseteq Tree(r)'
  <2>1. \A q \in TreeIn(entrys, r), i \in Index :
          entrys[q][i].page \in Pages =>
            entrys'[q][i].page = entrys[q][i].page
    BY <1>5, <1>11, <1>12, <1>13
  <2> QED BY <1>12, <2>1, TreeGrows
<1>16. p \in Tree(r)'
  <2>1. /\ role' \in [Pages -> 0 .. PML4T] /\ r \in Pages
        /\ role'[r] = PML4T
    BY <1>1, <1>4
    DEF IInv, TypeOK, PagesInv, RootsOK, Allocated, r
  <2>2. \A q \in Pages, i \in Index :
          entrys'[q][i].page \in Pages =>
            role'[entrys'[q][i].page] = role'[q] - 1
    <3> SUFFICES ASSUME NEW q \in Pages, NEW i \in Index,
                        entrys'[q][i].page \in Pages
                 PROVE  role'[entrys'[q][i].page] = role'[q] - 1
      OBVIOUS
    <3>1. q \in Allocated'
      <4>1. FreePagesClean' /\ refs' \in [Pages -> Nat]
        BY DEF IInv, PagesInv, TypeOK
      <4>2. entrys'[q] # EmptyTable
        BY <1>13 DEF EmptyTable
      <4> QED BY <4>1, <4>2 DEF FreePagesClean, Allocated
    <3> QED BY <1>13, <3>1 DEF IInv, PagesInv, EntriesWellFormed
  <2>3. T \in TreeIn(entrys', r) /\ entrys'[T][k].page = p
    BY <1>2, <1>4, <1>12, <1>15 DEF r, T, k
  <2> QED BY <1>1, <1>12, <2>1, <2>2, <2>3, TreeClosed DEF k
<1>17. Tree(r)' = Tree(r) \union {p}
  BY <1>14, <1>15, <1>16
<1> QED BY <1>1, <1>2, <1>3, <1>4, <1>5, <1>6, <1>7, <1>9, <1>10, <1>11,
           <1>17
        DEF r, T, k

(* The walk of the thread stays where the processor's would be, and no      *)
(* other thread is in the vm.                                               *)
LEMMA SeqAlloc ==
  ASSUME IInv, SeqInv, IInv', NEW t \in Threads, npt_alloc(t)
  PROVE  SeqInv'
<1> DEFINE m == walk[t].vmm
           r == ncr3[m]
           g == walk[t].gfn
           L == walk[t].level
           T == walk[t].table
           k == table_index(g, L)
<1>1. /\ ncr3' = ncr3 /\ stranded' = stranded
      /\ Inside(t) /\ walk[t].at = "alloc" /\ WalkOK(t)
      /\ T \in Tree(r) /\ k \in Index /\ entrys[T][k] = NoEntry
      /\ OthersSame(m)
  BY StoreFacts
<1>2. PICK p \in Pages :
        /\ p \notin Allocated
        /\ Allocated' = Allocated \union {p}
        /\ Descend(t, p)
        /\ \A q \in Pages \ {p} : role'[q] = role[q]
        /\ \A i \in Index : entrys'[p][i] = NoEntry
        /\ \A q \in Tree(r), i \in Index :
             q # T \/ i # k => entrys'[q][i] = entrys[q][i]
        /\ entrys'[T][k] = [page |-> p, present |-> TRUE]
        /\ Tree(r)' = Tree(r) \union {p}
  BY StoreFacts
<1>3. /\ \A u \in Threads \ {t} : walk'[u] = walk[u]
      /\ walk'[t].vmm = m /\ walk'[t].caller = walk[t].caller
      /\ walk'[t].gfn = g
      /\ L = PT => /\ walk'[t].at = "done" /\ walk'[t].page = p
                   /\ walk'[t].table = T /\ walk'[t].level = PT
      /\ L # PT => /\ walk'[t].at = "read" /\ walk'[t].table = p
                   /\ walk'[t].level = L - 1
  BY <1>2, DescendFacts DEF IInv
<1>4. WalkReached(t)
  BY <1>1 DEF WalkOK
<1>5. /\ m \in Vmms /\ r # NULL /\ g \in Nat /\ L \in Levels
      /\ L \in 0 .. 4 /\ T # NULL /\ role[T] = L
  BY <1>1, <1>4, WalkInTree
<1>6. T = Reach(entrys, r, g, L)
  BY <1>4 DEF WalkReached
<1>7. \A q \in Tree(r), i \in Index :
        entrys[q][i].present => entrys'[q][i] = entrys[q][i]
  BY <1>1, <1>2 DEF NoEntry
<1>8. Reach(entrys', r, g, L) = T
  BY <1>5, <1>6, <1>7, ReachKept DEF IInv
<1>9. Reach(entrys', r, g, L - 1) = p
  <2>1. Reach(entrys', r, g, L - 1) = HopIn(entrys', T, g, L)
    BY <1>5, <1>8, ReachNext
  <2> QED BY <1>2, <1>5, <2>1 DEF HopIn
<1>10. WalkReached(t)'
  <2>1. CASE L = PT
    <3>1. L = 1 /\ L - 1 = 0
      BY <2>1 DEF PT
    <3> QED BY <1>1, <1>3, <1>8, <1>9, <2>1, <3>1 DEF WalkReached
  <2>2. CASE L # PT
    BY <1>1, <1>3, <1>9, <2>2 DEF WalkReached
  <2> QED BY <2>1, <2>2
<1>11. ASSUME walk[t].caller = "create"
       PROVE  NoMemoryYet(t)'
  <2>1. NoMemoryYet(t)
    BY <1>1, <1>11 DEF WalkOK
  <2>2. \A q \in Tree(r), i \in Index : role[q] = PT => entrys[q][i] = NoEntry
    BY <1>1, <2>1 DEF NoMemoryYet
  <2>3. Tree(r) \subseteq Pages
    BY <1>5, TreeFacts DEF IInv, Allocated
  <2>4. p \notin Tree(r)
    BY <1>2, <1>5, TreeFacts DEF IInv
  <2>5. ASSUME NEW q \in Tree(r) \union {p}, NEW i \in Index,
               role'[q] = PT, entrys'[q][i] # NoEntry
        PROVE  /\ walk'[t].at = "done"
               /\ q = walk'[t].table
               /\ i = table_index(walk'[t].gfn, walk'[t].level)
    <3>1. q \in Tree(r) /\ role[q] = PT
      BY <1>2, <2>3, <2>4, <2>5
    <3>2. entrys[q][i] = NoEntry
      BY <2>2, <3>1
    <3>3. q = T /\ i = k
      BY <1>2, <2>5, <3>1, <3>2
    <3>4. L = PT
      BY <1>5, <3>1, <3>3
    <3> QED BY <1>3, <3>3, <3>4
  <2> QED BY <1>2, <2>5 DEF NoMemoryYet
<1>12. WalkOK(t)'
  BY <1>1, <1>3, <1>10, <1>11 DEF WalkOK
<1>13. ASSUME NEW u \in Threads \ {t}, Inside(u)'
       PROVE  Inside(u) /\ walk'[u] = walk[u] /\ walk[u].vmm # m
  <2>1. Inside(u) /\ walk'[u] = walk[u]
    BY <1>3, <1>13 DEF Inside
  <2>2. t \in ThreadsOf[m] /\ u \in ThreadsOf[walk[u].vmm]
    BY <1>1, <2>1 DEF SeqInv, WalkOK
  <2> QED BY <1>5, <2>1, <2>2 DEF SeqInv, SoleThreads
<1>14. Tree(ncr3[m])' = Tree(r) \union {p}
  BY <1>2
<1>15. m' = m
  BY <1>3
<1> HIDE DEF m
<1> QED BY <1>1, <1>2, <1>5, <1>12, <1>13, <1>14, <1>15, SeqKept

(* A vm loses its root, and with it every page of its tree that is not      *)
(* stranded is freed.                                                       *)
LEMMA SeqFreed ==
  ASSUME IInv, SeqInv, NEW m \in Vmms, ncr3[m] # NULL,
         NEW S \in SUBSET Tree(ncr3[m]), \A g \in Gfns : upte[m][g] \notin S,
         free_pages(S),
         ncr3' = [ncr3 EXCEPT ![m] = NULL],
         stranded \subseteq stranded', Tree(ncr3[m]) \ S \subseteq stranded',
         \A u \in Threads :
           Inside(u)' => Inside(u) /\ walk'[u] = walk[u] /\ walk[u].vmm # m
  PROVE  SeqInv' /\ OthersSame(m)
<1>1. S \in SUBSET Pages /\ \A p \in S : refs[p] = 1
  BY SoleUser
<1>2. /\ \A p \in Pages \ S : role'[p] = role[p] /\ entrys'[p] = entrys[p]
      /\ Allocated' = Allocated \ S
  BY <1>1, PagesFreed DEF IInv
<1>3. \A n \in Vmms \ {m} : ncr3'[n] = ncr3[n]
  BY DEF IInv, TypeOK
<1>4. OthersSame(m)
  <2> SUFFICES ASSUME NEW n \in Vmms \ {m}, ncr3[n] # NULL,
                      NEW q \in Tree(ncr3[n])
               PROVE  entrys'[q] = entrys[q] /\ role'[q] = role[q]
    BY <1>3 DEF OthersSame, VmSame
  <2>1. q \in Pages /\ q \notin S
    BY TreeFacts DEF IInv, Allocated, PagesInv, GuestsIsolated
  <2> QED BY <1>2, <2>1
<1>5. \A p \in Allocated' :
        \/ p \in stranded'
        \/ p \in Allocated /\ p \notin Tree(ncr3[m])
  BY <1>2
<1> QED BY <1>4, <1>5, SeqKept

(* The failed creation frees the root and strands the rest.                 *)
LEMMA SeqCreateFail ==
  ASSUME IInv, SeqInv, NEW t \in Threads, create_vmm_fail(t)
  PROVE  SeqInv' /\ OthersSame(walk[t].vmm)
<1> DEFINE m == walk[t].vmm
           r == ncr3[m]
           S == {r}
<1>1. Inside(t) /\ walk[t].caller = "create"
  BY DEF create_vmm_fail, At, Inside
<1>2. /\ m \in Vmms /\ r # NULL
      /\ \A u \in Threads \ {t} : Inside(u) => walk[u].vmm # m
  BY <1>1 DEF IInv, WalksInv, CallsOK
<1>3. /\ free_pages(S)
      /\ stranded' = stranded \union (Tree(r) \ S)
      /\ ncr3' = [ncr3 EXCEPT ![m] = NULL]
      /\ Return(t)
  BY DEF create_vmm_fail
<1>4. r \in Tree(r) /\ role[r] = PML4T
  BY <1>2, TreeFacts DEF IInv, PagesInv, RootsOK
<1>5. S \in SUBSET Tree(r)
  BY <1>4
<1>6. \A g \in Gfns : upte[m][g] \notin S
  BY <1>2, <1>4 DEF IInv, PagesInv, PageRefsExact, PML4T
<1>7. ~Inside(t)' /\ \A u \in Threads \ {t} : walk'[u] = walk[u]
  BY <1>3 DEF Return, Idle, Inside, IInv, TypeOK
<1>8. \A u \in Threads :
        Inside(u)' => Inside(u) /\ walk'[u] = walk[u] /\ walk[u].vmm # m
  BY <1>2, <1>7 DEF Inside
<1>9. stranded \subseteq stranded' /\ Tree(r) \ S \subseteq stranded'
  BY <1>3
<1> HIDE DEF m, S
<1> QED BY <1>2, <1>3, <1>5, <1>6, <1>8, <1>9, SeqFreed DEF m

(* The end of a vm frees its whole tree.                                    *)
LEMMA SeqDestroy ==
  ASSUME IInv, SeqInv, NEW m \in Vmms, yakvm_destroy_vmm(m)
  PROVE  SeqInv' /\ OthersSame(m)
<1> DEFINE S == Tree(ncr3[m])
<1>1. /\ m \in ready
      /\ \A g \in Gfns : upte[m][g] = NULL
      /\ free_pages(S)
      /\ ncr3' = [ncr3 EXCEPT ![m] = NULL]
      /\ stranded' = stranded /\ walk' = walk
  BY DEF yakvm_destroy_vmm
<1>2. ncr3[m] # NULL
  BY <1>1 DEF IInv, PagesInv, RootsOK
<1>3. S \subseteq Pages
  BY <1>2, TreeFacts DEF IInv, Allocated
<1>4. \A g \in Gfns : upte[m][g] \notin S
  BY <1>1, <1>3, ConstantsAssumption
<1>5. \A u \in Threads :
        Inside(u)' => Inside(u) /\ walk'[u] = walk[u] /\ walk[u].vmm # m
  BY <1>1 DEF yakvm_destroy_vmm, Walking, Inside
<1>6. S \in SUBSET Tree(ncr3[m]) /\ Tree(ncr3[m]) \ S \subseteq stranded'
  OBVIOUS
<1> HIDE DEF S
<1> QED BY <1>1, <1>2, <1>4, <1>5, <1>6, SeqFreed

(* The creation of a vm is over: its tree is as it was, and no entry of a   *)
(* PT in it is present.                                                     *)
LEMMA DoneFacts ==
  ASSUME IInv, SeqInv, NEW t \in Threads, create_vmm_done(t)
  PROVE  LET m == walk[t].vmm
             r == ncr3[m]
         IN /\ Inside(t) /\ walk[t].caller = "create"
            /\ m \in Vmms \ ready /\ r # NULL
            /\ ready' = ready \union {m} /\ Return(t)
            /\ UNCHANGED <<refs, role, ncr3, pgoff, upte, stranded, panicked>>
            /\ Allocated' = Allocated
            /\ OthersSame(m)
            /\ TreeIn(entrys', r) = Tree(r)
            /\ \A q \in Tree(r), i \in Index :
                 /\ entrys'[q][i].page = entrys[q][i].page
                 /\ entrys'[q][i].present => entrys[q][i].present
                 /\ role[q] = PT => ~entrys'[q][i].present
<1> DEFINE m == walk[t].vmm
           r == ncr3[m]
           T == walk[t].table
           k == table_index(walk[t].gfn, walk[t].level)
<1>1. /\ Inside(t) /\ walk[t].caller = "create"
      /\ entrys' = [entrys EXCEPT ![T][k].present = FALSE]
      /\ ready' = ready \union {m} /\ Return(t)
      /\ UNCHANGED <<refs, role, ncr3, pgoff, upte, stranded, panicked>>
  BY DEF create_vmm_done, At, Inside, userVars
<1>2. /\ m \in Vmms \ ready /\ r # NULL
      /\ Allocated' = Allocated
  BY <1>1 DEF IInv, WalksInv, CallsOK, Allocated
<1>3. WalkOK(t) /\ WalkReached(t) /\ NoMemoryYet(t)
  BY <1>1 DEF SeqInv, WalkOK
<1>4. T \in Tree(r) /\ k \in Index
  BY <1>1, <1>3, WalkInTree
<1>5. \A n \in Vmms : ncr3[n] # NULL => Tree(ncr3[n]) \subseteq Pages
  BY TreeFacts DEF IInv, Allocated
<1> HIDE DEF k
<1>6. /\ \A q \in Pages \ {T} : entrys'[q] = entrys[q]
      /\ \A q \in Pages, i \in Index :
           q # T \/ i # k => entrys'[q][i] = entrys[q][i]
      /\ entrys'[T][k].page = entrys[T][k].page
      /\ entrys'[T][k].present = FALSE
  <2> DEFINE e == [entrys[T][k] EXCEPT !.present = FALSE]
  <2>1. T \in Pages
    BY <1>2, <1>4, <1>5
  <2>2. e.page = entrys[T][k].page /\ e.present = FALSE
    <3>1. entrys[T][k] \in Entry
      BY <1>4, <2>1 DEF IInv, TypeOK
    <3> QED BY <3>1 DEF Entry
  <2>3. entrys' = [entrys EXCEPT ![T][k] = e]
    BY <1>1 DEF k
  <2> HIDE DEF e
  <2> QED BY <1>4, <2>1, <2>2, <2>3 DEF IInv, TypeOK
<1>7. OthersSame(m)
  <2> SUFFICES ASSUME NEW n \in Vmms \ {m}, ncr3[n] # NULL,
                      NEW q \in Tree(ncr3[n])
               PROVE  entrys'[q] = entrys[q]
    BY <1>1 DEF OthersSame, VmSame
  <2>1. T \notin Tree(ncr3[n])
    BY <1>2, <1>4 DEF IInv, PagesInv, GuestsIsolated
  <2> QED BY <1>5, <1>6, <2>1
<1>8. \A q \in Tree(r), i \in Index :
        /\ entrys'[q][i].page = entrys[q][i].page
        /\ entrys'[q][i].present => entrys[q][i].present
  BY <1>2, <1>5, <1>6
<1>9. ASSUME NEW q \in Tree(r), NEW i \in Index, role[q] = PT
      PROVE  ~entrys'[q][i].present
  <2>1. CASE q = T /\ i = k
    BY <1>6, <2>1
  <2>2. CASE q # T \/ i # k
    <3>1. entrys[q][i] = NoEntry
      BY <1>3, <1>9, <2>2 DEF NoMemoryYet, k
    <3> QED BY <1>2, <1>5, <1>6, <2>2, <3>1 DEF NoEntry
  <2> QED BY <2>1, <2>2
<1>10. TreeIn(entrys', r) = Tree(r)
  <2>1. Tree(r) = TreeIn(entrys, r)
    BY <1>2, TreeDef
  <2>2. TreeIn(entrys, r) \subseteq TreeIn(entrys', r)
    BY <1>8, <2>1, TreeGrows
  <2>3. TreeIn(entrys', r) \subseteq Tree(r)
    <3>1. r \in Tree(r)
      BY <1>2, TreeFacts DEF IInv
    <3>2. \A q \in Tree(r), i \in Index :
            entrys'[q][i].page \in Pages => entrys'[q][i].page \in Tree(r)
      BY <1>2, <1>8, TreeFacts, ConstantsAssumption DEF IInv
    <3> QED BY <3>1, <3>2, TreeLeast
  <2> QED BY <2>1, <2>2, <2>3
<1> QED BY <1>1, <1>2, <1>7, <1>8, <1>9, <1>10

(* It leaves no thread in the vm.                                           *)
LEMMA SeqCreateDone ==
  ASSUME IInv, SeqInv, NEW t \in Threads, create_vmm_done(t)
  PROVE  SeqInv'
<1> DEFINE m == walk[t].vmm
<1>1. /\ Inside(t) /\ walk[t].caller = "create"
      /\ m \in Vmms /\ ncr3[m] # NULL /\ Return(t)
      /\ ncr3' = ncr3 /\ stranded' = stranded /\ Allocated' = Allocated
      /\ OthersSame(m) /\ TreeIn(entrys', ncr3[m]) = Tree(ncr3[m])
  BY DoneFacts
<1>2. \A u \in Threads \ {t} : Inside(u) => walk[u].vmm # m
  BY <1>1 DEF IInv, WalksInv, CallsOK
<1>3. ~Inside(t)' /\ \A u \in Threads \ {t} : walk'[u] = walk[u]
  BY <1>1 DEF Return, Idle, Inside, IInv, TypeOK
<1>4. \A u \in Threads :
        Inside(u)' => Inside(u) /\ walk'[u] = walk[u] /\ walk[u].vmm # m
  BY <1>2, <1>3 DEF Inside
<1> HIDE DEF m
<1>5. \A n \in Vmms : Tree(ncr3[n])' = TreeIn(entrys', ncr3'[n])
  BY TreeDef
<1>6. \A p \in Allocated' :
        \/ p \in TreeIn(entrys', ncr3'[m])
        \/ p \in Allocated /\ p \notin Tree(ncr3[m])
  BY <1>1
<1> QED BY <1>1, <1>4, <1>5, <1>6, SeqKept

(* Every step keeps the invariant.                                          *)
LEMMA NextSeq == IInv /\ SeqInv /\ IInv' /\ [Next]_vars => SeqInv'
<1> SUFFICES ASSUME IInv, SeqInv, IInv', [Next]_vars PROVE SeqInv'
  OBVIOUS
<1>1. ASSUME UNCHANGED <<role, entrys, ncr3, stranded, walk>>,
             Allocated' = Allocated
      PROVE  SeqInv'
  <2>1. \A u \in Threads : Inside(u)' => Inside(u) /\ walk'[u] = walk[u]
    BY <1>1 DEF Inside
  <2> QED BY <1>1, <2>1, TablesSame
<1>2. CASE UNCHANGED vars
  BY <1>1, <1>2 DEF vars, Allocated
<1>3. ASSUME NEW t \in Threads, Enter(t)
      PROVE  SeqInv'
  <2>1. ASSUME NEW m \in Vmms, NEW g \in Gfns, yakvm_vm_ioctl_mmap_page(t, m, g)
        PROVE  SeqInv'
    BY <2>1, SeqBegin DEF yakvm_vm_ioctl_mmap_page
  <2>2. ASSUME NEW m \in Vmms, NEW u \in Gfns, yakvm_vm_vmm_fault(t, m, u)
        PROVE  SeqInv'
    BY <2>2, SeqBegin DEF yakvm_vm_vmm_fault
  <2> QED BY <1>3, <2>1, <2>2, SeqCreate DEF Enter
<1>4. ASSUME NEW t \in Threads, WalkStep(t)
      PROVE  SeqInv'
  <2>1. CASE npt_missing(t)
    BY <2>1, SeqMissing
  <2>2. CASE npt_follow(t)
    BY <2>2, SeqFollow
  <2>3. CASE npt_assert(t)
    BY <1>1, <2>3 DEF npt_assert, pageVars, vmVars, Allocated
  <2>4. CASE npt_alloc(t)
    BY <2>4, SeqAlloc
  <2>5. CASE npt_alloc_fail(t) \/ mmap_page_done(t) \/ fault_done_late(t)
    <3>1. /\ UNCHANGED <<role, entrys, ncr3, stranded>> /\ Return(t)
          /\ Allocated' = Allocated
      BY <2>5
      DEF npt_alloc_fail, mmap_page_done, fault_done_late, pageVars, vmVars,
          Allocated
    <3> QED BY <3>1, SeqReturn
  <2>6. CASE create_vmm_fail(t)
    BY <2>6, SeqCreateFail
  <2>7. CASE create_vmm_done(t)
    BY <2>7, SeqCreateDone
  <2>8. CASE fault_done(t)
    <3>1. /\ UNCHANGED <<role, entrys, ncr3, stranded>> /\ Return(t)
          /\ refs' = [refs EXCEPT ![walk[t].page] = @ + 1]
          /\ walk[t].at = "done"
      BY <2>8 DEF fault_done, vmVars, At
    <3>2. walk[t].page \in Allocated
      BY <3>1 DEF IInv, WalksInv, WalkersSafe
    <3>3. Allocated' = Allocated
      BY <3>1, <3>2 DEF Allocated, IInv, TypeOK
    <3> QED BY <3>1, <3>3, SeqReturn
  <2> QED BY <1>4, <2>1, <2>2, <2>3, <2>4, <2>5, <2>6, <2>7, <2>8 DEF WalkStep
<1>5. ASSUME NEW m \in Vmms, NEW g \in Gfns, zap_pte(m, g)
      PROVE  SeqInv'
  <2>1. /\ role' = role /\ entrys' = entrys /\ Allocated' = Allocated
        /\ UNCHANGED <<ncr3, stranded, walk>>
    BY <1>5, ZapFacts DEF zap_pte, vmVars
  <2> QED BY <1>1, <2>1
<1>6. ASSUME NEW m \in Vmms, NEW off \in Offsets, yakvm_vm_mmap(m, off)
      PROVE  SeqInv'
  BY <1>1, <1>6 DEF yakvm_vm_mmap, pageVars, vmVars, Allocated
<1>7. ASSUME NEW m \in Vmms, yakvm_destroy_vmm(m)
      PROVE  SeqInv'
  BY <1>7, SeqDestroy
<1> QED BY <1>2, <1>3, <1>4, <1>5, <1>6, <1>7 DEF Next, Halted

(* With one thread per vm a walk is always where the processor would be.    *)
THEOREM SequentialInvariance == SoleThreads /\ Spec => []SeqInv
<1>1. SoleThreads /\ Init => SeqInv
  <2> SUFFICES ASSUME SoleThreads, Init PROVE SeqInv
    OBVIOUS
  <2>1. Allocated = {}
    BY DEF Init, Allocated
  <2> QED BY <2>1 DEF Init, SeqInv, NoPageLeak, Inside, Idle
<1> QED BY <1>1, NextSeq, Invariance, PTL DEF Spec

(* With one thread per vm every page in use hangs below the root of a vm    *)
(* that exists, and yakvm_destroy_vmm() will free it, except what a failed  *)
(* yakvm_create_vmm() left behind: no call of yakvm_vmm_npt_create(), done, *)
(* failed or under way, loses a page.                                       *)
THEOREM NoPageLeakTheorem == SoleThreads /\ Spec => []NoPageLeak
<1>1. SeqInv => NoPageLeak
  BY DEF SeqInv
<1> QED BY <1>1, SequentialInvariance, PTL

-----------------------------------------------------------------------------
(* What a step does to the memory of the guests.                            *)

(* Only the store of an entry, the end of a creation and the end of a vm    *)
(* change what the processor finds in a vm that exists, or which vms do.    *)
LEMMA StepKinds ==
  ASSUME IInv, SeqInv, [Next]_vars
  PROVE  \/ \E t \in Threads : npt_alloc(t)
         \/ \E t \in Threads : create_vmm_done(t)
         \/ \E m \in Vmms : yakvm_destroy_vmm(m)
         \/ ready' = ready /\ \A n \in ready : VmSame(n)
<1> DEFINE Quiet == ready' = ready /\ \A n \in ready : VmSame(n)
<1>1. ready \subseteq Vmms /\ \A n \in ready : ncr3[n] # NULL
  BY DEF IInv, TypeOK, PagesInv, RootsOK
<1>2. ASSUME UNCHANGED <<role, entrys, ncr3, ready>>
      PROVE  Quiet
  BY <1>2 DEF VmSame
<1>3. ASSUME UNCHANGED vars
      PROVE  Quiet
  BY <1>2, <1>3 DEF vars
<1>4. ASSUME NEW t \in Threads, NEW m \in Vmms, yakvm_create_vmm(t, m)
      PROVE  Quiet
  <2>1. PICK p \in Pages :
          /\ alloc_page(p, PML4T)
          /\ entrys' = [entrys EXCEPT ![p] = EmptyTable]
          /\ ncr3' = [ncr3 EXCEPT ![m] = p]
    BY <1>4 DEF yakvm_create_vmm
  <2>2. p \in Pick(Pages \ Allocated) /\ ncr3[m] = NULL /\ ready' = ready
    BY <1>4, <2>1 DEF alloc_page, yakvm_create_vmm
  <2>3. \A n \in Vmms : ncr3[n] # NULL => p \notin Tree(ncr3[n])
    BY <2>2, FreshPage
  <2>4. /\ \A q \in Pages \ {p} : entrys'[q] = entrys[q] /\ role'[q] = role[q]
        /\ \A n \in Vmms \ {m} : ncr3'[n] = ncr3[n]
    BY <2>1 DEF IInv, TypeOK, alloc_page
  <2>5. \A n \in ready : n # m /\ Tree(ncr3[n]) \subseteq Pages
    BY <1>1, <2>2, TreeFacts DEF IInv, Allocated
  <2> QED BY <1>1, <2>2, <2>3, <2>4, <2>5 DEF VmSame
<1>5. ASSUME NEW t \in Threads, create_vmm_fail(t)
      PROVE  Quiet
  <2>1. ready' = ready /\ Inside(t) /\ walk[t].caller = "create"
    BY <1>5 DEF create_vmm_fail, At, Inside
  <2>2. walk[t].vmm \notin ready
    BY <2>1 DEF IInv, WalksInv, CallsOK
  <2>3. OthersSame(walk[t].vmm)
    BY <1>5, SeqCreateFail
  <2> QED BY <1>1, <2>1, <2>2, <2>3 DEF OthersSame
<1>6. ASSUME NEW t \in Threads,
             \/ npt_missing(t) \/ npt_follow(t) \/ npt_assert(t)
             \/ npt_alloc_fail(t) \/ mmap_page_done(t)
             \/ fault_done(t) \/ fault_done_late(t)
      PROVE  Quiet
  BY <1>2, <1>6
  DEF npt_missing, npt_follow, npt_assert, npt_alloc_fail, mmap_page_done,
      fault_done, fault_done_late, pageVars, vmVars
<1>7. ASSUME NEW t \in Threads, NEW m \in Vmms, NEW g \in Gfns,
             yakvm_vm_ioctl_mmap_page(t, m, g) \/ yakvm_vm_vmm_fault(t, m, g)
      PROVE  Quiet
  BY <1>2, <1>7
  DEF yakvm_vm_ioctl_mmap_page, yakvm_vm_vmm_fault, pageVars, vmVars
<1>8. ASSUME NEW m \in Vmms, NEW g \in Gfns, zap_pte(m, g)
      PROVE  Quiet
  <2>1. role' = role /\ entrys' = entrys /\ UNCHANGED <<ncr3, ready>>
    BY <1>8, ZapFacts DEF zap_pte, vmVars
  <2> QED BY <1>2, <2>1
<1>9. ASSUME NEW m \in Vmms, NEW off \in Offsets, yakvm_vm_mmap(m, off)
      PROVE  Quiet
  BY <1>2, <1>9 DEF yakvm_vm_mmap, pageVars, vmVars
<1> HIDE DEF Quiet
<1>10. ASSUME NEW t \in Threads, Enter(t)
       PROVE  Quiet
  BY <1>4, <1>7, <1>10 DEF Enter
<1>11. ASSUME NEW t \in Threads, WalkStep(t)
       PROVE  Quiet \/ npt_alloc(t) \/ create_vmm_done(t)
  BY <1>5, <1>6, <1>11 DEF WalkStep
<1>12. \/ \E t \in Threads : npt_alloc(t)
       \/ \E t \in Threads : create_vmm_done(t)
       \/ \E m \in Vmms : yakvm_destroy_vmm(m)
       \/ Quiet
  BY <1>3, <1>8, <1>9, <1>10, <1>11 DEF Next, Halted
<1> QED BY <1>12 DEF Quiet

(* The store of an entry puts the new page behind frames that had none, or  *)
(* behind none at all.                                                      *)
LEMMA StoreMemory ==
  ASSUME IInv, SeqInv, IInv', NEW t \in Threads, npt_alloc(t)
  PROVE  \E p \in Pages :
           /\ p \notin Allocated
           /\ \A n \in Vmms, g \in Nat :
                ncr3[n] # NULL =>
                  \/ Translate(n, g)' = Translate(n, g)
                  \/ /\ n = walk[t].vmm
                     /\ Translate(n, g) = NULL /\ Translate(n, g)' = p
<1> DEFINE m == walk[t].vmm
           r == ncr3[m]
           T == walk[t].table
           k == table_index(walk[t].gfn, walk[t].level)
<1>1. /\ ncr3' = ncr3 /\ entrys[T][k] = NoEntry /\ OthersSame(m) /\ Inside(t)
  BY StoreFacts
<1>2. PICK p \in Pages :
        /\ p \notin Allocated
        /\ \A i \in Index : entrys'[p][i] = NoEntry
        /\ \A q \in Tree(r), i \in Index :
             q # T \/ i # k => entrys'[q][i] = entrys[q][i]
        /\ entrys'[T][k] = [page |-> p, present |-> TRUE]
  BY StoreFacts
<1>3. m \in Vmms /\ r # NULL
  BY <1>1 DEF IInv, WalksInv, CallsOK
<1>4. ASSUME NEW g \in Nat
      PROVE  \/ Reach(entrys', r, g, 0) = Reach(entrys, r, g, 0)
             \/ Reach(entrys, r, g, 0) = NULL /\ Reach(entrys', r, g, 0) = p
  <2> DEFINE R(l) == Reach(entrys, r, g, l)
             F(l) == Reach(entrys', r, g, l)
             OK(l) == F(l) = R(l) \/ (R(l) = NULL /\ F(l) = p)
             S == {l \in 0 .. 4 : OK(l)}
  <2>1. OK(4)
    BY ReachTop
  <2>2. ASSUME NEW l \in Levels, OK(l)
        PROVE  OK(l - 1)
    <3> DEFINE i == table_index(g, l)
    <3>1. R(l - 1) = HopIn(entrys, R(l), g, l)
      BY ReachNext
    <3>2. F(l - 1) = HopIn(entrys', F(l), g, l)
      BY ReachNext
    <3>3. l \in 0 .. 4
      BY DEF Levels, PT, PML4T
    <3>4. R(l) # NULL => R(l) \in Tree(r)
      BY <1>3, <3>3, ReachFacts DEF IInv
    <3>5. i \in Index
      BY IndexInTable
    <3> HIDE DEF R, F, r, T, k
    <3>6. CASE F(l) = R(l) /\ R(l) = NULL
      BY <3>1, <3>2, <3>6 DEF HopIn
    <3>7. CASE F(l) = R(l) /\ R(l) # NULL /\ R(l) = T /\ i = k
      <4>1. R(l - 1) = NULL
        BY <1>1, <3>1, <3>7 DEF HopIn, NoEntry, T, k
      <4>2. F(l - 1) = p
        BY <1>2, <3>2, <3>7 DEF HopIn, T, k
      <4> QED BY <4>1, <4>2
    <3>8. CASE F(l) = R(l) /\ R(l) # NULL /\ (R(l) # T \/ i # k)
      <4>1. entrys'[R(l)][i] = entrys[R(l)][i]
        BY <1>2, <3>4, <3>5, <3>8 DEF r, T, k
      <4> QED BY <3>1, <3>2, <3>8, <4>1 DEF HopIn
    <3>9. CASE R(l) = NULL /\ F(l) = p
      <4>1. ~entrys'[p][i].present
        BY <1>2, <3>5 DEF NoEntry
      <4> QED BY <3>1, <3>2, <3>9, <4>1 DEF HopIn
    <3> QED BY <2>2, <3>6, <3>7, <3>8, <3>9
  <2> HIDE DEF OK
  <2>3. \A l \in Levels : l \in S => l - 1 \in S
    BY <2>2 DEF Levels, PT, PML4T
  <2>4. 4 \in S
    BY <2>1
  <2> HIDE DEF S
  <2>5. 0 \in S
    <3>1. S \in SUBSET (0 .. 4) /\ 0 \in 0 .. 4
      BY DEF S
    <3> QED BY <2>3, <2>4, <3>1, WholeWay
  <2>6. OK(0)
    BY <2>5 DEF S
  <2>7. Reach(entrys, r, g, 0) = R(0) /\ Reach(entrys', r, g, 0) = F(0)
    OBVIOUS
  <2> QED BY <2>6, <2>7 DEF OK
<1>5. ASSUME NEW n \in Vmms, n = m, NEW g \in Nat
      PROVE  \/ Translate(n, g)' = Translate(n, g)
             \/ Translate(n, g) = NULL /\ Translate(n, g)' = p
  BY <1>1, <1>4, <1>5, TranslateDef
<1>6. ASSUME NEW n \in Vmms \ {m}, NEW g \in Nat, ncr3[n] # NULL
      PROVE  Translate(n, g)' = Translate(n, g)
  <2>1. VmSame(n)
    BY <1>1 DEF OthersSame
  <2> QED BY <1>6, <2>1, SameTranslate
<1> QED BY <1>2, <1>5, <1>6

(* What the processor finds behind a frame stays there while the vm exists. *)
LEMMA MemoryStays ==
  ASSUME IInv, SeqInv, IInv', [Next]_vars, NEW m \in ready, m \in ready',
         NEW g \in Nat, Translate(m, g) # NULL
  PROVE  Translate(m, g)' = Translate(m, g)
<1>1. m \in Vmms /\ ncr3[m] # NULL
  BY DEF IInv, TypeOK, PagesInv, RootsOK
<1>2. ASSUME VmSame(m)
      PROVE  Translate(m, g)' = Translate(m, g)
  BY <1>1, <1>2, SameTranslate
<1>3. ASSUME NEW t \in Threads, npt_alloc(t)
      PROVE  Translate(m, g)' = Translate(m, g)
  BY <1>1, <1>3, StoreMemory
<1>4. ASSUME NEW t \in Threads, create_vmm_done(t)
      PROVE  Translate(m, g)' = Translate(m, g)
  <2>1. walk[t].vmm \notin ready /\ OthersSame(walk[t].vmm)
    BY <1>4, DoneFacts
  <2> QED BY <1>1, <1>2, <2>1 DEF OthersSame
<1>5. ASSUME NEW n \in Vmms, yakvm_destroy_vmm(n)
      PROVE  Translate(m, g)' = Translate(m, g)
  <2>1. ready' = ready \ {n} /\ OthersSame(n)
    BY <1>5, SeqDestroy DEF yakvm_destroy_vmm
  <2> QED BY <1>1, <1>2, <2>1 DEF OthersSame
<1> QED BY <1>2, <1>3, <1>4, <1>5, StepKinds

(* With one thread per vm, memory the guest has been given is never taken   *)
(* away or replaced: npt_create only stores entries that are still missing. *)
THEOREM StableTheorem == SoleThreads /\ Spec => GuestMemoryStable
<1> DEFINE A == \A m \in ready \cap ready', g \in Gfns :
                  Translate(m, g) # NULL => Translate(m, g)' = Translate(m, g)
<1>1. IInv /\ SeqInv /\ IInv' /\ [Next]_vars => [A]_vars
  <2> SUFFICES ASSUME IInv, SeqInv, IInv', [Next]_vars,
                      NEW m \in ready \cap ready', NEW g \in Gfns,
                      Translate(m, g) # NULL
               PROVE  Translate(m, g)' = Translate(m, g)
    OBVIOUS
  <2>1. m \in ready /\ m \in ready' /\ g \in Nat
    BY ConstantsAssumption
  <2> QED BY <2>1, MemoryStays
<1> QED BY <1>1, Invariance, SequentialInvariance, PTL
        DEF Spec, GuestMemoryStable

-----------------------------------------------------------------------------
(* What user space sees.                                                    *)

(* A step other than the end of a fault maps nothing.                       *)
LEMMA MapsNothing ==
  ASSUME IInv, [Next]_vars, \A t \in Threads : ~fault_done(t),
         NEW m \in Vmms, NEW g \in Gfns
  PROVE  upte'[m][g] \in {NULL, upte[m][g]}
<1>1. ASSUME upte' = upte
      PROVE  upte'[m][g] \in {NULL, upte[m][g]}
  BY <1>1
<1>2. CASE UNCHANGED vars
  BY <1>1, <1>2 DEF vars
<1>3. ASSUME NEW t \in Threads, Enter(t) \/ WalkStep(t)
      PROVE  upte' = upte
  BY <1>3
  DEF Enter, WalkStep, yakvm_create_vmm, yakvm_vm_ioctl_mmap_page,
      yakvm_vm_vmm_fault, npt_missing, npt_follow, npt_assert, npt_alloc,
      npt_alloc_fail, create_vmm_fail, create_vmm_done, mmap_page_done,
      fault_done_late, userVars
<1>4. ASSUME NEW n \in Vmms, NEW h \in Gfns, zap_pte(n, h)
      PROVE  upte'[m][g] \in {NULL, upte[m][g]}
  <2>1. upte' = [upte EXCEPT ![n][h] = NULL]
    BY <1>4 DEF zap_pte
  <2> QED BY <2>1 DEF IInv, TypeOK
<1>5. ASSUME NEW n \in Vmms, NEW off \in Offsets, yakvm_vm_mmap(n, off)
      PROVE  upte' = upte
  BY <1>5 DEF yakvm_vm_mmap
<1>6. ASSUME NEW n \in Vmms, yakvm_destroy_vmm(n)
      PROVE  upte' = upte
  BY <1>6 DEF yakvm_destroy_vmm, userVars
<1> QED BY <1>1, <1>2, <1>3, <1>4, <1>5, <1>6 DEF Next, Halted

(* The page a fault maps is the one behind its frame.                       *)
LEMMA UserFault ==
  ASSUME IInv, SeqInv, UserInv, NEW t \in Threads, fault_done(t)
  PROVE  UserInv'
<1> DEFINE n == walk[t].vmm
           h == walk[t].gfn
<1>1. /\ walk[t].at = "done" /\ Inside(t) /\ walk[t].caller = "fault"
      /\ upte' = [upte EXCEPT ![n][FaultPage(t)] = walk[t].page]
      /\ UNCHANGED <<entrys, ncr3, ready, pgoff>>
  BY DEF fault_done, At, Inside, vmVars
<1>2. /\ n \in Vmms /\ ncr3[n] # NULL /\ n \in ready /\ FaultPage(t) \in Gfns
  BY <1>1 DEF IInv, WalksInv, CallsOK
<1>3. h \in Nat
  BY DEF IInv, TypeOK, Walk
<1>4. FaultPage(t) = h
  BY <1>2, <1>3 DEF UserInv, FaultPage
<1>5. walk[t].page = Reach(entrys, ncr3[n], h, 0)
  BY <1>1 DEF SeqInv, WalkOK, WalkReached
<1>6. \A m \in Vmms, g \in Gfns :
        \/ upte'[m][g] = upte[m][g]
        \/ m = n /\ g = h /\ upte'[m][g] = walk[t].page
  BY <1>1, <1>2, <1>4 DEF IInv, TypeOK
<1>7. UserSeesGuest'
  <2> SUFFICES ASSUME NEW m \in ready', NEW g \in Gfns, upte'[m][g] # NULL
               PROVE  Translate(m, g)' = upte'[m][g]
    BY DEF UserSeesGuest
  <2>1. m \in Vmms /\ m \in ready
    BY <1>1 DEF IInv, TypeOK
  <2>2. Translate(m, g)' = Translate(m, g)
    BY <1>1, <2>1, TranslateDef
  <2>3. CASE upte'[m][g] = upte[m][g]
    BY <2>1, <2>2, <2>3 DEF UserInv, UserSeesGuest
  <2>4. CASE m = n /\ g = h /\ upte'[m][g] = walk[t].page
    BY <1>5, <2>1, <2>2, <2>4, TranslateDef
  <2> QED BY <1>6, <2>1, <2>3, <2>4
<1> QED BY <1>1, <1>2, <1>6, <1>7 DEF UserInv

(* Every other step leaves what is mapped, or takes it away.                *)
LEMMA NextUser ==
  IInv /\ SeqInv /\ UserInv /\ IInv' /\ [Next]_vars => UserInv'
<1> SUFFICES ASSUME IInv, SeqInv, UserInv, IInv', [Next]_vars,
                    \A t \in Threads : ~fault_done(t)
             PROVE  UserInv'
  BY UserFault
<1>1. \A m \in Vmms, g \in Gfns : upte'[m][g] \in {NULL, upte[m][g]}
  BY MapsNothing
<1>2. \A m \in Vmms : pgoff'[m] = 0
  <2>1. ASSUME NEW m \in Vmms, NEW off \in Offsets, yakvm_vm_mmap(m, off)
        PROVE  \A n \in Vmms : pgoff'[n] = 0
    BY <2>1 DEF yakvm_vm_mmap, UserInv, IInv, TypeOK
  <2>2. ASSUME pgoff' = pgoff
        PROVE  \A n \in Vmms : pgoff'[n] = 0
    BY <2>2 DEF UserInv
  <2>3. ASSUME NEW t \in Threads, Enter(t) \/ WalkStep(t)
        PROVE  pgoff' = pgoff
    BY <2>3
    DEF Enter, WalkStep, yakvm_create_vmm, yakvm_vm_ioctl_mmap_page,
        yakvm_vm_vmm_fault, npt_missing, npt_follow, npt_assert, npt_alloc,
        npt_alloc_fail, create_vmm_fail, create_vmm_done, mmap_page_done,
        fault_done_late, userVars
  <2>4. ASSUME NEW m \in Vmms, NEW g \in Gfns, zap_pte(m, g)
        PROVE  pgoff' = pgoff
    BY <2>4 DEF zap_pte
  <2>5. ASSUME NEW m \in Vmms, yakvm_destroy_vmm(m)
        PROVE  pgoff' = pgoff
    BY <2>5 DEF yakvm_destroy_vmm, userVars
  <2>6. CASE UNCHANGED vars
    BY <2>2, <2>6 DEF vars
  <2> QED BY <2>1, <2>2, <2>3, <2>4, <2>5, <2>6 DEF Next, Halted
<1>3. ASSUME NEW m \in Vmms \ ready', NEW g \in Gfns
      PROVE  upte'[m][g] = NULL
  <2>1. CASE m \in ready
    <3>1. yakvm_destroy_vmm(m)
      <4>1. ~(ready' = ready)
        BY <1>3, <2>1
      <4>2. \A t \in Threads : npt_alloc(t) \/ create_vmm_done(t) =>
              ready \subseteq ready'
        BY DEF npt_alloc, create_vmm_done, vmVars
      <4>3. \A n \in Vmms : yakvm_destroy_vmm(n) => ready' = ready \ {n}
        BY DEF yakvm_destroy_vmm
      <4> QED BY <1>3, <2>1, <4>1, <4>2, <4>3, StepKinds
    <3>2. upte[m][g] = NULL
      BY <3>1 DEF yakvm_destroy_vmm
    <3> QED BY <1>1, <3>2
  <2>2. CASE m \notin ready
    BY <1>1, <2>2 DEF UserInv
  <2> QED BY <2>1, <2>2
<1>4. UserSeesGuest'
  <2> SUFFICES ASSUME NEW m \in ready', NEW g \in Gfns, upte'[m][g] # NULL
               PROVE  Translate(m, g)' = upte'[m][g]
    BY DEF UserSeesGuest
  <2>1. m \in Vmms
    BY DEF IInv, TypeOK
  <2>2. upte'[m][g] = upte[m][g]
    BY <1>1, <2>1
  <2>3. m \in ready
    BY <2>1, <2>2 DEF UserInv
  <2>4. Translate(m, g) = upte[m][g]
    BY <2>2, <2>3 DEF UserInv, UserSeesGuest
  <2>5. g \in Nat
    BY ConstantsAssumption
  <2> QED BY <2>2, <2>3, <2>4, <2>5, MemoryStays
<1> QED BY <1>2, <1>3, <1>4 DEF UserInv

(* With one thread per vm, and mappings of the file that start at its first *)
(* page, the page user space sees at a frame is the one the guest reaches   *)
(* there, as driver/vm.c:167 says of the mapping.                           *)
THEOREM UserTheorem ==
  SoleThreads /\ Offsets = {0} /\ Spec => []UserSeesGuest
<1>1. Offsets = {0} /\ Init => UserInv
  BY DEF Init, UserInv, UserSeesGuest
<1>2. UserInv => UserSeesGuest
  BY DEF UserInv
<1> QED BY <1>1, <1>2, NextUser, Invariance, SequentialInvariance, PTL DEF Spec

-----------------------------------------------------------------------------
(* The memory of module GuestMemory.                                        *)

(* The frames user space asks for are as far as four levels reach: their    *)
(* numbers fit in the bits that table_index() looks at.                     *)
FramesInReach == \A g \in Gfns : g < Fanout * Span[PML4T]

(* mem of GuestMemory, as it is mapped.                                     *)
Mem == [m \in Vmms |-> [g \in Gfns |->
         IF m \in ready THEN Translate(m, g) ELSE NULL]]

(* Its values before and after a step.                                      *)
LEMMA MemValues ==
  ASSUME NEW m \in Vmms, NEW g \in Gfns
  PROVE  /\ Mem[m][g] = IF m \in ready THEN Translate(m, g) ELSE NULL
         /\ Mem'[m][g] = IF m \in ready' THEN Translate(m, g)' ELSE NULL
BY DEF Mem

(* Two memories with the same pages are the same.                           *)
LEMMA MemNext ==
  ASSUME NEW F \in [Vmms -> [Gfns -> Pages \union {NULL}]],
         \A m \in Vmms, g \in Gfns : Mem'[m][g] = F[m][g]
  PROVE  Mem' = F
<1>1. Mem' = [m \in Vmms |-> [g \in Gfns |-> Mem'[m][g]]]
  BY DEF Mem
<1>2. F = [m \in Vmms |-> [g \in Gfns |-> F[m][g]]]
  OBVIOUS
<1> QED BY <1>1, <1>2

(* It is a memory: its pages are pages in use.                              *)
LEMMA MemType ==
  ASSUME IInv
  PROVE  /\ Mem \in [Vmms -> [Gfns -> Pages \union {NULL}]]
         /\ \A m \in Vmms, g \in Gfns :
              Mem[m][g] # NULL => Mem[m][g] \in Allocated
<1>1. ASSUME NEW m \in Vmms, NEW g \in Gfns, Mem[m][g] # NULL
      PROVE  Mem[m][g] \in Allocated
  <2>1. m \in ready /\ Mem[m][g] = Translate(m, g)
    BY <1>1, MemValues
  <2>2. ncr3[m] # NULL /\ g \in Nat /\ 0 \in 0 .. 4
    BY <2>1, ConstantsAssumption DEF IInv, PagesInv, RootsOK
  <2>3. Translate(m, g) = Reach(entrys, ncr3[m], g, 0)
    BY TranslateDef
  <2> QED BY <1>1, <2>1, <2>2, <2>3, ReachFacts DEF IInv
<1>2. \A m \in Vmms, g \in Gfns : Mem[m][g] \in Pages \union {NULL}
  BY <1>1 DEF Allocated
<1>3. Mem = [m \in Vmms |-> [g \in Gfns |-> Mem[m][g]]]
  BY DEF Mem
<1> QED BY <1>1, <1>2, <1>3

(* The steps of GuestMemory in terms of it.                                 *)
LEMMA MemorySteps ==
  ASSUME NEW m \in Vmms,
         \/ m \notin ready /\ ready' = ready \union {m} /\ Mem' = Mem
         \/ \E g \in Gfns, p \in Pages :
              /\ m \in ready /\ g # MmioGfn /\ Mem[m][g] = NULL
              /\ \A n \in Vmms, h \in Gfns : Mem[n][h] # p
              /\ Mem'[m][g] = p
              /\ Mem' = [Mem EXCEPT ![m][g] = p]
              /\ ready' = ready
         \/ /\ m \in ready /\ ready' = ready \ {m}
            /\ Mem' = [Mem EXCEPT ![m] = [g \in Gfns |-> NULL]]
  PROVE  Memory!Next
<1>1. CASE m \notin ready /\ ready' = ready \union {m} /\ Mem' = Mem
  <2>1. Memory!Create(m)
    BY <1>1 DEF Memory!Create, Mem
  <2> QED BY <2>1 DEF Memory!Next
<1>2. CASE \E g \in Gfns, p \in Pages :
             /\ m \in ready /\ g # MmioGfn /\ Mem[m][g] = NULL
             /\ \A n \in Vmms, h \in Gfns : Mem[n][h] # p
             /\ Mem'[m][g] = p
             /\ Mem' = [Mem EXCEPT ![m][g] = p]
             /\ ready' = ready
  <2>1. PICK g \in Gfns, p \in Pages :
          /\ m \in ready /\ g # MmioGfn /\ Mem[m][g] = NULL
          /\ \A n \in Vmms, h \in Gfns : Mem[n][h] # p
          /\ Mem'[m][g] = p
          /\ Mem' = [Mem EXCEPT ![m][g] = p]
          /\ ready' = ready
    BY <1>2
  <2>2. p # NULL
    BY ConstantsAssumption
  <2>3. Memory!Unused(p) <=> \A n \in Vmms, h \in Gfns : Mem[n][h] # p
    BY DEF Memory!Unused, Mem
  <2>4. Memory!Changed(m) = {h \in Gfns : Mem'[m][h] # Mem[m][h]}
    BY DEF Memory!Changed, Mem
  <2>5. Memory!Map(m, g, p) <=>
          /\ m \in ready
          /\ g # MmioGfn
          /\ Mem[m][g] = NULL
          /\ Memory!Unused(p)
          /\ Mem' = [Mem EXCEPT ![m][g] = p]
          /\ UNCHANGED ready
    BY DEF Memory!Map, Mem
  <2>6. g \in Memory!Changed(m) /\ Memory!Map(m, g, p)
    BY <2>1, <2>2, <2>3, <2>4, <2>5
  <2> QED BY <2>6 DEF Memory!Next
<1>3. CASE /\ m \in ready /\ ready' = ready \ {m}
           /\ Mem' = [Mem EXCEPT ![m] = [g \in Gfns |-> NULL]]
  <2>1. Memory!Destroy(m)
    BY <1>3 DEF Memory!Destroy, Mem
  <2> QED BY <2>1 DEF Memory!Next
<1> QED BY <1>1, <1>2, <1>3

(* The store of an entry of a PT maps one frame; the others are not seen.   *)
LEMMA StoreMaps ==
  ASSUME IInv, SeqInv, IInv', FramesDistinct', MmioTraps', FramesInReach,
         NEW t \in Threads, npt_alloc(t)
  PROVE  (ready' = ready /\ Mem' = Mem) \/ Memory!Next
<1>1. ready' = ready
  BY DEF npt_alloc, vmVars
<1>2. PICK p \in Pages :
        /\ p \notin Allocated
        /\ \A n \in Vmms, g \in Nat :
             ncr3[n] # NULL =>
               \/ Translate(n, g)' = Translate(n, g)
               \/ /\ n = walk[t].vmm
                  /\ Translate(n, g) = NULL /\ Translate(n, g)' = p
  BY StoreMemory
<1>3. \A n \in ready : n \in Vmms /\ ncr3[n] # NULL
  BY DEF IInv, TypeOK, PagesInv, RootsOK
<1>4. Gfns \subseteq Nat /\ p # NULL
  BY ConstantsAssumption
<1>5. ASSUME NEW n \in Vmms, NEW g \in Gfns
      PROVE  \/ Mem'[n][g] = Mem[n][g]
             \/ /\ n = walk[t].vmm /\ n \in ready
                /\ Mem[n][g] = NULL /\ Mem'[n][g] = p
  <2>1. CASE n \in ready
    <3>1. \/ Translate(n, g)' = Translate(n, g)
          \/ /\ n = walk[t].vmm
             /\ Translate(n, g) = NULL /\ Translate(n, g)' = p
      BY <1>2, <1>3, <1>4, <2>1
    <3>2. Mem[n][g] = Translate(n, g) /\ Mem'[n][g] = Translate(n, g)'
      BY <1>1, <2>1, MemValues
    <3> QED BY <2>1, <3>1, <3>2
  <2>2. CASE n \notin ready
    BY <1>1, <2>2, MemValues
  <2> QED BY <2>1, <2>2
<1>6. CASE \A n \in Vmms, g \in Gfns : Mem'[n][g] = Mem[n][g]
  BY <1>1, <1>6, MemNext, MemType
<1>7. CASE \E n \in Vmms, g \in Gfns : Mem'[n][g] # Mem[n][g]
  <2>1. PICK m \in Vmms, g \in Gfns : Mem'[m][g] # Mem[m][g]
    BY <1>7
  <2>2. /\ m = walk[t].vmm /\ m \in ready
        /\ Mem[m][g] = NULL /\ Mem'[m][g] = p
    BY <1>5, <2>1
  <2>3. m \in ready' /\ Translate(m, g)' = p
    BY <1>1, <2>2, MemValues
  <2>4. g # MmioGfn
    BY <1>4, <2>3 DEF MmioTraps
  <2>5. ASSUME NEW h \in Gfns, Mem'[m][h] # Mem[m][h]
        PROVE  h = g
    <3>1. Translate(m, h)' = p
      BY <1>5, <2>3, <2>5, MemValues
    <3>2. h < Fanout * Span[PML4T] /\ g < Fanout * Span[PML4T]
      BY DEF FramesInReach
    <3> QED BY <1>4, <2>3, <3>1, <3>2 DEF FramesDistinct
  <2>6. \A n \in Vmms, h \in Gfns : Mem[n][h] # p
    BY <1>2, <1>4, MemType
  <2>7. Mem' = [Mem EXCEPT ![m][g] = p]
    <3> DEFINE F == [Mem EXCEPT ![m][g] = p]
    <3>1. F \in [Vmms -> [Gfns -> Pages \union {NULL}]]
      BY MemType
    <3>2. \A n \in Vmms, h \in Gfns : Mem'[n][h] = F[n][h]
      <4> SUFFICES ASSUME NEW n \in Vmms, NEW h \in Gfns
                   PROVE  Mem'[n][h] = F[n][h]
        OBVIOUS
      <4>1. CASE n = m /\ h = g
        BY <2>2, <4>1, MemType
      <4>2. CASE n # m \/ h # g
        <5>1. F[n][h] = Mem[n][h]
          BY <4>2, MemType
        <5>2. Mem'[n][h] = Mem[n][h]
          BY <1>5, <2>2, <2>5, <4>2
        <5> QED BY <5>1, <5>2
      <4> QED BY <4>1, <4>2
    <3> HIDE DEF F
    <3>3. Mem' = F
      BY <3>1, <3>2, MemNext
    <3> QED BY <3>3 DEF F
  <2>8. \E h \in Gfns, q \in Pages :
          /\ m \in ready /\ h # MmioGfn /\ Mem[m][h] = NULL
          /\ \A n \in Vmms, i \in Gfns : Mem[n][i] # q
          /\ Mem'[m][h] = q
          /\ Mem' = [Mem EXCEPT ![m][h] = q]
          /\ ready' = ready
    BY <1>1, <2>2, <2>4, <2>6, <2>7, ZenonT(30)
  <2>9. Memory!Next
    BY <2>8, MemorySteps, ZenonT(30)
  <2> QED BY <2>9
<1> QED BY <1>6, <1>7

(* The end of a creation makes a vm without memory.                         *)
LEMMA DoneCreates ==
  ASSUME IInv, SeqInv, NEW t \in Threads, create_vmm_done(t)
  PROVE  Memory!Next
<1> DEFINE r == ncr3[walk[t].vmm]
<1>1. PICK m \in Vmms : m = walk[t].vmm
  BY DoneFacts
<1>2. /\ m \notin ready /\ r # NULL /\ ready' = ready \union {m}
      /\ ncr3' = ncr3 /\ role' = role /\ OthersSame(m)
      /\ \A q \in Tree(r), i \in Index :
           /\ entrys'[q][i].page = entrys[q][i].page
           /\ entrys'[q][i].present => entrys[q][i].present
           /\ role[q] = PT => ~entrys'[q][i].present
  BY <1>1, DoneFacts
<1>3. Tree(r) \subseteq Pages /\ Tree(r) \subseteq Allocated
      /\ r \in Tree(r) /\ role[r] = 4
  BY <1>1, <1>2, TreeFacts DEF IInv, Allocated, PagesInv, RootsOK, PML4T
<1>4. Closed(entrys', role, Tree(r))
  <2> SUFFICES ASSUME NEW q \in Tree(r), NEW i \in Index, entrys'[q][i].present
               PROVE  /\ entrys'[q][i].page \in Tree(r)
                      /\ role[entrys'[q][i].page] = role[q] - 1
    BY DEF Closed
  <2>1. entrys[q][i].present /\ entrys'[q][i].page = entrys[q][i].page
    BY <1>2
  <2>2. entrys[q][i].page # NULL
    BY <1>3, <2>1 DEF IInv, PagesInv, PresentLeadsOn, NoEntry
  <2>3. entrys[q][i].page \in Tree(r)
    BY <1>1, <1>2, <2>2, TreeFacts DEF IInv
  <2>4. role[entrys[q][i].page] = role[q] - 1
    BY <1>3, <2>2 DEF IInv, PagesInv, EntriesWellFormed
  <2> QED BY <2>1, <2>3, <2>4
<1>5. ASSUME NEW g \in Nat
      PROVE  Translate(m, g)' = NULL
  <2> DEFINE P == Reach(entrys', r, g, 1)
  <2>1. 1 \in 0 .. 4 /\ 1 \in Levels /\ 1 = PT /\ 1 - 1 = 0
    BY DEF Levels, PT, PML4T
  <2>2. P # NULL => P \in Tree(r) /\ role[P] = PT
    BY <1>3, <1>4, <2>1, WayStays
  <2>3. Reach(entrys', r, g, 0) = HopIn(entrys', P, g, 1)
    BY <2>1, ReachNext
  <2>4. table_index(g, 1) \in Index
    BY <2>1, IndexInTable
  <2> HIDE DEF P
  <2>5. HopIn(entrys', P, g, 1) = NULL
    BY <1>2, <2>2, <2>4 DEF HopIn
  <2>6. Translate(m, g)' = Reach(entrys', r, g, 0)
    BY <1>1, <1>2, TranslateDef
  <2> QED BY <2>3, <2>5, <2>6
<1>6. Mem' = Mem
  <2>1. ASSUME NEW n \in Vmms, NEW g \in Gfns
        PROVE  Mem'[n][g] = Mem[n][g]
    <3>1. g \in Nat
      BY ConstantsAssumption
    <3>2. CASE n = m
      BY <1>2, <1>5, <3>1, <3>2, MemValues
    <3>3. CASE n # m /\ n \in ready
      <4>1. VmSame(n) /\ ncr3[n] # NULL
        BY <1>2, <3>3 DEF OthersSame, IInv, PagesInv, RootsOK
      <4>2. Translate(n, g)' = Translate(n, g)
        BY <3>1, <4>1, SameTranslate
      <4> QED BY <1>2, <3>3, <4>2, MemValues
    <3>4. CASE n # m /\ n \notin ready
      BY <1>2, <3>4, MemValues
    <3> QED BY <3>2, <3>3, <3>4
  <2> QED BY <2>1, MemNext, MemType
<1> QED BY <1>2, <1>6, MemorySteps

(* The end of a vm is the end of its memory.                                *)
LEMMA DestroyEnds ==
  ASSUME IInv, SeqInv, NEW m \in Vmms, yakvm_destroy_vmm(m)
  PROVE  Memory!Next
<1>1. m \in ready /\ ready' = ready \ {m} /\ OthersSame(m)
  BY SeqDestroy DEF yakvm_destroy_vmm
<1> DEFINE F == [Mem EXCEPT ![m] = [g \in Gfns |-> NULL]]
<1>2. F \in [Vmms -> [Gfns -> Pages \union {NULL}]]
  BY MemType
<1>3. ASSUME NEW n \in Vmms, NEW g \in Gfns
      PROVE  Mem'[n][g] = F[n][g]
  <2>1. CASE n = m
    BY <1>1, <2>1, MemValues, MemType
  <2>2. CASE n # m
    <3>1. F[n][g] = Mem[n][g]
      BY <2>2, MemType
    <3>2. CASE n \in ready
      <4>1. VmSame(n) /\ ncr3[n] # NULL /\ g \in Nat
        BY <1>1, <2>2, <3>2, ConstantsAssumption
        DEF OthersSame, IInv, PagesInv, RootsOK
      <4>2. Translate(n, g)' = Translate(n, g)
        BY <4>1, SameTranslate
      <4> QED BY <1>1, <2>2, <3>1, <3>2, <4>2, MemValues
    <3>3. CASE n \notin ready
      BY <1>1, <3>1, <3>3, MemValues
    <3> QED BY <3>2, <3>3
  <2> QED BY <2>1, <2>2
<1> HIDE DEF F
<1>4. Mem' = F
  BY <1>2, <1>3, MemNext
<1> QED BY <1>1, <1>4, MemorySteps DEF F

(* Every step is one of the memory or not seen by it.                       *)
LEMMA MemoryRefines ==
  /\ IInv /\ SeqInv /\ FramesInReach
  /\ IInv' /\ FramesDistinct' /\ MmioTraps'
  /\ [Next]_vars
  => [Memory!Next]_(Memory!memoryVars)
<1> SUFFICES ASSUME IInv, SeqInv, FramesInReach, IInv', FramesDistinct',
                    MmioTraps', [Next]_vars
             PROVE  [Memory!Next]_(Memory!memoryVars)
  OBVIOUS
<1>1. ready' = ready /\ Mem' = Mem => [Memory!Next]_(Memory!memoryVars)
  BY DEF Memory!memoryVars, Mem
<1> SUFFICES (ready' = ready /\ Mem' = Mem) \/ Memory!Next
  BY <1>1
<1>2. CASE ready' = ready /\ \A n \in ready : VmSame(n)
  <2>1. ASSUME NEW n \in Vmms, NEW g \in Gfns
        PROVE  Mem'[n][g] = Mem[n][g]
    <3>1. CASE n \in ready
      <4>1. VmSame(n) /\ ncr3[n] # NULL /\ g \in Nat
        BY <1>2, <3>1, ConstantsAssumption DEF IInv, PagesInv, RootsOK
      <4>2. Translate(n, g)' = Translate(n, g)
        BY <4>1, SameTranslate
      <4> QED BY <1>2, <4>2, MemValues
    <3>2. CASE n \notin ready
      BY <1>2, <3>2, MemValues
    <3> QED BY <3>1, <3>2
  <2>2. Mem' = Mem
    BY <2>1, MemNext, MemType
  <2> QED BY <1>2, <2>2
<1>3. ASSUME NEW t \in Threads, npt_alloc(t)
      PROVE  (ready' = ready /\ Mem' = Mem) \/ Memory!Next
  BY <1>3, StoreMaps
<1>4. ASSUME NEW t \in Threads, create_vmm_done(t)
      PROVE  Memory!Next
  BY <1>4, DoneCreates
<1>5. ASSUME NEW m \in Vmms, yakvm_destroy_vmm(m)
      PROVE  Memory!Next
  BY <1>5, DestroyEnds
<1> QED BY <1>2, <1>3, <1>4, <1>5, StepKinds

(* With one thread per vm, and frames that four levels can tell apart, the  *)
(* tables implement the memory that the other modules rely on: a page comes *)
(* to be behind a frame in one step, new, nobody else's and never at the    *)
(* mmio frame, and stays until the vm goes, however many steps and failed   *)
(* allocations the walks take.                                              *)
THEOREM MemoryTheorem ==
  SoleThreads /\ FramesInReach /\ Spec => ImplementsMemory
<1>1. Init => Memory!Init
  <2> SUFFICES ASSUME Init PROVE Memory!Init
    OBVIOUS
  <2>1. ready = {}
    BY DEF Init
  <2> QED BY <2>1 DEF Memory!Init
<1>2. FramesInReach => FramesInReach'
  BY DEF FramesInReach
<1> QED BY <1>1, <1>2, MemoryRefines, Invariance, SequentialInvariance,
           FramesTheorem, MmioTheorem, PTL
        DEF Spec, ImplementsMemory, Memory!Spec
=============================================================================
