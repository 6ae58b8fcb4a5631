------------------------- MODULE NestedPagingProofs -------------------------
(***************************************************************************)
(* The invariants of NestedPaging that hold although nothing serialises    *)
(* the walks, proved for any number of vms, threads, pages and frames, for *)
(* tables of any size and for every allocator.                             *)
(***************************************************************************)
EXTENDS NestedPaging, FiniteSetTheorems, TLAPS

-----------------------------------------------------------------------------
(* The inductive invariant.                                                 *)

(* A free page holds nothing that could be mistaken for a table.            *)
FreePagesClean ==
  \A p \in Pages : refs[p] = 0 => role[p] = 0 /\ entrys[p] = EmptyTable

(* Only an entry that refers to a page is present: what a walk does not     *)
(* take for missing leads somewhere.                                        *)
PresentLeadsOn ==
  \A p \in Pages, i \in Index :
    entrys[p][i].page = NULL => entrys[p][i] = NoEntry

(* The user mappings of a page are finitely many, so that they can be       *)
(* counted.                                                                 *)
Mappings(u, p) == {x \in Vmms \X Gfns : u[x[1]][x[2]] = p}
MappingsFinite == \A p \in Pages : IsFiniteSet(Mappings(upte, p))

(* ncr3 is a PML4 table in use, and a vm that exists has one.               *)
RootsOK ==
  /\ \A m \in Vmms :
       ncr3[m] # NULL => ncr3[m] \in Allocated /\ role[ncr3[m]] = PML4T
  /\ \A m \in ready : ncr3[m] # NULL

(* A thread inside the driver walks for a vm with a page table; the one     *)
(* that creates a vm is alone with it until it is over.  The page a fault   *)
(* is for is in the mapping, which nobody moves meanwhile.                  *)
Inside(t) == walk[t].at # "idle"
CallsOK ==
  \A t \in Threads :
    Inside(t) =>
      /\ walk[t].vmm \in Vmms
      /\ ncr3[walk[t].vmm] # NULL
      /\ walk[t].caller # "create" => walk[t].vmm \in ready
      /\ walk[t].caller = "create" =>
           /\ walk[t].vmm \notin ready
           /\ \A u \in Threads \ {t} : Inside(u) => walk[u].vmm # walk[t].vmm
      /\ walk[t].caller = "fault" => FaultPage(t) \in Gfns

(* The table a thread stands on and the page it has found are not in the    *)
(* tree of another vm.  (They need not be in the tree of its own: another   *)
(* thread may have replaced an entry above.)                                *)
WalkersIsolated ==
  \A t \in Threads, m \in Vmms :
    Inside(t) /\ ncr3[m] # NULL /\ walk[t].vmm # m =>
      /\ walk[t].table \notin Tree(ncr3[m])
      /\ walk[t].at = "done" => walk[t].page \notin Tree(ncr3[m])

(* What is said of the pages, and of the threads that walk.                 *)
PagesInv ==
  /\ FreePagesClean
  /\ PresentLeadsOn
  /\ EntriesWellFormed
  /\ OneParent
  /\ RootsOK
  /\ MappingsFinite
  /\ PageRefsExact
  /\ GuestsIsolated

WalksInv ==
  /\ CallsOK
  /\ WalkersSafe
  /\ WalkersIsolated

IInv == TypeOK /\ PagesInv /\ WalksInv

-----------------------------------------------------------------------------
(* Lemmas about trees of tables.  TreeIn is Tree for entries that are given *)
(* as a value, so that the lemmas apply before and after a step.            *)
Kids(e, S) == {p \in Pages : \E q \in S : \E i \in Index : e[q][i].page = p}
TreeIn(e, r) ==
  LET pdpts == Kids(e, {r})
      pdts == Kids(e, pdpts)
      pts == Kids(e, pdts)
  IN {r} \union pdpts \union pdts \union pts \union Kids(e, pts)

(* Tree of a vm, before and after a step.                                   *)
LEMMA TreeDef ==
  ASSUME NEW m \in Vmms
  PROVE  /\ Tree(ncr3[m]) = TreeIn(entrys, ncr3[m])
         /\ Tree(ncr3[m])' = TreeIn(entrys', ncr3'[m])
BY DEF Tree, TreeIn, Below, Kids

(* A tree is the least set with its root that is closed downwards.          *)
LEMMA TreeLeast ==
  ASSUME NEW e, NEW r, NEW S, r \in S,
         \A p \in S, i \in Index : e[p][i].page \in Pages => e[p][i].page \in S
  PROVE  TreeIn(e, r) \subseteq S
<1>1. ASSUME NEW U, U \subseteq S
      PROVE  Kids(e, U) \subseteq S
  BY <1>1 DEF Kids
<1>2. /\ Kids(e, {r}) \subseteq S
      /\ Kids(e, Kids(e, {r})) \subseteq S
      /\ Kids(e, Kids(e, Kids(e, {r}))) \subseteq S
      /\ Kids(e, Kids(e, Kids(e, Kids(e, {r})))) \subseteq S
  BY <1>1
<1> QED BY <1>2 DEF TreeIn

(* Every page of a tree but its root hangs below a page of the tree.        *)
LEMMA TreeParent ==
  ASSUME NEW e, NEW r, NEW q \in TreeIn(e, r), q # r
  PROVE  \E p \in TreeIn(e, r), i \in Index : e[p][i].page = q
<1>1. ASSUME NEW U, U \subseteq TreeIn(e, r), q \in Kids(e, U)
      PROVE  \E p \in TreeIn(e, r), i \in Index : e[p][i].page = q
  BY <1>1 DEF Kids
<1>2. /\ {r} \subseteq TreeIn(e, r)
      /\ Kids(e, {r}) \subseteq TreeIn(e, r)
      /\ Kids(e, Kids(e, {r})) \subseteq TreeIn(e, r)
      /\ Kids(e, Kids(e, Kids(e, {r}))) \subseteq TreeIn(e, r)
  BY DEF TreeIn
<1>3. \/ q \in Kids(e, {r})
      \/ q \in Kids(e, Kids(e, {r}))
      \/ q \in Kids(e, Kids(e, Kids(e, {r})))
      \/ q \in Kids(e, Kids(e, Kids(e, Kids(e, {r}))))
  BY DEF TreeIn
<1> QED BY <1>1, <1>2, <1>3

(* Where entries lead one level down, a tree below a PML4 table is closed   *)
(* downwards: four levels are all there are.                                *)
LEMMA TreeClosed ==
  ASSUME NEW e, NEW lv \in [Pages -> 0 .. PML4T], NEW r \in Pages,
         lv[r] = PML4T,
         \A p \in Pages, i \in Index :
           e[p][i].page \in Pages => lv[e[p][i].page] = lv[p] - 1,
         NEW p \in TreeIn(e, r), NEW i \in Index, e[p][i].page \in Pages
  PROVE  e[p][i].page \in TreeIn(e, r)
<1> DEFINE q == e[p][i].page
           K1 == Kids(e, {r})
           K2 == Kids(e, K1)
           K3 == Kids(e, K2)
           K4 == Kids(e, K3)
<1> HIDE DEF K1, K2, K3, K4
<1>1. K1 \subseteq {x \in Pages : lv[x] = 3}
  BY DEF PML4T, K1, Kids
<1>2. K2 \subseteq {x \in Pages : lv[x] = 2}
  BY <1>1 DEF K2, Kids
<1>3. K3 \subseteq {x \in Pages : lv[x] = 1}
  BY <1>2 DEF K3, Kids
<1>4. K4 \subseteq {x \in Pages : lv[x] = 0}
  BY <1>3 DEF K4, Kids
<1>5. TreeIn(e, r) = {r} \union K1 \union K2 \union K3 \union K4
  BY DEF TreeIn, K1, K2, K3, K4
<1>6. p \notin K4
  <2> SUFFICES ASSUME p \in K4 PROVE FALSE
    OBVIOUS
  <2>1. lv[p] = 0 /\ p \in Pages
    BY <1>4
  <2>2. lv[q] = 0 - 1
    BY <2>1
  <2> QED BY <2>2 DEF PML4T
<1>7. ASSUME NEW U, p \in U
      PROVE  q \in Kids(e, U)
  BY <1>7 DEF Kids
<1>8. q \in K1 \union K2 \union K3 \union K4
  BY <1>5, <1>6, <1>7 DEF K1, K2, K3, K4
<1> QED BY <1>5, <1>8

(* The tree of a vm: its pages are in use, and nothing enters or leaves it  *)
(* through an entry.                                                        *)
LEMMA TreeFacts ==
  ASSUME TypeOK, PagesInv, NEW m \in Vmms, ncr3[m] # NULL
  PROVE  /\ ncr3[m] \in Tree(ncr3[m])
         /\ Tree(ncr3[m]) \subseteq Allocated
         /\ \A p \in Tree(ncr3[m]), i \in Index :
              entrys[p][i].page # NULL => entrys[p][i].page \in Tree(ncr3[m])
         /\ \A p \in Pages, i \in Index :
              entrys[p][i].page \in Tree(ncr3[m]) => p \in Tree(ncr3[m])
<1> DEFINE r == ncr3[m]
<1>1. r \in Pages /\ r \in Allocated /\ role[r] = PML4T
  BY DEF PagesInv, RootsOK, Allocated
<1>2. Tree(r) = TreeIn(entrys, r)
  BY TreeDef
<1>3. ASSUME NEW p \in Pages, NEW i \in Index, entrys[p][i].page # NULL
      PROVE  /\ p \in Allocated
             /\ entrys[p][i].page \in Allocated
             /\ role[entrys[p][i].page] = role[p] - 1
  <2>1. p \in Allocated
    BY <1>3 DEF TypeOK, PagesInv, FreePagesClean, Allocated, EmptyTable, NoEntry
  <2> QED BY <1>3, <2>1 DEF PagesInv, EntriesWellFormed
<1>4. r \in TreeIn(entrys, r)
  BY DEF TreeIn
<1>5. TreeIn(entrys, r) \subseteq Allocated
  <2>1. \A p \in Allocated, i \in Index :
          entrys[p][i].page \in Pages => entrys[p][i].page \in Allocated
    BY <1>3, ConstantsAssumption DEF Allocated
  <2> QED BY <1>1, <2>1, TreeLeast
<1>6. ASSUME NEW p \in TreeIn(entrys, r), NEW i \in Index,
             entrys[p][i].page # NULL
      PROVE  entrys[p][i].page \in TreeIn(entrys, r)
  <2>1. entrys[p][i].page \in Pages
    BY <1>3, <1>5, <1>6 DEF Allocated
  <2>2. \A q \in Pages, j \in Index :
          entrys[q][j].page \in Pages => role[entrys[q][j].page] = role[q] - 1
    BY <1>3, ConstantsAssumption
  <2>3. role \in [Pages -> 0 .. PML4T]
    BY DEF TypeOK
  <2> QED BY <1>1, <2>1, <2>2, <2>3, TreeClosed
<1>7. ASSUME NEW p \in Pages, NEW i \in Index,
             entrys[p][i].page \in TreeIn(entrys, r)
      PROVE  p \in TreeIn(entrys, r)
  <2> DEFINE q == entrys[p][i].page
  <2>1. q # NULL /\ q \in Pages
    BY <1>5, <1>7, ConstantsAssumption DEF Allocated
  <2>2. p \in Allocated /\ role[q] = role[p] - 1
    BY <1>3, <2>1
  <2>3. q # r
    BY <1>1, <2>2, SMTT(30) DEF TypeOK, PML4T
  <2>4. PICK x \in TreeIn(entrys, r), j \in Index : entrys[x][j].page = q
    BY <1>7, <2>3, TreeParent
  <2>5. x = p
    BY <1>5, <2>1, <2>2, <2>4 DEF PagesInv, OneParent
  <2> QED BY <2>5
<1> QED BY <1>2, <1>4, <1>5, <1>6, <1>7

(* A step that leaves the entries of a tree alone, or takes some away,      *)
(* leaves the tree within itself.                                           *)
LEMMA TreeKept ==
  ASSUME TypeOK, PagesInv, NEW m \in Vmms, ncr3[m] # NULL, ncr3'[m] = ncr3[m],
         \A p \in Tree(ncr3[m]), i \in Index :
           entrys'[p][i].page \in {NULL, entrys[p][i].page}
  PROVE  Tree(ncr3[m])' \subseteq Tree(ncr3[m])
<1>1. \A p \in Tree(ncr3[m]), i \in Index :
        entrys'[p][i].page \in Pages => entrys'[p][i].page \in Tree(ncr3[m])
  BY TreeFacts, ConstantsAssumption
<1>2. TreeIn(entrys', ncr3[m]) \subseteq Tree(ncr3[m])
  BY <1>1, TreeFacts, TreeLeast
<1> QED BY <1>2, TreeDef

(* The mask of table_index() keeps it within a table.                       *)
LEMMA IndexInTable ==
  ASSUME NEW g \in Nat, NEW level \in Levels
  PROVE  table_index(g, level) \in Index
<1>1. Span[level] \in Nat \ {0} /\ Fanout \in Nat \ {0}
  BY ConstantsAssumption
<1>2. g \div Span[level] \in Nat
  BY <1>1
<1> QED BY <1>1, <1>2 DEF table_index, Index

(* What a turn of the loop does to the locals.                              *)
LEMMA DescendFacts ==
  ASSUME TypeOK, NEW t \in Threads, NEW p \in Pages, Descend(t, p)
  PROVE  /\ walk' \in [Threads -> Walk]
         /\ \A u \in Threads \ {t} : walk'[u] = walk[u]
         /\ walk'[t].vmm = walk[t].vmm
         /\ walk'[t].caller = walk[t].caller
         /\ walk'[t].gfn = walk[t].gfn
         /\ walk[t].level = PT =>
              /\ walk'[t].at = "done"
              /\ walk'[t].page = p
              /\ walk'[t].table = walk[t].table
              /\ walk'[t].level = PT
         /\ walk[t].level # PT =>
              /\ walk'[t].at = "read"
              /\ walk'[t].table = p
              /\ walk'[t].level = walk[t].level - 1
<1> USE DEF TypeOK, Descend, Walk, Levels, PT, PML4T
<1>1. CASE walk[t].level = PT
  BY <1>1
<1>2. CASE walk[t].level # PT
  <2> DEFINE w == walk[t]
  <2>1. w \in Walk /\ w.level - 1 \in Levels
    BY <1>2
  <2>2. walk' = [walk EXCEPT ![t] = [w EXCEPT !.at = "read",
                                              !.level = w.level - 1,
                                              !.table = p]]
    BY <1>2
  <2>3. [w EXCEPT !.at = "read", !.level = w.level - 1, !.table = p] \in Walk
    BY <2>1
  <2>4. walk' \in [Threads -> Walk]
    BY <2>2, <2>3
  <2> QED BY <1>2, <2>1, <2>2, <2>4
<1> QED BY <1>1, <1>2

-----------------------------------------------------------------------------
(* Steps that leave the pages alone: what is said of pages stays true, and  *)
(* the trees are the same.                                                  *)
LEMMA PagesUntouched ==
  ASSUME PagesInv, UNCHANGED <<pageVars, ncr3, ready, upte>>
  PROVE  /\ PagesInv'
         /\ \A m \in Vmms : Tree(ncr3[m])' = Tree(ncr3[m])
         /\ Allocated' = Allocated
<1> USE DEF pageVars
<1>1. \A m \in Vmms : Tree(ncr3[m])' = Tree(ncr3[m])
  BY TreeDef
<1>2. Allocated' = Allocated
  BY DEF Allocated
<1>3. FreePagesClean' /\ PresentLeadsOn'
  BY DEF PagesInv, FreePagesClean, PresentLeadsOn
<1>4. EntriesWellFormed' /\ OneParent'
  BY <1>2 DEF PagesInv, EntriesWellFormed, OneParent
<1>5. RootsOK' /\ MappingsFinite'
  BY <1>2 DEF PagesInv, RootsOK, MappingsFinite, Mappings
<1>6. PageRefsExact'
  BY <1>2 DEF PagesInv, PageRefsExact
<1>7. GuestsIsolated'
  BY <1>1 DEF PagesInv, GuestsIsolated
<1> QED BY <1>1, <1>2, <1>3, <1>4, <1>5, <1>6, <1>7 DEF PagesInv

(* A thread goes on with its call, or returns; it stands on a table of its  *)
(* level that belongs to no other vm.                                       *)
LEMMA WalkGoesOn ==
  ASSUME IInv, NEW t \in Threads, UNCHANGED <<pageVars, vmVars, userVars>>,
         walk' \in [Threads -> Walk],
         panicked' \in BOOLEAN,
         \A u \in Threads \ {t} : walk'[u] = walk[u],
         walk'[t].at # "idle" =>
           /\ Inside(t)
           /\ walk'[t].vmm = walk[t].vmm
           /\ walk'[t].caller = walk[t].caller
           /\ walk'[t].gfn = walk[t].gfn
           /\ walk'[t].table \in Allocated
           /\ role[walk'[t].table] = walk'[t].level
           /\ walk'[t].at = "done" =>
                walk'[t].page \in Allocated /\ role[walk'[t].page] = 0
           /\ \A m \in Vmms :
                ncr3[m] # NULL /\ walk[t].vmm # m =>
                  /\ walk'[t].table \notin Tree(ncr3[m])
                  /\ walk'[t].at = "done" => walk'[t].page \notin Tree(ncr3[m])
  PROVE  IInv'
<1> USE DEF IInv, vmVars, userVars
<1>1. /\ PagesInv'
      /\ \A m \in Vmms : Tree(ncr3[m])' = Tree(ncr3[m])
      /\ Allocated' = Allocated
  BY PagesUntouched
<1>2. TypeOK'
  BY DEF TypeOK, pageVars
<1>3. CallsOK'
  BY DEF WalksInv, CallsOK, Inside, FaultPage
<1>4. WalkersSafe'
  BY <1>1 DEF WalksInv, WalkersSafe, pageVars
<1>5. WalkersIsolated'
  BY <1>1 DEF WalksInv, WalkersIsolated, Inside
<1> QED BY <1>1, <1>2, <1>3, <1>4, <1>5 DEF WalksInv

(* YAKVM_MMAP_PAGE and a fault start at the root of a vm that exists.       *)
LEMMA WalkBegins ==
  ASSUME IInv, NEW t \in Threads, NEW m \in ready, NEW g \in Nat,
         NEW c \in {"ioctl", "fault"}, c = "fault" => g + pgoff[m] \in Gfns,
         Begin(t, m, g, c, ncr3[m]),
         UNCHANGED <<pageVars, vmVars, userVars, panicked>>
  PROVE  IInv'
<1> USE DEF IInv, vmVars, userVars
<1>1. /\ PagesInv'
      /\ \A n \in Vmms : Tree(ncr3[n])' = Tree(ncr3[n])
      /\ Allocated' = Allocated
  BY PagesUntouched
<1>2. /\ m \in Vmms
      /\ ncr3[m] # NULL
      /\ ncr3[m] \in Allocated
      /\ ncr3[m] \in Pages
      /\ role[ncr3[m]] = PML4T
  BY DEF TypeOK, PagesInv, RootsOK, Allocated
<1> DEFINE w == [at |-> "read", caller |-> c, vmm |-> m, gfn |-> g,
                 level |-> PML4T, table |-> ncr3[m], page |-> NULL]
<1>3. walk[t].at = "idle" /\ walk' = [walk EXCEPT ![t] = w]
  BY DEF Begin, At
<1>4. w \in Walk
  BY <1>2 DEF Walk, Callers, Levels, PT, PML4T
<1>5. /\ walk' \in [Threads -> Walk]
      /\ walk'[t] = w
      /\ \A u \in Threads \ {t} : walk'[u] = walk[u]
  BY <1>3, <1>4 DEF TypeOK
<1> HIDE DEF w
<1>6. /\ w.at = "read" /\ w.caller = c /\ w.vmm = m /\ w.gfn = g
      /\ w.level = PML4T /\ w.table = ncr3[m]
  BY DEF w
<1>7. TypeOK'
  BY <1>5 DEF TypeOK, pageVars
<1>8. CallsOK'
  BY <1>2, <1>5, <1>6 DEF WalksInv, CallsOK, Inside, FaultPage
<1>9. WalkersSafe'
  BY <1>1, <1>2, <1>5, <1>6 DEF WalksInv, WalkersSafe, pageVars
<1>10. WalkersIsolated'
  <2>1. \A n \in Vmms : ncr3[n] # NULL /\ n # m => ncr3[m] \notin Tree(ncr3[n])
    BY <1>2, TreeFacts DEF PagesInv, GuestsIsolated
  <2> QED BY <1>1, <1>2, <1>5, <1>6, <2>1 DEF WalksInv, WalkersIsolated, Inside
<1> QED BY <1>1, <1>7, <1>8, <1>9, <1>10 DEF WalksInv

(* The two calls of user space that begin a walk.                           *)
LEMMA MmapPageStep ==
  ASSUME IInv, NEW t \in Threads, NEW m \in Vmms, NEW g \in Gfns,
         yakvm_vm_ioctl_mmap_page(t, m, g)
  PROVE  IInv'
BY WalkBegins, ConstantsAssumption DEF yakvm_vm_ioctl_mmap_page

(* A page fault, at the distance from the start of the mapping.             *)
LEMMA FaultStep ==
  ASSUME IInv, NEW t \in Threads, NEW m \in Vmms, NEW u \in Gfns,
         yakvm_vm_vmm_fault(t, m, u)
  PROVE  IInv'
<1>1. u - pgoff[m] \in Nat /\ (u - pgoff[m]) + pgoff[m] \in Gfns
  BY ConstantsAssumption DEF IInv, TypeOK, yakvm_vm_vmm_fault
<1> QED BY <1>1, WalkBegins DEF yakvm_vm_vmm_fault

(* A thread has found an entry missing.                                     *)
LEMMA MissingStep ==
  ASSUME IInv, NEW t \in Threads, npt_missing(t)
  PROVE  IInv'
<1> DEFINE w == [walk[t] EXCEPT !.at = "alloc"]
<1>1. walk[t].at = "read" /\ walk' = [walk EXCEPT ![t] = w]
  BY DEF npt_missing, At
<1>2. w \in Walk
  BY DEF IInv, TypeOK, Walk
<1>3. /\ walk' \in [Threads -> Walk]
      /\ walk'[t] = w
      /\ \A u \in Threads \ {t} : walk'[u] = walk[u]
  BY <1>1, <1>2 DEF IInv, TypeOK
<1>4. /\ w.at = "alloc" /\ w.vmm = walk[t].vmm /\ w.caller = walk[t].caller
      /\ w.gfn = walk[t].gfn /\ w.table = walk[t].table
      /\ w.level = walk[t].level
  BY DEF IInv, TypeOK, Walk
<1> HIDE DEF w
<1>5. /\ Inside(t)
      /\ walk[t].table \in Allocated
      /\ role[walk[t].table] = walk[t].level
      /\ \A m \in Vmms :
           ncr3[m] # NULL /\ walk[t].vmm # m => walk[t].table \notin Tree(ncr3[m])
  BY <1>1 DEF IInv, WalksInv, WalkersSafe, WalkersIsolated, Inside
<1>6. panicked' \in BOOLEAN /\ UNCHANGED <<pageVars, vmVars, userVars>>
  BY DEF IInv, TypeOK, npt_missing
<1> QED BY <1>3, <1>4, <1>5, <1>6, WalkGoesOn

(* The page below the entry a walk is at: in use, one level down, and of no *)
(* other vm.                                                                *)
LEMMA EntryLeads ==
  ASSUME IInv, NEW t \in Threads, Inside(t), WalkEntry(t) # NoEntry
  PROVE  /\ WalkEntry(t).page \in Allocated
         /\ WalkEntry(t).page \in Pages
         /\ role[WalkEntry(t).page] = walk[t].level - 1
         /\ \A m \in Vmms :
              ncr3[m] # NULL /\ walk[t].vmm # m =>
                WalkEntry(t).page \notin Tree(ncr3[m])
<1> DEFINE T == walk[t].table
           i == table_index(walk[t].gfn, walk[t].level)
           q == entrys[T][i].page
<1>1. T \in Allocated /\ T \in Pages /\ role[T] = walk[t].level
  BY DEF IInv, WalksInv, WalkersSafe, Inside, Allocated
<1>2. i \in Index
  BY IndexInTable DEF IInv, TypeOK, Walk
<1> HIDE DEF i
<1>3. WalkEntry(t) = entrys[T][i]
  BY DEF WalkEntry, i
<1>4. q # NULL
  BY <1>1, <1>2, <1>3 DEF IInv, PagesInv, PresentLeadsOn
<1>5. q \in Allocated /\ role[q] = walk[t].level - 1
  BY <1>1, <1>2, <1>4 DEF IInv, PagesInv, EntriesWellFormed
<1>6. ASSUME NEW m \in Vmms, ncr3[m] # NULL, walk[t].vmm # m
      PROVE  q \notin Tree(ncr3[m])
  <2>1. T \notin Tree(ncr3[m])
    BY <1>6 DEF IInv, WalksInv, WalkersIsolated
  <2> QED BY <1>1, <1>2, <1>6, <2>1, TreeFacts DEF IInv
<1> QED BY <1>3, <1>5, <1>6 DEF Allocated

(* A thread follows an entry, of which its vm is the only owner.            *)
LEMMA FollowStep ==
  ASSUME IInv, NEW t \in Threads, npt_follow(t)
  PROVE  IInv'
<1> DEFINE q == WalkEntry(t).page
<1>1. /\ Inside(t)
      /\ walk[t].table \in Allocated
      /\ role[walk[t].table] = walk[t].level
      /\ \A m \in Vmms :
           ncr3[m] # NULL /\ walk[t].vmm # m => walk[t].table \notin Tree(ncr3[m])
  BY DEF IInv, WalksInv, WalkersSafe, WalkersIsolated, Inside, npt_follow, At
<1>2. /\ q \in Allocated /\ q \in Pages
      /\ role[q] = walk[t].level - 1
      /\ \A m \in Vmms :
           ncr3[m] # NULL /\ walk[t].vmm # m => q \notin Tree(ncr3[m])
  BY <1>1, EntryLeads DEF npt_follow
<1>3. Descend(t, q) /\ UNCHANGED <<pageVars, vmVars, userVars, panicked>>
  BY DEF npt_follow
<1>4. panicked' \in BOOLEAN /\ TypeOK
  BY <1>3 DEF IInv, TypeOK
<1> HIDE DEF q
<1>5. CASE walk[t].level = PT
  BY <1>1, <1>2, <1>3, <1>4, <1>5, DescendFacts, WalkGoesOn DEF PT
<1>6. CASE walk[t].level # PT
  BY <1>1, <1>2, <1>3, <1>4, <1>6, DescendFacts, WalkGoesOn
<1> QED BY <1>5, <1>6

(* npt_alloc_fail(), mmap_page_done() and fault_done_late() just return.    *)
LEMMA ReturnStep ==
  ASSUME IInv, NEW t \in Threads, Return(t),
         UNCHANGED <<pageVars, vmVars, userVars, panicked>>
  PROVE  IInv'
<1>1. /\ walk' \in [Threads -> Walk]
      /\ walk'[t].at = "idle"
      /\ \A u \in Threads \ {t} : walk'[u] = walk[u]
  BY DEF IInv, TypeOK, Return, Idle, Walk, Callers, Levels, PT, PML4T
<1>2. panicked' \in BOOLEAN
  BY DEF IInv, TypeOK
<1> QED BY <1>1, <1>2, WalkGoesOn

(* A failed assert() halts the host as it is.                               *)
LEMMA AssertStep ==
  ASSUME IInv, NEW t \in Threads, npt_assert(t)
  PROVE  IInv'
<1>1. panicked' \in BOOLEAN /\ walk' = walk
      /\ UNCHANGED <<pageVars, vmVars, userVars>>
  BY DEF npt_assert
<1>2. walk' \in [Threads -> Walk]
  BY <1>1 DEF IInv, TypeOK
<1>3. Inside(t)
  BY DEF npt_assert, At, Inside
<1>4. /\ walk[t].table \in Allocated
      /\ role[walk[t].table] = walk[t].level
      /\ walk[t].at = "done" =>
           walk[t].page \in Allocated /\ role[walk[t].page] = 0
      /\ \A m \in Vmms :
           ncr3[m] # NULL /\ walk[t].vmm # m =>
             /\ walk[t].table \notin Tree(ncr3[m])
             /\ walk[t].at = "done" => walk[t].page \notin Tree(ncr3[m])
  BY <1>3 DEF IInv, WalksInv, WalkersSafe, WalkersIsolated, Inside
<1> QED BY <1>1, <1>2, <1>3, <1>4, WalkGoesOn

(* The mapping moves while no fault is in flight.                           *)
LEMMA MmapStep ==
  ASSUME IInv, NEW m \in Vmms, NEW off \in Offsets, yakvm_vm_mmap(m, off)
  PROVE  IInv'
<1> USE DEF IInv, yakvm_vm_mmap, vmVars
<1>1. /\ PagesInv'
      /\ \A n \in Vmms : Tree(ncr3[n])' = Tree(ncr3[n])
      /\ Allocated' = Allocated
  BY PagesUntouched
<1>2. TypeOK'
  BY ConstantsAssumption DEF TypeOK, pageVars
<1>3. CallsOK'
  BY DEF TypeOK, WalksInv, CallsOK, Inside, FaultPage, Walking
<1>4. WalkersSafe'
  BY <1>1 DEF WalksInv, WalkersSafe, pageVars
<1>5. WalkersIsolated'
  BY <1>1 DEF WalksInv, WalkersIsolated, Inside
<1> QED BY <1>1, <1>2, <1>3, <1>4, <1>5 DEF WalksInv

-----------------------------------------------------------------------------
(* What alloc_page() returns is nowhere in the tables, in user mappings or  *)
(* in the hands of a thread.                                                *)
LEMMA FreshPage ==
  ASSUME IInv, NEW p \in Pages, p \in Pick(Pages \ Allocated)
  PROVE  /\ p \notin Allocated /\ refs[p] = 0 /\ entrys[p] = EmptyTable
         /\ \A q \in Pages, i \in Index : entrys[q][i].page # p
         /\ \A m \in Vmms :
              ncr3[m] # NULL => ncr3[m] # p /\ p \notin Tree(ncr3[m])
         /\ \A m \in Vmms, g \in Gfns : upte[m][g] # p
         /\ \A t \in Threads :
              Inside(t) => /\ walk[t].table # p
                           /\ walk[t].at = "done" => walk[t].page # p
<1> USE DEF IInv
<1>1. p \notin Allocated /\ refs[p] = 0
  BY ConstantsAssumption DEF Allocated, TypeOK
<1>2. entrys[p] = EmptyTable
  BY <1>1 DEF PagesInv, FreePagesClean
<1>3. ASSUME NEW q \in Pages, NEW i \in Index
      PROVE  entrys[q][i].page # p
  <2>1. CASE q \in Allocated
    BY <1>1, <2>1, ConstantsAssumption DEF PagesInv, EntriesWellFormed
  <2>2. CASE q \notin Allocated
    BY <2>2, ConstantsAssumption
    DEF TypeOK, PagesInv, FreePagesClean, Allocated, EmptyTable, NoEntry
  <2> QED BY <2>1, <2>2
<1>4. \A m \in Vmms : ncr3[m] # NULL => ncr3[m] # p /\ p \notin Tree(ncr3[m])
  BY <1>1, TreeFacts
<1>5. \A m \in Vmms, g \in Gfns : upte[m][g] # p
  BY <1>1, ConstantsAssumption DEF PagesInv, PageRefsExact
<1>6. \A t \in Threads :
        Inside(t) => /\ walk[t].table # p
                     /\ walk[t].at = "done" => walk[t].page # p
  BY <1>1 DEF WalksInv, WalkersSafe, Inside
<1> QED BY <1>1, <1>2, <1>3, <1>4, <1>5, <1>6

(* The counts after an allocation: the new page has one reference.          *)
LEMMA FreshCount ==
  ASSUME IInv, NEW p \in Pages, NEW level \in 0 .. PML4T, alloc_page(p, level),
         UNCHANGED upte
  PROVE  /\ MappingsFinite' /\ PageRefsExact'
         /\ Allocated' = Allocated \union {p}
<1> USE DEF IInv
<1>1. p \in Pick(Pages \ Allocated)
  BY DEF alloc_page
<1>2. /\ refs' = [refs EXCEPT ![p] = 1]
      /\ role' = [role EXCEPT ![p] = level]
  BY DEF alloc_page
<1>3. Allocated' = Allocated \union {p}
  BY <1>2 DEF Allocated, TypeOK
<1>4. MappingsFinite'
  BY DEF PagesInv, MappingsFinite, Mappings
<1>5. ASSUME NEW q \in Allocated'
      PROVE  refs'[q] = 1 + Cardinality(
               {x \in Vmms \X Gfns : upte'[x[1]][x[2]] = q})
  <2>1. CASE q = p
    <3>1. {x \in Vmms \X Gfns : upte'[x[1]][x[2]] = q} = {}
      BY <1>1, <2>1, FreshPage, ZenonT(60)
    <3>2. refs'[q] = 1
      BY <1>2, <2>1 DEF TypeOK
    <3>3. Cardinality({x \in Vmms \X Gfns : upte'[x[1]][x[2]] = q}) = 0
      BY <3>1, FS_EmptySet, Zenon
    <3> QED BY <3>2, <3>3
  <2>2. CASE q # p
    BY <1>2, <1>3, <2>2 DEF TypeOK, PagesInv, PageRefsExact, Allocated
  <2> QED BY <2>1, <2>2
<1>6. ASSUME NEW m \in Vmms, NEW g \in Gfns, upte'[m][g] # NULL
      PROVE  upte'[m][g] \in Allocated' /\ role'[upte'[m][g]] = 0
  BY <1>1, <1>2, <1>3, <1>6, FreshPage
  DEF TypeOK, PagesInv, PageRefsExact, Allocated
<1>7. PageRefsExact'
  BY <1>5, <1>6 DEF PageRefsExact
<1> QED BY <1>3, <1>4, <1>7

(* A new PML4 table: a tree of one page.                                    *)
LEMMA CreateStep ==
  ASSUME IInv, NEW t \in Threads, NEW m \in Vmms, yakvm_create_vmm(t, m)
  PROVE  IInv'
<1> USE DEF IInv
<1>1. PICK p \in Pages :
        /\ alloc_page(p, PML4T)
        /\ entrys' = [entrys EXCEPT ![p] = EmptyTable]
        /\ ncr3' = [ncr3 EXCEPT ![m] = p]
        /\ Begin(t, m, MmioGfn, "create", p)
  BY DEF yakvm_create_vmm
<1>2. /\ p \in Pick(Pages \ Allocated)
      /\ refs' = [refs EXCEPT ![p] = 1]
      /\ role' = [role EXCEPT ![p] = PML4T]
      /\ ncr3[m] = NULL
      /\ UNCHANGED <<ready, pgoff, upte, stranded, panicked>>
  BY <1>1 DEF alloc_page, yakvm_create_vmm, userVars
<1>3. /\ p \notin Allocated /\ refs[p] = 0 /\ entrys[p] = EmptyTable
      /\ \A q \in Pages, i \in Index : entrys[q][i].page # p
      /\ \A n \in Vmms :
           ncr3[n] # NULL => ncr3[n] # p /\ p \notin Tree(ncr3[n])
      /\ \A n \in Vmms, g \in Gfns : upte[n][g] # p
      /\ \A u \in Threads :
           Inside(u) => /\ walk[u].table # p
                        /\ walk[u].at = "done" => walk[u].page # p
  BY <1>2, FreshPage
<1>4. entrys' = entrys
  BY <1>1, <1>3 DEF TypeOK
<1>5. /\ MappingsFinite' /\ PageRefsExact'
      /\ Allocated' = Allocated \union {p}
  BY <1>1, <1>2, FreshCount DEF PML4T
<1> DEFINE w == [at |-> "read", caller |-> "create", vmm |-> m, gfn |-> MmioGfn,
                 level |-> PML4T, table |-> p, page |-> NULL]
<1>6. walk[t].at = "idle" /\ walk' = [walk EXCEPT ![t] = w]
  BY <1>1 DEF Begin, At
<1>7. w \in Walk
  BY ConstantsAssumption DEF Walk, Callers, Levels, PT, PML4T
<1>8. /\ walk' \in [Threads -> Walk]
      /\ walk'[t] = w
      /\ \A u \in Threads \ {t} : walk'[u] = walk[u]
  BY <1>6, <1>7 DEF TypeOK
<1> HIDE DEF w
<1>9. /\ w.at = "read" /\ w.caller = "create" /\ w.vmm = m
      /\ w.level = PML4T /\ w.table = p
  BY DEF w
<1>10. TypeOK'
  BY <1>1, <1>2, <1>4, <1>8 DEF TypeOK, PML4T
<1>11. FreePagesClean' /\ PresentLeadsOn'
  BY <1>2, <1>4 DEF TypeOK, PagesInv, FreePagesClean, PresentLeadsOn
<1>12. EntriesWellFormed' /\ OneParent'
  BY <1>2, <1>3, <1>4, <1>5
  DEF TypeOK, PagesInv, EntriesWellFormed, OneParent, EmptyTable, NoEntry,
      Allocated
<1>13. RootsOK'
  BY <1>1, <1>2, <1>5 DEF TypeOK, PagesInv, RootsOK, Allocated
<1>14. \A n \in Vmms \ {m} :
         ncr3'[n] = ncr3[n] /\ Tree(ncr3[n])' = Tree(ncr3[n])
  <2>1. \A n \in Vmms \ {m} : ncr3'[n] = ncr3[n]
    BY <1>1 DEF TypeOK
  <2> QED BY <1>4, <2>1, TreeDef
<1>15. ncr3'[m] = p /\ Tree(ncr3[m])' = {p}
  <2>1. ncr3'[m] = p
    BY <1>1 DEF TypeOK
  <2>2. \A q \in {p}, i \in Index :
          entrys[q][i].page \in Pages => entrys[q][i].page \in {p}
    BY <1>3, ConstantsAssumption DEF EmptyTable, NoEntry
  <2>3. TreeIn(entrys, p) \subseteq {p}
    BY <2>2, TreeLeast
  <2>4. p \in TreeIn(entrys, p)
    BY DEF TreeIn
  <2> QED BY <1>4, <2>1, <2>3, <2>4, TreeDef
<1>16. GuestsIsolated'
  BY <1>2, <1>3, <1>14, <1>15 DEF PagesInv, GuestsIsolated
<1>17. CallsOK'
  <2>1. \A u \in Threads : Inside(u) => walk[u].vmm # m
    BY <1>2 DEF WalksInv, CallsOK
  <2>2. m \notin ready
    BY <1>2 DEF PagesInv, RootsOK
  <2>3. \A u \in Threads : Inside(u)' => u = t \/ Inside(u)
    BY <1>8 DEF Inside
  <2>4. \A n \in Vmms : ncr3[n] # NULL => ncr3'[n] # NULL
    BY <1>2, <1>14
  <2>5. ncr3'[m] # NULL
    BY <1>15, ConstantsAssumption
  <2> QED BY <1>2, <1>8, <1>9, <2>1, <2>2, <2>3, <2>4, <2>5
          DEF WalksInv, CallsOK, FaultPage
<1>18. WalkersSafe'
  BY <1>2, <1>3, <1>5, <1>8, <1>9
  DEF TypeOK, WalksInv, WalkersSafe, Inside, Allocated
<1>19. WalkersIsolated'
  BY <1>2, <1>3, <1>8, <1>9, <1>14, <1>15
  DEF WalksInv, WalkersIsolated, Inside
<1> QED BY <1>5, <1>10, <1>11, <1>12, <1>13, <1>16, <1>17, <1>18, <1>19
        DEF PagesInv, WalksInv

(* The store of a new entry and what it leaves alone.                       *)
LEMMA AllocFacts ==
  ASSUME IInv, NEW t \in Threads, npt_alloc(t)
  PROVE  LET T == walk[t].table
             k == table_index(walk[t].gfn, walk[t].level)
         IN /\ UNCHANGED <<ncr3, ready, stranded, pgoff, upte, panicked>>
            /\ Inside(t) /\ walk[t].at = "alloc"
            /\ walk[t].level \in Levels
            /\ walk[t].level - 1 \in 0 .. PML4T
            /\ T \in Pages /\ T \in Allocated
            /\ role[T] = walk[t].level
            /\ k \in Index
            /\ \E p \in Pages :
                 /\ p \in Pick(Pages \ Allocated)
                 /\ alloc_page(p, walk[t].level - 1)
                 /\ Descend(t, p)
                 /\ \A q \in Pages \ {T} : entrys'[q] = entrys[q]
                 /\ \A i \in Index \ {k} : entrys'[T][i] = entrys[T][i]
                 /\ entrys'[T][k] = [page |-> p, present |-> TRUE]
                 /\ entrys' \in [Pages -> [Index -> Entry]]
<1> USE DEF IInv
<1> DEFINE T == walk[t].table
           k == table_index(walk[t].gfn, walk[t].level)
<1>1. PICK p \in Pages :
        /\ alloc_page(p, walk[t].level - 1)
        /\ entrys' = [entrys EXCEPT ![p] = EmptyTable,
                                    ![T][k] = [page |-> p, present |-> TRUE]]
        /\ Descend(t, p)
  BY DEF npt_alloc
<1>2. UNCHANGED <<ncr3, ready, stranded, pgoff, upte, panicked>>
  BY DEF npt_alloc, vmVars, userVars
<1>3. /\ Inside(t) /\ walk[t].at = "alloc"
      /\ walk[t].level \in Levels
      /\ walk[t].level - 1 \in 0 .. PML4T
      /\ T \in Pages /\ T \in Allocated
      /\ role[T] = walk[t].level
      /\ k \in Index
  BY IndexInTable
  DEF npt_alloc, At, TypeOK, Walk, Levels, PT, PML4T, Inside, WalksInv,
      WalkersSafe, Allocated
<1> HIDE DEF k
<1>4. p \in Pick(Pages \ Allocated)
  BY <1>1 DEF alloc_page
<1>5. entrys[p] = EmptyTable /\ p # T
  BY <1>3, <1>4, FreshPage
<1>6. entrys' = [entrys EXCEPT ![T][k] = [page |-> p, present |-> TRUE]]
  BY <1>1, <1>3, <1>5 DEF TypeOK
<1>7. /\ \A q \in Pages \ {T} : entrys'[q] = entrys[q]
      /\ \A i \in Index \ {k} : entrys'[T][i] = entrys[T][i]
      /\ entrys'[T][k] = [page |-> p, present |-> TRUE]
      /\ entrys' \in [Pages -> [Index -> Entry]]
  <2>1. [page |-> p, present |-> TRUE] \in Entry
    BY DEF Entry
  <2> QED BY <1>3, <1>6, <2>1 DEF TypeOK
<1> QED BY <1>1, <1>2, <1>3, <1>4, <1>7 DEF k

(* The store of a new entry: the page is new, so it has one parent; the     *)
(* page the entry may have had before has none any more.                    *)
LEMMA AllocStep ==
  ASSUME IInv, NEW t \in Threads, npt_alloc(t)
  PROVE  IInv'
<1> USE DEF IInv
<1> DEFINE T == walk[t].table
           k == table_index(walk[t].gfn, walk[t].level)
<1>1. PICK p \in Pages :
        /\ p \in Pick(Pages \ Allocated)
        /\ alloc_page(p, walk[t].level - 1)
        /\ Descend(t, p)
        /\ \A q \in Pages \ {T} : entrys'[q] = entrys[q]
        /\ \A i \in Index \ {k} : entrys'[T][i] = entrys[T][i]
        /\ entrys'[T][k] = [page |-> p, present |-> TRUE]
        /\ entrys' \in [Pages -> [Index -> Entry]]
  BY AllocFacts
<1>2. UNCHANGED <<ncr3, ready, stranded, pgoff, upte, panicked>>
  BY AllocFacts
<1>3. /\ Inside(t)
      /\ walk[t].level \in Levels
      /\ walk[t].level - 1 \in 0 .. PML4T
      /\ T \in Pages /\ T \in Allocated
      /\ role[T] = walk[t].level
      /\ k \in Index
  BY AllocFacts
<1> HIDE DEF k
<1>4. /\ p \in Pick(Pages \ Allocated)
      /\ refs' = [refs EXCEPT ![p] = 1]
      /\ role' = [role EXCEPT ![p] = walk[t].level - 1]
  BY <1>1 DEF alloc_page
<1>5. /\ p \notin Allocated /\ refs[p] = 0 /\ entrys[p] = EmptyTable
      /\ \A q \in Pages, i \in Index : entrys[q][i].page # p
      /\ \A n \in Vmms :
           ncr3[n] # NULL => ncr3[n] # p /\ p \notin Tree(ncr3[n])
      /\ \A n \in Vmms, g \in Gfns : upte[n][g] # p
      /\ \A u \in Threads :
           Inside(u) => /\ walk[u].table # p
                        /\ walk[u].at = "done" => walk[u].page # p
  BY <1>4, FreshPage
<1>6. /\ \A q \in Pages \ {T} : entrys'[q] = entrys[q]
      /\ \A i \in Index \ {k} : entrys'[T][i] = entrys[T][i]
      /\ entrys'[T][k] = [page |-> p, present |-> TRUE]
      /\ entrys' \in [Pages -> [Index -> Entry]]
  BY <1>1
<1>7. /\ MappingsFinite' /\ PageRefsExact'
      /\ Allocated' = Allocated \union {p}
  BY <1>1, <1>2, <1>3, FreshCount
<1>8. /\ walk' \in [Threads -> Walk]
      /\ \A u \in Threads \ {t} : walk'[u] = walk[u]
      /\ walk'[t].vmm = walk[t].vmm
      /\ walk'[t].caller = walk[t].caller
      /\ walk'[t].gfn = walk[t].gfn
      /\ walk[t].level = PT =>
           /\ walk'[t].at = "done"
           /\ walk'[t].page = p
           /\ walk'[t].table = T
           /\ walk'[t].level = PT
      /\ walk[t].level # PT =>
           /\ walk'[t].at = "read"
           /\ walk'[t].table = p
           /\ walk'[t].level = walk[t].level - 1
  BY <1>1, DescendFacts
<1>9. TypeOK'
  BY <1>2, <1>3, <1>4, <1>6, <1>8 DEF TypeOK
<1>10. FreePagesClean'
  BY <1>3, <1>4, <1>6, <1>7 DEF TypeOK, PagesInv, FreePagesClean, Allocated
<1>11. PresentLeadsOn'
  BY <1>3, <1>6, ConstantsAssumption DEF PagesInv, PresentLeadsOn
<1>12. role'[p] = walk[t].level - 1 /\ \A q \in Pages \ {p} : role'[q] = role[q]
  BY <1>4 DEF TypeOK
<1>13. EntriesWellFormed'
  <2> SUFFICES ASSUME NEW q \in Allocated', NEW i \in Index,
                      entrys'[q][i].page # NULL
               PROVE  /\ entrys'[q][i].page \in Allocated'
                      /\ role'[entrys'[q][i].page] = role'[q] - 1
    BY DEF EntriesWellFormed
  <2>1. CASE q = T /\ i = k
    BY <1>3, <1>5, <1>6, <1>7, <1>12, <2>1
  <2>2. CASE ~(q = T /\ i = k)
    <3>1. entrys'[q][i] = entrys[q][i] /\ q \in Pages
      BY <1>6, <1>7, <2>2 DEF Allocated
    <3>2. q # p
      BY <1>5, <3>1 DEF EmptyTable, NoEntry
    <3> QED BY <1>5, <1>7, <1>12, <3>1, <3>2
            DEF PagesInv, EntriesWellFormed, Allocated
  <2> QED BY <2>1, <2>2
<1>14. OneParent'
  <2> SUFFICES ASSUME NEW q \in Allocated', NEW x \in Allocated',
                      NEW i \in Index, NEW j \in Index,
                      entrys'[q][i].page # NULL,
                      entrys'[q][i].page = entrys'[x][j].page
               PROVE  q = x /\ i = j
    BY DEF OneParent
  <2>1. /\ ~(q = T /\ i = k) => entrys'[q][i] = entrys[q][i]
        /\ ~(x = T /\ j = k) => entrys'[x][j] = entrys[x][j]
        /\ q \in Pages /\ x \in Pages
    BY <1>6, <1>7 DEF Allocated
  <2>2. CASE (q = T /\ i = k) \/ (x = T /\ j = k)
    BY <1>5, <1>6, <2>1, <2>2
  <2>3. CASE ~(q = T /\ i = k) /\ ~(x = T /\ j = k)
    <3>1. q # p /\ x # p
      BY <1>5, <2>1, <2>3 DEF EmptyTable, NoEntry
    <3> QED BY <1>7, <2>1, <2>3, <3>1 DEF PagesInv, OneParent
  <2> QED BY <2>2, <2>3
<1>15. RootsOK'
  BY <1>2, <1>5, <1>7, <1>12 DEF TypeOK, PagesInv, RootsOK, Allocated
<1>16. \A n \in Vmms : ncr3[n] # NULL /\ n # walk[t].vmm =>
         T \notin Tree(ncr3[n]) /\ Tree(ncr3[n])' \subseteq Tree(ncr3[n])
  <2> SUFFICES ASSUME NEW n \in Vmms, ncr3[n] # NULL, n # walk[t].vmm
               PROVE  /\ T \notin Tree(ncr3[n])
                      /\ Tree(ncr3[n])' \subseteq Tree(ncr3[n])
    OBVIOUS
  <2>1. T \notin Tree(ncr3[n])
    BY <1>3 DEF WalksInv, WalkersIsolated
  <2>2. Tree(ncr3[n]) \subseteq Allocated
    BY TreeFacts
  <2>3. \A q \in Tree(ncr3[n]), i \in Index : entrys'[q][i] = entrys[q][i]
    BY <1>6, <2>1, <2>2 DEF Allocated
  <2> QED BY <1>2, <2>1, <2>3, TreeKept
<1>17. \A n \in Vmms : ncr3[n] # NULL =>
         Tree(ncr3[n])' \subseteq Tree(ncr3[n]) \union {p}
  <2> SUFFICES ASSUME NEW n \in Vmms, ncr3[n] # NULL
               PROVE  Tree(ncr3[n])' \subseteq Tree(ncr3[n]) \union {p}
    OBVIOUS
  <2> DEFINE S == Tree(ncr3[n]) \union {p}
  <2>1. /\ ncr3[n] \in S
        /\ Tree(ncr3[n]) \subseteq Pages
        /\ \A q \in Tree(ncr3[n]), i \in Index :
             entrys[q][i].page # NULL => entrys[q][i].page \in S
    BY TreeFacts DEF Allocated
  <2>2. ASSUME NEW q \in S, NEW i \in Index, entrys'[q][i].page \in Pages
        PROVE  entrys'[q][i].page \in S
    <3>1. CASE q = T /\ i = k
      BY <1>6, <3>1
    <3>2. CASE ~(q = T /\ i = k)
      <4>1. entrys'[q][i] = entrys[q][i]
        BY <1>6, <2>1, <3>2
      <4>2. entrys[q][i].page # NULL
        BY <2>2, <4>1, ConstantsAssumption
      <4>3. q # p
        BY <1>5, <4>2 DEF EmptyTable, NoEntry
      <4> QED BY <2>1, <4>1, <4>2, <4>3
    <3> QED BY <3>1, <3>2
  <2> HIDE DEF S
  <2>3. TreeIn(entrys', ncr3[n]) \subseteq S
    BY <2>1, <2>2, TreeLeast
  <2> QED BY <1>2, <2>3, TreeDef DEF S
<1>18. GuestsIsolated'
  <2> SUFFICES ASSUME NEW m \in Vmms, NEW n \in Vmms, m # n, ncr3[n] # NULL
               PROVE  /\ ncr3[m] # NULL =>
                           Tree(ncr3[m])' \cap Tree(ncr3[n])' = {}
                      /\ \A g \in Gfns : upte[m][g] \notin Tree(ncr3[n])'
    BY <1>2 DEF GuestsIsolated
  <2>1. /\ ncr3[m] # NULL => Tree(ncr3[m]) \cap Tree(ncr3[n]) = {}
        /\ \A g \in Gfns : upte[m][g] \notin Tree(ncr3[n])
    BY DEF PagesInv, GuestsIsolated
  <2>2. \A g \in Gfns : upte[m][g] \notin Tree(ncr3[n])'
    BY <1>5, <1>17, <2>1
  <2>3. CASE m # walk[t].vmm
    BY <1>5, <1>16, <1>17, <2>1, <2>2, <2>3
  <2>4. CASE n # walk[t].vmm
    BY <1>5, <1>16, <1>17, <2>1, <2>2, <2>4
  <2> QED BY <2>3, <2>4
<1>19. CallsOK'
  BY <1>2, <1>3, <1>8 DEF WalksInv, CallsOK, Inside, FaultPage
<1>20. WalkersSafe'
  <2> SUFFICES ASSUME NEW u \in Threads, walk'[u].at # "idle"
               PROVE  /\ walk'[u].table \in Allocated'
                      /\ role'[walk'[u].table] = walk'[u].level
                      /\ walk'[u].at = "done" =>
                           /\ walk'[u].page \in Allocated'
                           /\ role'[walk'[u].page] = 0
    BY DEF WalkersSafe
  <2>1. CASE u # t
    BY <1>5, <1>7, <1>8, <1>12, <2>1 DEF WalksInv, WalkersSafe, Inside, Allocated
  <2>2. CASE u = t
    BY <1>3, <1>5, <1>7, <1>8, <1>12, <2>2 DEF PT
  <2> QED BY <2>1, <2>2
<1>21. WalkersIsolated'
  <2> SUFFICES ASSUME NEW u \in Threads, NEW m \in Vmms, walk'[u].at # "idle",
                      ncr3[m] # NULL, walk'[u].vmm # m
               PROVE  /\ walk'[u].table \notin Tree(ncr3[m])'
                      /\ walk'[u].at = "done" =>
                           walk'[u].page \notin Tree(ncr3[m])'
    BY <1>2 DEF WalkersIsolated, Inside
  <2>1. CASE u # t
    BY <1>5, <1>8, <1>17, <2>1, SMTT(30) DEF WalksInv, WalkersIsolated, Inside
  <2>2. CASE u = t
    BY <1>5, <1>8, <1>16, <2>2
  <2> QED BY <2>1, <2>2
<1> QED BY <1>7, <1>9, <1>10, <1>11, <1>13, <1>14, <1>15, <1>18, <1>19,
           <1>20, <1>21
        DEF PagesInv, WalksInv

-----------------------------------------------------------------------------
(* The pages of a set that have no other user than the driver are freed.    *)
LEMMA PagesFreed ==
  ASSUME TypeOK, PagesInv, NEW S \in SUBSET Pages, \A p \in S : refs[p] = 1,
         free_pages(S)
  PROVE  /\ refs' \in [Pages -> Nat]
         /\ role' \in [Pages -> 0 .. PML4T]
         /\ entrys' \in [Pages -> [Index -> Entry]]
         /\ \A p \in S : refs'[p] = 0 /\ role'[p] = 0 /\ entrys'[p] = EmptyTable
         /\ \A p \in Pages \ S :
              /\ refs'[p] = refs[p]
              /\ role'[p] = role[p]
              /\ entrys'[p] = entrys[p]
         /\ Allocated' = Allocated \ S
<1>1. refs' = [p \in Pages |-> IF p \in S THEN refs[p] - 1 ELSE refs[p]]
  BY DEF free_pages
<1>2. /\ refs' \in [Pages -> Nat]
      /\ \A p \in S : refs'[p] = 0
      /\ \A p \in Pages \ S : refs'[p] = refs[p]
  BY <1>1 DEF TypeOK
<1>3. /\ role' = [p \in Pages |-> IF refs'[p] = 0 THEN 0 ELSE role[p]]
      /\ entrys' = [p \in Pages |->
                     IF refs'[p] = 0 THEN EmptyTable ELSE entrys[p]]
  BY DEF free_pages
<1>4. EmptyTable \in [Index -> Entry]
  BY DEF EmptyTable, NoEntry, Entry
<1>5. /\ role' \in [Pages -> 0 .. PML4T]
      /\ entrys' \in [Pages -> [Index -> Entry]]
  BY <1>3, <1>4 DEF TypeOK, PML4T
<1>6. \A p \in S : role'[p] = 0 /\ entrys'[p] = EmptyTable
  BY <1>2, <1>3
<1>7. \A p \in Pages \ S : role'[p] = role[p] /\ entrys'[p] = entrys[p]
  BY <1>2, <1>3 DEF PagesInv, FreePagesClean
<1>8. Allocated' = Allocated \ S
  BY <1>2 DEF Allocated
<1> QED BY <1>2, <1>5, <1>6, <1>7, <1>8

(* Pages of a vm that its processes do not map have no other user than the  *)
(* driver.                                                                  *)
LEMMA SoleUser ==
  ASSUME IInv, NEW m \in Vmms, ncr3[m] # NULL,
         NEW S \in SUBSET Tree(ncr3[m]), \A g \in Gfns : upte[m][g] \notin S
  PROVE  /\ S \subseteq Allocated /\ S \in SUBSET Pages
         /\ \A n \in Vmms, g \in Gfns : upte[n][g] \notin S
         /\ \A p \in S : refs[p] = 1
<1> USE DEF IInv
<1>1. S \subseteq Allocated /\ S \in SUBSET Pages
  BY TreeFacts DEF Allocated
<1>2. \A n \in Vmms, g \in Gfns : upte[n][g] \notin S
  BY DEF PagesInv, GuestsIsolated
<1>3. ASSUME NEW p \in S
      PROVE  refs[p] = 1
  <2>1. Mappings(upte, p) = {}
    BY <1>2 DEF Mappings
  <2>2. refs[p] = 1 + Cardinality(Mappings(upte, p))
    BY <1>1, Zenon DEF PagesInv, PageRefsExact, Mappings
  <2> QED BY <2>1, <2>2, FS_EmptySet
<1> QED BY <1>1, <1>2, <1>3

(* A vm loses its table and some of the pages below it, which nothing that  *)
(* stays refers to.                                                         *)
LEMMA VmFreed ==
  ASSUME IInv, NEW m \in Vmms, ncr3[m] # NULL,
         NEW S \in SUBSET Tree(ncr3[m]), ncr3[m] \in S,
         \A p \in Pages \ S, i \in Index : entrys[p][i].page \notin S,
         \A g \in Gfns : upte[m][g] \notin S,
         free_pages(S),
         ncr3' = [ncr3 EXCEPT ![m] = NULL],
         ready' = ready \ {m},
         stranded' \subseteq Pages,
         UNCHANGED <<pgoff, upte, panicked>>,
         walk' \in [Threads -> Walk],
         \A u \in Threads :
           Inside(u)' => Inside(u) /\ walk'[u] = walk[u] /\ walk[u].vmm # m
  PROVE  IInv'
<1> USE DEF IInv
<1>1. S \subseteq Allocated /\ S \in SUBSET Pages
  BY SoleUser
<1>2. \A n \in Vmms, g \in Gfns : upte[n][g] \notin S
  BY SoleUser
<1>3. \A p \in S : refs[p] = 1
  BY SoleUser
<1>4. /\ refs' \in [Pages -> Nat]
      /\ role' \in [Pages -> 0 .. PML4T]
      /\ entrys' \in [Pages -> [Index -> Entry]]
      /\ \A p \in S : refs'[p] = 0 /\ role'[p] = 0 /\ entrys'[p] = EmptyTable
      /\ \A p \in Pages \ S :
           /\ refs'[p] = refs[p]
           /\ role'[p] = role[p]
           /\ entrys'[p] = entrys[p]
      /\ Allocated' = Allocated \ S
  BY <1>1, <1>3, PagesFreed
<1>5. /\ ncr3'[m] = NULL
      /\ \A n \in Vmms \ {m} : ncr3'[n] = ncr3[n]
      /\ ncr3' \in [Vmms -> Pages \union {NULL}]
  BY DEF TypeOK
<1>6. TypeOK'
  BY <1>4, <1>5 DEF TypeOK
<1>7. FreePagesClean' /\ PresentLeadsOn'
  <2>1. \A p \in S, i \in Index : entrys'[p][i] = NoEntry
    BY <1>4 DEF EmptyTable
  <2> QED BY <1>4, <2>1, SMTT(30) DEF PagesInv, FreePagesClean, PresentLeadsOn
<1>8. EntriesWellFormed'
  BY <1>4 DEF PagesInv, EntriesWellFormed, Allocated
<1>9. OneParent'
  BY <1>4 DEF PagesInv, OneParent, Allocated
<1>10. \A n \in Vmms \ {m} :
         ncr3[n] # NULL =>
           /\ Tree(ncr3[n]) \cap S = {}
           /\ ncr3[n] \notin S
           /\ Tree(ncr3[n])' \subseteq Tree(ncr3[n])
  <2> SUFFICES ASSUME NEW n \in Vmms \ {m}, ncr3[n] # NULL
               PROVE  /\ Tree(ncr3[n]) \cap S = {}
                      /\ ncr3[n] \notin S
                      /\ Tree(ncr3[n])' \subseteq Tree(ncr3[n])
    OBVIOUS
  <2>1. Tree(ncr3[n]) \cap S = {}
    BY DEF PagesInv, GuestsIsolated
  <2>2. ncr3[n] \in Tree(ncr3[n]) /\ Tree(ncr3[n]) \subseteq Pages
    BY TreeFacts DEF Allocated
  <2>3. \A p \in Tree(ncr3[n]) : entrys'[p] = entrys[p]
    BY <1>4, <2>1, <2>2
  <2> QED BY <1>5, <2>1, <2>2, <2>3, TreeKept
<1>11. RootsOK'
  BY <1>4, <1>5, <1>10 DEF PagesInv, RootsOK, Allocated
<1>12. MappingsFinite'
  BY DEF PagesInv, MappingsFinite, Mappings
<1>13. PageRefsExact'
  <2>1. \A p \in Allocated' : refs'[p] = 1 + Cardinality(Mappings(upte', p))
    <3>1. upte' = upte
      OBVIOUS
    <3>2. \A p \in Allocated : refs[p] = 1 + Cardinality(Mappings(upte, p))
      BY Zenon DEF PagesInv, PageRefsExact, Mappings
    <3> QED BY <1>4, <3>1, <3>2 DEF Allocated
  <2>2. \A n \in Vmms, g \in Gfns :
          upte'[n][g] # NULL =>
            upte'[n][g] \in Allocated' /\ role'[upte'[n][g]] = 0
    BY <1>2, <1>4 DEF PagesInv, PageRefsExact, Allocated
  <2> QED BY <2>1, <2>2, Zenon DEF PageRefsExact, Mappings
<1>14. GuestsIsolated'
  BY <1>5, <1>10 DEF PagesInv, GuestsIsolated
<1>15. CallsOK'
  <2>1. \A u \in Threads : Inside(u)' => walk[u].vmm \in Vmms \ {m}
    BY DEF WalksInv, CallsOK
  <2> QED BY <1>5, <2>1 DEF WalksInv, CallsOK, FaultPage
<1>16. WalkersSafe'
  <2> SUFFICES ASSUME NEW u \in Threads, walk'[u].at # "idle"
               PROVE  /\ walk[u].table \in Allocated'
                      /\ role'[walk[u].table] = walk[u].level
                      /\ walk[u].at = "done" =>
                           /\ walk[u].page \in Allocated'
                           /\ role'[walk[u].page] = 0
    BY DEF WalkersSafe, Inside
  <2>1. Inside(u) /\ walk[u].vmm # m
    BY DEF Inside
  <2>2. /\ walk[u].table \notin S
        /\ walk[u].at = "done" => walk[u].page \notin S
    BY <2>1 DEF WalksInv, WalkersIsolated
  <2> QED BY <1>4, <2>1, <2>2 DEF WalksInv, WalkersSafe, Inside, Allocated
<1>17. WalkersIsolated'
  <2> SUFFICES ASSUME NEW u \in Threads, NEW n \in Vmms, Inside(u)',
                      ncr3'[n] # NULL, walk[u].vmm # n
               PROVE  /\ walk[u].table \notin Tree(ncr3[n])'
                      /\ walk[u].at = "done" => walk[u].page \notin Tree(ncr3[n])'
    BY DEF WalkersIsolated
  <2>1. n # m /\ ncr3[n] # NULL
    BY <1>5
  <2> QED BY <1>10, <2>1 DEF WalksInv, WalkersIsolated
<1> QED BY <1>6, <1>7, <1>8, <1>9, <1>11, <1>12, <1>13, <1>14, <1>15, <1>16,
           <1>17
        DEF PagesInv, WalksInv

(* The failed creation of a vm: nobody else has its PML4 table, and no      *)
(* entry leads to one.                                                      *)
LEMMA CreateFailStep ==
  ASSUME IInv, NEW t \in Threads, create_vmm_fail(t)
  PROVE  IInv'
<1> USE DEF IInv
<1> DEFINE m == walk[t].vmm
           r == ncr3[m]
<1>1. Inside(t) /\ walk[t].caller = "create"
  BY DEF create_vmm_fail, At, Inside
<1>2. /\ m \in Vmms /\ r # NULL /\ m \notin ready
      /\ \A u \in Threads \ {t} : Inside(u) => walk[u].vmm # m
  BY <1>1 DEF WalksInv, CallsOK
<1>3. /\ r \in Tree(r) /\ Tree(r) \subseteq Pages
      /\ r \in Allocated /\ role[r] = PML4T
  BY <1>2, TreeFacts DEF PagesInv, RootsOK, Allocated
<1>4. /\ free_pages({r})
      /\ stranded' = stranded \union (Tree(r) \ {r})
      /\ ncr3' = [ncr3 EXCEPT ![m] = NULL]
      /\ Return(t)
      /\ UNCHANGED <<ready, pgoff, upte, panicked>>
  BY DEF create_vmm_fail, userVars
<1>5. \A p \in Pages, i \in Index : entrys[p][i].page # r
  <2> SUFFICES ASSUME NEW p \in Pages, NEW i \in Index, entrys[p][i].page = r
               PROVE  FALSE
    OBVIOUS
  <2>1. p \in Allocated
    BY <1>2 DEF TypeOK, PagesInv, FreePagesClean, Allocated, EmptyTable, NoEntry
  <2>2. role[r] = role[p] - 1
    BY <1>2, <2>1 DEF PagesInv, EntriesWellFormed
  <2> QED BY <1>3, <2>2 DEF TypeOK, PML4T
<1>6. \A g \in Gfns : upte[m][g] # r
  BY <1>2, <1>3 DEF PagesInv, PageRefsExact, PML4T
<1>7. /\ walk' \in [Threads -> Walk]
      /\ walk'[t].at = "idle"
      /\ \A u \in Threads \ {t} : walk'[u] = walk[u]
  BY <1>4 DEF TypeOK, Return, Idle, Walk, Callers, Levels, PT, PML4T
<1>8. \A u \in Threads :
        Inside(u)' => Inside(u) /\ walk'[u] = walk[u] /\ walk[u].vmm # m
  BY <1>2, <1>7 DEF Inside
<1>9. stranded' \subseteq Pages /\ ready' = ready \ {m}
  BY <1>2, <1>3, <1>4 DEF TypeOK
<1> DEFINE S == {r}
<1>10. S \in SUBSET Tree(r) /\ r \in S
  BY <1>3
<1>11. \A p \in Pages \ S, i \in Index : entrys[p][i].page \notin S
  BY <1>5
<1>12. \A g \in Gfns : upte[m][g] \notin S
  BY <1>6
<1>13. free_pages(S)
  BY <1>4
<1> HIDE DEF m, S
<1> QED BY <1>2, <1>4, <1>7, <1>8, <1>9, <1>10, <1>11, <1>12, <1>13, VmFreed

(* The end of a vm: its whole tree goes, and nobody is left in it.          *)
LEMMA DestroyStep ==
  ASSUME IInv, NEW m \in Vmms, yakvm_destroy_vmm(m)
  PROVE  IInv'
<1> USE DEF IInv
<1> DEFINE S == Tree(ncr3[m])
<1>1. /\ m \in ready
      /\ \A g \in Gfns : upte[m][g] = NULL
      /\ free_pages(S)
      /\ ncr3' = [ncr3 EXCEPT ![m] = NULL]
      /\ ready' = ready \ {m}
      /\ UNCHANGED <<pgoff, upte, stranded, panicked, walk>>
  BY DEF yakvm_destroy_vmm, userVars
<1>2. ncr3[m] # NULL
  BY <1>1 DEF PagesInv, RootsOK
<1>3. /\ ncr3[m] \in S
      /\ S \subseteq Pages
      /\ \A p \in Pages \ S, i \in Index : entrys[p][i].page \notin S
  BY <1>2, TreeFacts DEF Allocated
<1>4. \A g \in Gfns : upte[m][g] \notin S
  BY <1>1, <1>3, ConstantsAssumption
<1>5. \A u \in Threads :
        Inside(u)' => Inside(u) /\ walk'[u] = walk[u] /\ walk[u].vmm # m
  BY <1>1 DEF yakvm_destroy_vmm, Walking, Inside
<1>6. walk' \in [Threads -> Walk] /\ stranded' \subseteq Pages
  BY <1>1 DEF TypeOK
<1>7. S \in SUBSET Tree(ncr3[m])
  OBVIOUS
<1> HIDE DEF S
<1> QED BY <1>1, <1>2, <1>3, <1>4, <1>5, <1>6, <1>7, VmFreed

(* The mmio page loses the present bit; no entry leads anywhere else.       *)
LEMMA CreateDoneStep ==
  ASSUME IInv, NEW t \in Threads, create_vmm_done(t)
  PROVE  IInv'
<1> USE DEF IInv
<1> DEFINE T == walk[t].table
           k == table_index(walk[t].gfn, walk[t].level)
           m == walk[t].vmm
<1>1. /\ Inside(t) /\ walk[t].caller = "create"
      /\ entrys' = [entrys EXCEPT ![T][k].present = FALSE]
      /\ ready' = ready \union {m}
      /\ Return(t)
      /\ UNCHANGED <<refs, role, ncr3, pgoff, upte, stranded, panicked>>
  BY DEF create_vmm_done, At, Inside, userVars
<1>2. /\ m \in Vmms /\ ncr3[m] # NULL
      /\ \A u \in Threads \ {t} : Inside(u) => walk[u].vmm # m
  BY <1>1 DEF WalksInv, CallsOK
<1>3. T \in Pages /\ k \in Index
  BY <1>1, IndexInTable
  DEF TypeOK, Walk, WalksInv, WalkersSafe, Inside, Allocated
<1>4. /\ walk' \in [Threads -> Walk]
      /\ walk'[t].at = "idle"
      /\ \A u \in Threads \ {t} : walk'[u] = walk[u]
  BY <1>1 DEF TypeOK, Return, Idle, Walk, Callers, Levels, PT, PML4T
<1> HIDE DEF k
<1>5. /\ entrys' \in [Pages -> [Index -> Entry]]
      /\ \A p \in Pages, i \in Index :
           /\ entrys'[p][i].page = entrys[p][i].page
           /\ entrys'[p][i] # entrys[p][i] =>
                p = T /\ entrys'[p][i].present = FALSE
  <2> DEFINE e == [entrys[T][k] EXCEPT !.present = FALSE]
  <2>1. e \in Entry /\ e.page = entrys[T][k].page /\ e.present = FALSE
    <3>1. entrys[T][k] \in Entry
      BY <1>3 DEF TypeOK
    <3> QED BY <3>1 DEF Entry
  <2>2. entrys' = [entrys EXCEPT ![T][k] = e]
    BY <1>1
  <2> HIDE DEF e
  <2> QED BY <1>3, <2>1, <2>2 DEF TypeOK
<1>6. Allocated' = Allocated
  BY <1>1 DEF Allocated
<1>7. \A n \in Vmms : ncr3[n] # NULL => Tree(ncr3[n])' \subseteq Tree(ncr3[n])
  <2> SUFFICES ASSUME NEW n \in Vmms, ncr3[n] # NULL
               PROVE  Tree(ncr3[n])' \subseteq Tree(ncr3[n])
    OBVIOUS
  <2>1. Tree(ncr3[n]) \subseteq Pages
    BY TreeFacts DEF Allocated
  <2> QED BY <1>1, <1>5, <2>1, TreeKept
<1>8. TypeOK'
  BY <1>1, <1>2, <1>4, <1>5 DEF TypeOK
<1>9. FreePagesClean'
  <2>1. T \in Allocated
    BY <1>1 DEF WalksInv, WalkersSafe, Inside
  <2>2. \A p \in Pages \ {T} : entrys'[p] = entrys[p]
    BY <1>1 DEF TypeOK
  <2> QED BY <1>1, <2>1, <2>2 DEF PagesInv, FreePagesClean, Allocated
<1>10. PresentLeadsOn'
  <2> SUFFICES ASSUME NEW p \in Pages, NEW i \in Index,
                      entrys'[p][i].page = NULL
               PROVE  entrys'[p][i] = NoEntry
    BY DEF PresentLeadsOn
  <2>1. entrys[p][i] = NoEntry
    BY <1>5 DEF PagesInv, PresentLeadsOn
  <2>2. entrys'[p][i] \in Entry /\ entrys'[p][i].present = FALSE
    BY <1>5, <2>1 DEF NoEntry
  <2> QED BY <2>2 DEF Entry, NoEntry
<1>11. EntriesWellFormed' /\ OneParent'
  <2>1. \A p \in Allocated, i \in Index :
          entrys'[p][i].page = entrys[p][i].page
    BY <1>5 DEF Allocated
  <2>2. EntriesWellFormed'
    <3>1. role' = role
      BY <1>1
    <3>2. ASSUME NEW p \in Allocated, NEW i \in Index,
                 entrys'[p][i].page # NULL
          PROVE  /\ entrys'[p][i].page \in Allocated
                 /\ role[entrys'[p][i].page] = role[p] - 1
      <4> DEFINE q == entrys[p][i].page
      <4>1. entrys'[p][i].page = q
        BY <2>1
      <4>2. q # NULL => q \in Allocated /\ role[q] = role[p] - 1
        BY DEF PagesInv, EntriesWellFormed
      <4> HIDE DEF q
      <4> QED BY <3>2, <4>1, <4>2
    <3> QED BY <1>6, <3>1, <3>2, Zenon DEF EntriesWellFormed
  <2>3. OneParent'
    BY <1>6, <2>1 DEF PagesInv, OneParent
  <2> QED BY <2>2, <2>3
<1>12. RootsOK'
  BY <1>1, <1>2, <1>6 DEF PagesInv, RootsOK
<1>13. MappingsFinite' /\ PageRefsExact'
  BY <1>1, <1>6 DEF PagesInv, MappingsFinite, PageRefsExact, Mappings
<1>14. GuestsIsolated'
  BY <1>1, <1>7 DEF PagesInv, GuestsIsolated
<1>15. CallsOK'
  BY <1>1, <1>2, <1>4 DEF WalksInv, CallsOK, Inside, FaultPage
<1>16. WalkersSafe'
  BY <1>1, <1>4, <1>6 DEF WalksInv, WalkersSafe
<1>17. WalkersIsolated'
  BY <1>1, <1>4, <1>7 DEF WalksInv, WalkersIsolated, Inside
<1> QED BY <1>8, <1>9, <1>10, <1>11, <1>12, <1>13, <1>14, <1>15, <1>16, <1>17
        DEF PagesInv, WalksInv

(* One user mapping more or less of a page of guest memory, and one         *)
(* reference: the tables stay as they are.                                  *)
LEMMA MappingChanges ==
  ASSUME IInv, NEW m \in Vmms, NEW g \in Gfns, NEW p \in Pages \union {NULL},
         upte' = [upte EXCEPT ![m][g] = p],
         UNCHANGED <<role, entrys, ncr3, ready, stranded, pgoff, panicked>>,
         refs' \in [Pages -> Nat], Allocated' = Allocated,
         p # NULL => p \in Allocated /\ role[p] = 0,
         \A n \in Vmms \ {m} : ncr3[n] # NULL => p \notin Tree(ncr3[n]),
         \A q \in Pages : IsFiniteSet(Mappings(upte', q)),
         \A q \in Allocated : refs'[q] = 1 + Cardinality(Mappings(upte', q)),
         walk' \in [Threads -> Walk],
         \A u \in Threads : Inside(u)' => Inside(u) /\ walk'[u] = walk[u]
  PROVE  IInv'
<1> USE DEF IInv
<1>1. /\ upte' \in [Vmms -> [Gfns -> Pages \union {NULL}]]
      /\ upte'[m][g] = p
      /\ \A n \in Vmms, h \in Gfns :
           n # m \/ h # g => upte'[n][h] = upte[n][h]
  BY DEF TypeOK
<1>2. \A n \in Vmms : Tree(ncr3[n])' = Tree(ncr3[n])
  BY TreeDef
<1>3. TypeOK'
  BY <1>1 DEF TypeOK
<1>4. FreePagesClean' /\ PresentLeadsOn' /\ EntriesWellFormed' /\ OneParent'
  <2>1. \A q \in Pages : refs'[q] = 0 <=> refs[q] = 0
    BY SMTT(30) DEF TypeOK, Allocated
  <2> QED BY <2>1 DEF PagesInv, FreePagesClean, PresentLeadsOn,
                      EntriesWellFormed, OneParent
<1>5. RootsOK'
  BY DEF PagesInv, RootsOK
<1>6. MappingsFinite'
  BY DEF MappingsFinite
<1>7. PageRefsExact'
  <2>1. \A n \in Vmms, h \in Gfns :
          upte'[n][h] # NULL =>
            upte'[n][h] \in Allocated' /\ role'[upte'[n][h]] = 0
    BY <1>1 DEF PagesInv, PageRefsExact
  <2>2. \A q \in Allocated' : refs'[q] = 1 + Cardinality(Mappings(upte', q))
    OBVIOUS
  <2> QED BY <2>1, <2>2, Zenon DEF PageRefsExact, Mappings
<1>8. GuestsIsolated'
  <2> SUFFICES ASSUME NEW a \in Vmms, NEW n \in Vmms, a # n, ncr3[n] # NULL
               PROVE  /\ ncr3[a] # NULL => Tree(ncr3[a]) \cap Tree(ncr3[n]) = {}
                      /\ \A h \in Gfns : upte'[a][h] \notin Tree(ncr3[n])
    BY <1>2 DEF GuestsIsolated
  <2>1. /\ ncr3[a] # NULL => Tree(ncr3[a]) \cap Tree(ncr3[n]) = {}
        /\ \A h \in Gfns : upte[a][h] \notin Tree(ncr3[n])
    BY DEF PagesInv, GuestsIsolated
  <2>2. a = m => p \notin Tree(ncr3[n])
    OBVIOUS
  <2> QED BY <1>1, <2>1, <2>2
<1>9. CallsOK' /\ WalkersSafe'
  BY DEF WalksInv, CallsOK, WalkersSafe, Inside, FaultPage
<1>10. WalkersIsolated'
  BY <1>2 DEF WalksInv, WalkersIsolated
<1> QED BY <1>3, <1>4, <1>5, <1>6, <1>7, <1>8, <1>9, <1>10
        DEF PagesInv, WalksInv

(* get_page() pays for the mapping the fault adds.                          *)
LEMMA FaultDoneStep ==
  ASSUME IInv, NEW t \in Threads, fault_done(t)
  PROVE  IInv'
<1> USE DEF IInv
<1> DEFINE m == walk[t].vmm
           g == FaultPage(t)
           p == walk[t].page
<1>1. /\ Inside(t) /\ walk[t].at = "done" /\ walk[t].caller = "fault"
      /\ upte[m][g] = NULL
      /\ upte' = [upte EXCEPT ![m][g] = p]
      /\ refs' = [refs EXCEPT ![p] = @ + 1]
      /\ Return(t)
      /\ UNCHANGED <<role, entrys, ncr3, ready, stranded, pgoff, panicked>>
  BY DEF fault_done, At, Inside, vmVars
<1>2. m \in Vmms /\ g \in Gfns
  BY <1>1 DEF WalksInv, CallsOK
<1>3. p \in Allocated /\ p \in Pages /\ role[p] = 0
  BY <1>1 DEF WalksInv, WalkersSafe, Inside, Allocated
<1>4. \A n \in Vmms \ {m} : ncr3[n] # NULL => p \notin Tree(ncr3[n])
  BY <1>1 DEF WalksInv, WalkersIsolated
<1>5. /\ walk' \in [Threads -> Walk]
      /\ \A u \in Threads : Inside(u)' => Inside(u) /\ walk'[u] = walk[u]
  BY <1>1 DEF TypeOK, Return, Idle, Walk, Callers, Levels, PT, PML4T, Inside
<1> HIDE DEF m, g, p
<1>6. /\ refs' \in [Pages -> Nat]
      /\ refs'[p] = refs[p] + 1
      /\ \A q \in Pages \ {p} : refs'[q] = refs[q]
      /\ Allocated' = Allocated
  BY <1>1, <1>3 DEF TypeOK, Allocated
<1>7. /\ Mappings(upte', p) = Mappings(upte, p) \union {<<m, g>>}
      /\ <<m, g>> \notin Mappings(upte, p)
  BY <1>1, <1>2, <1>3, ConstantsAssumption DEF TypeOK, Mappings
<1>8. \A q \in Pages \ {p} : Mappings(upte', q) = Mappings(upte, q)
  BY <1>1, <1>2, <1>3, ConstantsAssumption DEF TypeOK, Mappings
<1>9. /\ \A q \in Pages : IsFiniteSet(Mappings(upte, q))
      /\ \A q \in Allocated : refs[q] = 1 + Cardinality(Mappings(upte, q))
  BY Zenon DEF PagesInv, MappingsFinite, PageRefsExact, Mappings
<1>10. /\ IsFiniteSet(Mappings(upte', p))
       /\ Cardinality(Mappings(upte', p)) = Cardinality(Mappings(upte, p)) + 1
       /\ Cardinality(Mappings(upte, p)) \in Nat
  BY <1>3, <1>7, <1>9, FS_AddElement, FS_CardinalityType
<1>11. \A q \in Pages : IsFiniteSet(Mappings(upte', q))
  BY <1>8, <1>9, <1>10
<1>12. \A q \in Allocated : refs'[q] = 1 + Cardinality(Mappings(upte', q))
  BY <1>3, <1>6, <1>8, <1>9, <1>10 DEF Allocated
<1> QED BY <1>1, <1>2, <1>3, <1>4, <1>5, <1>6, <1>11, <1>12, MappingChanges

(* The kernel puts what it unmaps: the reference of the driver stays.       *)
LEMMA ZapFacts ==
  ASSUME IInv, NEW m \in Vmms, NEW g \in Gfns, zap_pte(m, g)
  PROVE  /\ refs' \in [Pages -> Nat]
         /\ Allocated' = Allocated
         /\ role' = role
         /\ entrys' = entrys
         /\ \A q \in Pages : IsFiniteSet(Mappings(upte', q))
         /\ \A q \in Allocated : refs'[q] = 1 + Cardinality(Mappings(upte', q))
<1> USE DEF IInv
<1> DEFINE p == upte[m][g]
<1>1. /\ p # NULL
      /\ free_pages({p})
      /\ upte' = [upte EXCEPT ![m][g] = NULL]
      /\ UNCHANGED <<ncr3, ready, stranded, pgoff, panicked, walk>>
  BY DEF zap_pte, vmVars
<1>2. p \in Pages /\ p \in Allocated
  BY <1>1 DEF PagesInv, PageRefsExact, Allocated
<1>3. /\ Mappings(upte', p) = Mappings(upte, p) \ {<<m, g>>}
      /\ <<m, g>> \in Mappings(upte, p)
  BY <1>1, <1>2, ConstantsAssumption DEF TypeOK, Mappings
<1>4. \A q \in Pages \ {p} : Mappings(upte', q) = Mappings(upte, q)
  BY <1>1, ConstantsAssumption DEF TypeOK, Mappings
<1>5. /\ \A q \in Pages : IsFiniteSet(Mappings(upte, q))
      /\ \A q \in Allocated : refs[q] = 1 + Cardinality(Mappings(upte, q))
  BY Zenon DEF PagesInv, MappingsFinite, PageRefsExact, Mappings
<1>6. /\ IsFiniteSet(Mappings(upte', p))
      /\ Cardinality(Mappings(upte', p)) = Cardinality(Mappings(upte, p)) - 1
      /\ Cardinality(Mappings(upte', p)) \in Nat
  <2>1. /\ IsFiniteSet(Mappings(upte, p) \ {<<m, g>>})
        /\ Cardinality(Mappings(upte, p) \ {<<m, g>>})
             = Cardinality(Mappings(upte, p)) - 1
    BY <1>2, <1>3, <1>5, FS_RemoveElement
  <2>2. Cardinality(Mappings(upte, p) \ {<<m, g>>}) \in Nat
    BY <2>1, FS_CardinalityType
  <2> QED BY <1>3, <2>1, <2>2
<1>7. /\ refs[p] = 2 + Cardinality(Mappings(upte', p))
      /\ refs' = [q \in Pages |-> IF q \in {p} THEN refs[q] - 1 ELSE refs[q]]
  <2>1. Cardinality(Mappings(upte, p)) \in Nat
    BY <1>2, <1>5, FS_CardinalityType
  <2>2. refs[p] = 1 + Cardinality(Mappings(upte, p))
    BY <1>2, <1>5
  <2> QED BY <1>1, <1>6, <2>1, <2>2 DEF free_pages
<1>8. /\ refs' \in [Pages -> Nat]
      /\ refs'[p] = 1 + Cardinality(Mappings(upte', p))
      /\ \A q \in Pages \ {p} : refs'[q] = refs[q]
      /\ refs'[p] > 0
  BY <1>2, <1>6, <1>7 DEF TypeOK
<1>9. Allocated' = Allocated
  BY <1>2, <1>8 DEF Allocated
<1>10. role' = role /\ entrys' = entrys
  <2>1. /\ role' = [q \in Pages |-> IF refs'[q] = 0 THEN 0 ELSE role[q]]
        /\ entrys' = [q \in Pages |->
                       IF refs'[q] = 0 THEN EmptyTable ELSE entrys[q]]
    BY <1>1 DEF free_pages
  <2>2. \A q \in Pages :
          refs'[q] = 0 => role[q] = 0 /\ entrys[q] = EmptyTable
    BY <1>8 DEF PagesInv, FreePagesClean
  <2>3. role = [q \in Pages |-> role[q]] /\ entrys = [q \in Pages |-> entrys[q]]
    BY DEF TypeOK
  <2>4. role' = role
    BY <2>1, <2>2, <2>3
  <2>5. entrys' = entrys
    BY <2>1, <2>2, <2>3
  <2> QED BY <2>4, <2>5
<1>11. \A q \in Pages : IsFiniteSet(Mappings(upte', q))
  BY <1>4, <1>5, <1>6
<1>12. \A q \in Allocated : refs'[q] = 1 + Cardinality(Mappings(upte', q))
  BY <1>4, <1>5, <1>8 DEF Allocated
<1> QED BY <1>8, <1>9, <1>10, <1>11, <1>12

(* One user mapping less.                                                   *)
LEMMA ZapStep ==
  ASSUME IInv, NEW m \in Vmms, NEW g \in Gfns, zap_pte(m, g)
  PROVE  IInv'
<1>1. /\ upte' = [upte EXCEPT ![m][g] = NULL]
      /\ UNCHANGED <<ncr3, ready, stranded, pgoff, panicked, walk>>
  BY DEF zap_pte, vmVars
<1>2. /\ walk' \in [Threads -> Walk]
      /\ \A u \in Threads : Inside(u)' => Inside(u) /\ walk'[u] = walk[u]
  BY <1>1 DEF IInv, TypeOK, Inside
<1>3. \A n \in Vmms \ {m} : ncr3[n] # NULL => NULL \notin Tree(ncr3[n])
  BY TreeFacts, ConstantsAssumption DEF IInv, Allocated
<1> QED BY <1>1, <1>2, <1>3, ZapFacts, MappingChanges

-----------------------------------------------------------------------------
(* At the start all pages are free and no vm exists.                        *)
LEMMA InitIInv == Init => IInv
<1> SUFFICES ASSUME Init PROVE IInv
  OBVIOUS
<1> USE DEF Init
<1>1. TypeOK
  <2>1. EmptyTable \in [Index -> Entry]
    BY DEF EmptyTable, NoEntry, Entry
  <2>2. Idle \in Walk
    BY DEF Idle, Walk, Callers, Levels, PT, PML4T
  <2>3. entrys \in [Pages -> [Index -> Entry]] /\ walk \in [Threads -> Walk]
    BY <2>1, <2>2
  <2>4. /\ refs \in [Pages -> Nat] /\ role \in [Pages -> 0 .. PML4T]
        /\ ncr3 \in [Vmms -> Pages \union {NULL}] /\ pgoff \in [Vmms -> Nat]
        /\ upte \in [Vmms -> [Gfns -> Pages \union {NULL}]]
    BY DEF PML4T
  <2> QED BY <2>3, <2>4 DEF TypeOK
<1>2. Allocated = {}
  BY DEF Allocated
<1>3. FreePagesClean /\ PresentLeadsOn
  BY DEF FreePagesClean, PresentLeadsOn, EmptyTable, NoEntry
<1>4. EntriesWellFormed /\ OneParent /\ RootsOK
  BY <1>2 DEF EntriesWellFormed, OneParent, RootsOK
<1>5. MappingsFinite
  <2>1. \A p \in Pages : Mappings(upte, p) = {}
    BY ConstantsAssumption DEF Mappings
  <2> QED BY <2>1, FS_EmptySet DEF MappingsFinite
<1>6. PageRefsExact
  BY <1>2 DEF PageRefsExact
<1>7. GuestsIsolated
  BY DEF GuestsIsolated
<1>8. WalksInv
  BY DEF WalksInv, CallsOK, WalkersSafe, WalkersIsolated, Inside, Idle
<1> QED BY <1>1, <1>3, <1>4, <1>5, <1>6, <1>7, <1>8 DEF IInv, PagesInv

(* Every step keeps the invariant.                                          *)
LEMMA NextIInv == IInv /\ [Next]_vars => IInv'
<1> SUFFICES ASSUME IInv, [Next]_vars PROVE IInv'
  OBVIOUS
<1>1. CASE UNCHANGED vars
  <2> USE <1>1 DEF vars, IInv
  <2>1. /\ PagesInv'
        /\ \A m \in Vmms : Tree(ncr3[m])' = Tree(ncr3[m])
        /\ Allocated' = Allocated
    BY PagesUntouched DEF pageVars
  <2>2. TypeOK'
    BY DEF TypeOK
  <2>3. CallsOK' /\ WalkersSafe'
    BY <2>1 DEF WalksInv, CallsOK, WalkersSafe, Inside, FaultPage
  <2>4. WalkersIsolated'
    BY <2>1 DEF WalksInv, WalkersIsolated, Inside
  <2> QED BY <2>1, <2>2, <2>3, <2>4 DEF WalksInv
<1>2. ASSUME NEW t \in Threads, Enter(t)
      PROVE  IInv'
  BY <1>2, CreateStep, MmapPageStep, FaultStep DEF Enter
<1>3. ASSUME NEW t \in Threads, WalkStep(t)
      PROVE  IInv'
  <2>1. CASE npt_missing(t)
    BY <2>1, MissingStep
  <2>2. CASE npt_follow(t)
    BY <2>2, FollowStep
  <2>3. CASE npt_assert(t)
    BY <2>3, AssertStep
  <2>4. CASE npt_alloc(t)
    BY <2>4, AllocStep
  <2>5. CASE npt_alloc_fail(t) \/ mmap_page_done(t) \/ fault_done_late(t)
    BY <2>5, ReturnStep DEF npt_alloc_fail, mmap_page_done, fault_done_late
  <2>6. CASE create_vmm_fail(t)
    BY <2>6, CreateFailStep
  <2>7. CASE create_vmm_done(t)
    BY <2>7, CreateDoneStep
  <2>8. CASE fault_done(t)
    BY <2>8, FaultDoneStep
  <2> QED BY <1>3, <2>1, <2>2, <2>3, <2>4, <2>5, <2>6, <2>7, <2>8 DEF WalkStep
<1>4. ASSUME NEW m \in Vmms, NEW g \in Gfns, zap_pte(m, g)
      PROVE  IInv'
  BY <1>4, ZapStep
<1>5. ASSUME NEW m \in Vmms, NEW off \in Offsets, yakvm_vm_mmap(m, off)
      PROVE  IInv'
  BY <1>5, MmapStep
<1>6. ASSUME NEW m \in Vmms, yakvm_destroy_vmm(m)
      PROVE  IInv'
  BY <1>6, DestroyStep
<1> QED BY <1>1, <1>2, <1>3, <1>4, <1>5, <1>6 DEF Next, Halted

(* The inductive invariant holds however the unlocked walks interleave.     *)
THEOREM Invariance == Spec => []IInv
BY InitIInv, NextIInv, PTL DEF Spec

(* All variables keep their types; no reference count is dropped below 0.   *)
THEOREM TypeCorrectness == Spec => []TypeOK
<1>1. IInv => TypeOK
  BY DEF IInv
<1> QED BY <1>1, Invariance, PTL

(* Any number of walks of yakvm_vmm_npt_create() at once leave every entry  *)
(* of a table in use leading to a page in use of the next level.            *)
THEOREM EntriesTheorem == Spec => []EntriesWellFormed
<1>1. IInv => EntriesWellFormed
  BY DEF IInv, PagesInv
<1> QED BY <1>1, Invariance, PTL

(* yakvm_vmm_destroy_table() meets each page once.                          *)
THEOREM OneParentTheorem == Spec => []OneParent
<1>1. IInv => OneParent
  BY DEF IInv, PagesInv
<1> QED BY <1>1, Invariance, PTL

(* No thread in yakvm_vmm_npt_create() stands on a page that was freed, or  *)
(* takes memory of the guest for a table.                                   *)
THEOREM WalkersTheorem == Spec => []WalkersSafe
<1>1. IInv => WalkersSafe
  BY DEF IInv, WalksInv
<1> QED BY <1>1, Invariance, PTL

(* get_page() in the fault handler and put_page() of the kernel balance, so *)
(* that no mapping outlives its page.                                       *)
THEOREM PageRefsTheorem == Spec => []PageRefsExact
<1>1. IInv => PageRefsExact
  BY DEF IInv, PagesInv
<1> QED BY <1>1, Invariance, PTL

(* Whatever races there are within vms, between vms nothing is shared.      *)
THEOREM IsolationTheorem == Spec => []GuestsIsolated
<1>1. IInv => GuestsIsolated
  BY DEF IInv, PagesInv
<1> QED BY <1>1, Invariance, PTL

-----------------------------------------------------------------------------
(* Frames and pages.                                                        *)

(* Quotient and remainder.                                                  *)
LEMMA DivMod ==
  ASSUME NEW a \in Nat, NEW b \in Nat \ {0}
  PROVE  /\ a \div b \in Nat
         /\ a % b \in 0 .. (b - 1)
         /\ a = b * (a \div b) + (a % b)
OBVIOUS

(* The quotient is determined by its remainder.                             *)
LEMMA DivUnique ==
  ASSUME NEW b \in Nat \ {0}, NEW q \in Nat, NEW r \in 0 .. (b - 1)
  PROVE  (b * q + r) \div b = q
OBVIOUS

(* Two shifts are one.                                                      *)
LEMMA DivDiv ==
  ASSUME NEW a \in Nat, NEW s \in Nat \ {0}, NEW f \in Nat \ {0}
  PROVE  a \div (f * s) = (a \div s) \div f
<1> DEFINE q == a \div s
           x == q \div f
           d == q % f
           r == a % s
<1>1. /\ q \in Nat /\ x \in Nat /\ d \in 0 .. (f - 1) /\ r \in 0 .. (s - 1)
      /\ a = s * q + r /\ q = f * x + d
  BY DivMod
<1> HIDE DEF q, x, d, r
<1>2. a = (f * s) * x + (s * d + r)
  BY <1>1
<1>3. s * d + s <= f * s
  BY <1>1
<1>4. f * s \in Nat \ {0} /\ s * d \in Nat
  BY <1>1
<1>5. s * d + r \in 0 .. (f * s - 1)
  BY <1>1, <1>3, <1>4
<1>6. a \div (f * s) = x
  BY <1>1, <1>2, <1>4, <1>5, DivUnique
<1> QED BY <1>6 DEF x, q

(* The four indexes of a frame determine it, as far as the tables reach.    *)
LEMMA IndexesDetermineFrame ==
  ASSUME NEW g \in Nat, NEW h \in Nat,
         g < Fanout * Span[PML4T], h < Fanout * Span[PML4T],
         \A l \in Levels : table_index(g, l) = table_index(h, l)
  PROVE  g = h
<1> DEFINE F == Fanout
           G(l) == g \div Span[l]
           H(l) == h \div Span[l]
<1>1. /\ F \in Nat \ {0}
      /\ \A l \in Levels : Span[l] \in Nat \ {0}
      /\ Span[1] = 1 /\ Span[2] = F * Span[1] /\ Span[3] = F * Span[2]
      /\ Span[4] = F * Span[3]
  BY ConstantsAssumption, SpanAssumption
  DEF Levels, PT, PDT, PDPT, PML4T
<1>2. \A l \in Levels : G(l) \in Nat /\ H(l) \in Nat /\ G(l) % F = H(l) % F
  BY <1>1, DivMod DEF table_index
<1>3. /\ G(2) = G(1) \div F /\ G(3) = G(2) \div F /\ G(4) = G(3) \div F
      /\ H(2) = H(1) \div F /\ H(3) = H(2) \div F /\ H(4) = H(3) \div F
  BY <1>1, DivDiv DEF Levels, PT, PML4T
<1>4. G(1) = g /\ H(1) = h
  BY <1>1
<1>5. G(4) < F /\ H(4) < F
  BY <1>1 DEF Levels, PT, PML4T
<1> HIDE DEF G, H, F
<1>6. G(4) % F = G(4) /\ H(4) % F = H(4)
  BY <1>1, <1>2, <1>5 DEF Levels, PT, PML4T
<1>7. G(4) = H(4)
  BY <1>2, <1>6 DEF Levels, PT, PML4T
<1>8. ASSUME NEW l \in {1, 2, 3}, G(l) \div F = H(l) \div F
      PROVE  G(l) = H(l)
  <2>1. l \in Levels
    BY DEF Levels, PT, PML4T
  <2>2. /\ G(l) = F * (G(l) \div F) + (G(l) % F)
        /\ H(l) = F * (H(l) \div F) + (H(l) % F)
    BY <1>1, <1>2, <2>1, DivMod
  <2> QED BY <1>2, <1>8, <2>1, <2>2
<1>9. G(3) = H(3)
  BY <1>3, <1>7, <1>8
<1>10. G(2) = H(2)
  BY <1>3, <1>8, <1>9
<1>11. G(1) = H(1)
  BY <1>3, <1>8, <1>10
<1> QED BY <1>4, <1>11

(* One hop of the processor's walk, from a table in use.                    *)
LEMMA HopFacts ==
  ASSUME TypeOK, PagesInv, NEW p, p = NULL \/ p \in Allocated, NEW g \in Nat,
         NEW l \in Levels, Hop(p, g, l) # NULL
  PROVE  /\ p \in Allocated
         /\ Hop(p, g, l) = entrys[p][table_index(g, l)].page
         /\ Hop(p, g, l) \in Allocated
<1>1. p # NULL /\ p \in Allocated
  BY DEF Hop
<1>2. Hop(p, g, l) = entrys[p][table_index(g, l)].page
  BY <1>1 DEF Hop
<1>3. table_index(g, l) \in Index
  BY IndexInTable
<1> QED BY <1>1, <1>2, <1>3 DEF PagesInv, EntriesWellFormed

(* Where no page has two parents, no page is behind two frames.             *)
LEMMA DistinctFrames == IInv => FramesDistinct
<1> SUFFICES ASSUME IInv, NEW m \in Vmms, NEW g \in Gfns, NEW h \in Gfns,
                    g < Fanout * Span[PML4T], h < Fanout * Span[PML4T],
                    Translate(m, g) # NULL, Translate(m, g) = Translate(m, h)
             PROVE  g = h
  BY DEF FramesDistinct
<1> USE DEF IInv
<1> DEFINE r == ncr3[m]
           G3 == Hop(r, g, PML4T)
           G2 == Hop(G3, g, PDPT)
           G1 == Hop(G2, g, PDT)
           H3 == Hop(r, h, PML4T)
           H2 == Hop(H3, h, PDPT)
           H1 == Hop(H2, h, PDT)
<1>1. g \in Nat /\ h \in Nat
  BY ConstantsAssumption
<1>2. {PT, PDT, PDPT, PML4T} \subseteq Levels
  BY DEF Levels, PT, PDT, PDPT, PML4T
<1>3. r = NULL \/ r \in Allocated
  BY DEF PagesInv, RootsOK
<1>4. Hop(G1, g, PT) # NULL /\ Hop(G1, g, PT) = Hop(H1, h, PT)
  BY DEF Translate
<1> HIDE DEF r
<1>5. (G3 = NULL \/ G3 \in Allocated) /\ (H3 = NULL \/ H3 \in Allocated)
  BY <1>1, <1>2, <1>3, HopFacts
<1> HIDE DEF G3, H3
<1>6. (G2 = NULL \/ G2 \in Allocated) /\ (H2 = NULL \/ H2 \in Allocated)
  BY <1>1, <1>2, <1>5, HopFacts
<1> HIDE DEF G2, H2
<1>7. (G1 = NULL \/ G1 \in Allocated) /\ (H1 = NULL \/ H1 \in Allocated)
  BY <1>1, <1>2, <1>6, HopFacts
<1> HIDE DEF G1, H1
<1> DEFINE Same(p, q, l) ==
             p # NULL /\ p = q /\ table_index(g, l) = table_index(h, l)
<1>8. ASSUME NEW p, p = NULL \/ p \in Allocated, NEW q,
             q = NULL \/ q \in Allocated, NEW l \in Levels,
             Hop(p, g, l) # NULL, Hop(p, g, l) = Hop(q, h, l)
      PROVE  Same(p, q, l)
  <2>1. /\ p \in Allocated
        /\ q \in Allocated
        /\ Hop(p, g, l) = entrys[p][table_index(g, l)].page
        /\ Hop(q, h, l) = entrys[q][table_index(h, l)].page
    BY <1>1, <1>8, HopFacts
  <2>2. table_index(g, l) \in Index /\ table_index(h, l) \in Index
    BY <1>1, IndexInTable
  <2>3. p # NULL
    BY <2>1, ConstantsAssumption DEF Allocated
  <2>4. \A i, j \in Index :
          entrys[p][i].page # NULL /\ entrys[p][i].page = entrys[q][j].page
            => p = q /\ i = j
    BY <2>1 DEF PagesInv, OneParent
  <2>5. entrys[p][table_index(g, l)].page = entrys[q][table_index(h, l)].page
    BY <1>8, <2>1
  <2>6. p = q /\ table_index(g, l) = table_index(h, l)
    BY <1>8, <2>1, <2>2, <2>4, <2>5
  <2> QED BY <2>3, <2>6
<1> HIDE DEF Same
<1>9. Same(G1, H1, PT)
  BY <1>2, <1>4, <1>7, <1>8
<1>10. Same(G2, H2, PDT)
  BY <1>2, <1>6, <1>8, <1>9 DEF G1, H1, Same
<1>11. Same(G3, H3, PDPT)
  BY <1>2, <1>5, <1>8, <1>10 DEF G2, H2, Same
<1>12. Same(r, r, PML4T)
  BY <1>2, <1>3, <1>8, <1>11 DEF G3, H3, Same
<1>13. \A l \in Levels : table_index(g, l) = table_index(h, l)
  BY <1>9, <1>10, <1>11, <1>12 DEF Levels, PT, PDT, PDPT, PML4T, Same
<1> QED BY <1>1, <1>13, IndexesDetermineFrame

(* table_index() takes frame numbers apart without overlap, and the tables  *)
(* of a vm put different pages behind different frames.                     *)
THEOREM FramesTheorem == Spec => []FramesDistinct
BY DistinctFrames, Invariance, PTL

-----------------------------------------------------------------------------
(* The mmio frame.                                                          *)

(* The tables on the way to the entry of the mmio frame, whether the        *)
(* entries are present or not.                                              *)
Ix(level) == table_index(MmioGfn, level)
Table3(e, r) == e[r][Ix(PML4T)].page
Table2(e, r) == e[Table3(e, r)][Ix(PDPT)].page
Table1(e, r) == e[Table2(e, r)][Ix(PDT)].page
MmioTable(e, r, level) ==
  CASE level = PML4T -> r
    [] level = PDPT -> Table3(e, r)
    [] level = PDT -> Table2(e, r)
    [] level = PT -> Table1(e, r)

(* In a vm that exists the way is complete and its last entry is blocked.   *)
MmioBlocked ==
  \A m \in ready :
    /\ \A l \in Levels : MmioTable(entrys, ncr3[m], l) \in Pages
    /\ entrys[MmioTable(entrys, ncr3[m], PT)][Ix(PT)].page # NULL
    /\ ~entrys[MmioTable(entrys, ncr3[m], PT)][Ix(PT)].present

(* A thread about to store an entry has not found one of these missing.     *)
MmioNotPending ==
  \A m \in ready, t \in Threads :
    /\ walk[t].at = "alloc"
    /\ walk[t].table = MmioTable(entrys, ncr3[m], walk[t].level)
    => table_index(walk[t].gfn, walk[t].level) # Ix(walk[t].level)

(* The walk of yakvm_create_vmm() is on this way.                           *)
OnWay(t) ==
  /\ walk[t].gfn = MmioGfn
  /\ \A l \in Levels :
       walk[t].level <= l => MmioTable(entrys, ncr3[walk[t].vmm], l) \in Pages
  /\ walk[t].table = MmioTable(entrys, ncr3[walk[t].vmm], walk[t].level)
  /\ walk[t].at = "done" => walk[t].level = PT /\ WalkEntry(t).page # NULL
CreateOnWay ==
  \A t \in Threads : Inside(t) /\ walk[t].caller = "create" => OnWay(t)

MmioInv == MmioBlocked /\ MmioNotPending /\ CreateOnWay

(* Each table of the way is behind the entry of the one above.              *)
LEMMA WayDown ==
  ASSUME NEW e, NEW r
  PROVE  /\ MmioTable(e, r, PML4T) = r
         /\ MmioTable(e, r, PDPT) = e[MmioTable(e, r, PML4T)][Ix(PML4T)].page
         /\ MmioTable(e, r, PDT) = e[MmioTable(e, r, PDPT)][Ix(PDPT)].page
         /\ MmioTable(e, r, PT) = e[MmioTable(e, r, PDT)][Ix(PDT)].page
<1>1. MmioTable(e, r, PML4T) = r
  BY DEF MmioTable, PML4T, PDPT, PDT, PT
<1>2. MmioTable(e, r, PDPT) = Table3(e, r)
  BY DEF MmioTable, PML4T, PDPT, PDT, PT
<1>3. MmioTable(e, r, PDT) = Table2(e, r)
  BY DEF MmioTable, PML4T, PDPT, PDT, PT
<1>4. MmioTable(e, r, PT) = Table1(e, r)
  BY DEF MmioTable, PML4T, PDPT, PDT, PT
<1>5. /\ MmioTable(e, r, PDPT) = e[MmioTable(e, r, PML4T)][Ix(PML4T)].page
      /\ MmioTable(e, r, PDT) = e[MmioTable(e, r, PDPT)][Ix(PDPT)].page
      /\ MmioTable(e, r, PT) = e[MmioTable(e, r, PDT)][Ix(PDT)].page
  BY <1>1, <1>2, <1>3, <1>4 DEF Table3, Table2, Table1
<1> QED BY <1>1, <1>5

(* The same for the table one level below.                                  *)
LEMMA NextTable ==
  ASSUME NEW e, NEW r, NEW l \in Levels \ {PT}
  PROVE  MmioTable(e, r, l - 1) = e[MmioTable(e, r, l)][Ix(l)].page
<1>1. \/ l = PML4T /\ l - 1 = PDPT
      \/ l = PDPT /\ l - 1 = PDT
      \/ l = PDT /\ l - 1 = PT
  BY DEF Levels, PML4T, PDPT, PDT, PT
<1>2. CASE l = PML4T /\ l - 1 = PDPT
  BY <1>2, WayDown
<1>3. CASE l = PDPT /\ l - 1 = PDT
  BY <1>3, WayDown
<1>4. CASE l = PDT /\ l - 1 = PT
  BY <1>4, WayDown
<1> QED BY <1>1, <1>2, <1>3, <1>4

(* The entries of the way are within their tables.                          *)
LEMMA IxInTable == \A l \in Levels : Ix(l) \in Index
BY IndexInTable, ConstantsAssumption DEF Ix

(* Entries above a level that stay keep the way down to it.                 *)
LEMMA WayKept ==
  ASSUME NEW e, NEW f, NEW r, NEW lv \in Levels,
         \A l \in Levels :
           lv < l => f[MmioTable(e, r, l)][Ix(l)].page
                       = e[MmioTable(e, r, l)][Ix(l)].page
  PROVE  \A l \in Levels : lv <= l => MmioTable(f, r, l) = MmioTable(e, r, l)
<1>1. MmioTable(f, r, PML4T) = MmioTable(e, r, PML4T)
  BY WayDown
<1>2. lv <= PDPT => MmioTable(f, r, PDPT) = MmioTable(e, r, PDPT)
  <2> SUFFICES ASSUME lv <= PDPT
               PROVE  MmioTable(f, r, PDPT) = MmioTable(e, r, PDPT)
    OBVIOUS
  <2>1. lv < PML4T /\ PML4T \in Levels
    BY DEF Levels, PML4T, PDPT, PT
  <2> QED BY <1>1, <2>1, WayDown
<1>3. lv <= PDT => MmioTable(f, r, PDT) = MmioTable(e, r, PDT)
  <2> SUFFICES ASSUME lv <= PDT
               PROVE  MmioTable(f, r, PDT) = MmioTable(e, r, PDT)
    OBVIOUS
  <2>1. lv < PDPT /\ lv <= PDPT /\ PDPT \in Levels
    BY DEF Levels, PML4T, PDPT, PDT, PT
  <2> QED BY <1>2, <2>1, WayDown
<1>4. lv <= PT => MmioTable(f, r, PT) = MmioTable(e, r, PT)
  <2> SUFFICES ASSUME lv <= PT
               PROVE  MmioTable(f, r, PT) = MmioTable(e, r, PT)
    OBVIOUS
  <2>1. lv < PDT /\ lv <= PDT /\ PDT \in Levels
    BY DEF Levels, PML4T, PDT, PT
  <2> QED BY <1>3, <2>1, WayDown
<1> QED BY <1>1, <1>2, <1>3, <1>4 DEF Levels, PML4T, PDPT, PDT, PT

(* The way lies in the tree of the vm, each table at its level.             *)
LEMMA WayInTree ==
  ASSUME TypeOK, PagesInv, NEW m \in Vmms, ncr3[m] # NULL, NEW lv \in Levels,
         \A l \in Levels :
           lv <= l => MmioTable(entrys, ncr3[m], l) \in Pages
  PROVE  \A l \in Levels :
           lv <= l => /\ MmioTable(entrys, ncr3[m], l) \in Tree(ncr3[m])
                      /\ role[MmioTable(entrys, ncr3[m], l)] = l
<1> DEFINE M(l) == MmioTable(entrys, ncr3[m], l)
           OK(l) == M(l) \in Tree(ncr3[m]) /\ role[M(l)] = l
<1>1. OK(PML4T)
  BY WayDown, TreeFacts DEF PagesInv, RootsOK
<1>2. ASSUME NEW l \in Levels \ {PT}, OK(l), M(l - 1) \in Pages
      PROVE  OK(l - 1)
  <2>1. M(l - 1) = entrys[M(l)][Ix(l)].page /\ Ix(l) \in Index
    BY NextTable, IxInTable
  <2>2. M(l - 1) # NULL
    BY <1>2, ConstantsAssumption
  <2>3. M(l) \in Allocated
    BY <1>2, TreeFacts
  <2> HIDE DEF M
  <2>4. M(l - 1) \in Tree(ncr3[m])
    BY <1>2, <2>1, <2>2, TreeFacts
  <2>5. role[M(l - 1)] = l - 1
    BY <1>2, <2>1, <2>2, <2>3 DEF PagesInv, EntriesWellFormed
  <2> QED BY <2>4, <2>5
<1> HIDE DEF OK
<1>3. lv <= PDPT => OK(PDPT)
  <2>1. PML4T \in Levels \ {PT} /\ PML4T - 1 = PDPT /\ PDPT \in Levels
    BY DEF Levels, PML4T, PDPT, PT
  <2> QED BY <1>1, <1>2, <2>1
<1>4. lv <= PDT => OK(PDT)
  <2>1. /\ PDPT \in Levels \ {PT} /\ PDPT - 1 = PDT /\ PDT \in Levels
        /\ lv <= PDT => lv <= PDPT
    BY DEF Levels, PML4T, PDPT, PDT, PT
  <2> QED BY <1>2, <1>3, <2>1
<1>5. lv <= PT => OK(PT)
  <2>1. /\ PDT \in Levels \ {PT} /\ PDT - 1 = PT /\ PT \in Levels
        /\ lv <= PT => lv <= PDT
    BY DEF Levels, PML4T, PDT, PT
  <2> QED BY <1>2, <1>4, <2>1
<1>6. \A l \in Levels : lv <= l => OK(l)
  BY <1>1, <1>3, <1>4, <1>5 DEF Levels, PML4T, PDPT, PDT, PT
<1> QED BY <1>6 DEF OK

(* Every entry on the way of a vm that exists refers to a page.             *)
LEMMA WayEntries ==
  ASSUME MmioBlocked, NEW m \in ready, NEW l \in Levels
  PROVE  entrys[MmioTable(entrys, ncr3[m], l)][Ix(l)].page # NULL
<1>1. CASE l = PT
  BY <1>1 DEF MmioBlocked
<1>2. CASE l # PT
  <2>1. l - 1 \in Levels
    BY <1>2 DEF Levels, PT, PML4T
  <2>2. MmioTable(entrys, ncr3[m], l - 1)
          = entrys[MmioTable(entrys, ncr3[m], l)][Ix(l)].page
    BY <1>2, NextTable
  <2>3. MmioTable(entrys, ncr3[m], l - 1) \in Pages
    BY <2>1 DEF MmioBlocked
  <2> QED BY <2>2, <2>3, ConstantsAssumption
<1> QED BY <1>1, <1>2

(* A step keeps the mmio frame blocked when it leaves the way alone and     *)
(* makes no thread believe that an entry of it is missing.                  *)
LEMMA WayUntouched ==
  ASSUME MmioBlocked, MmioNotPending,
         \A m \in ready' :
           /\ m \in ready
           /\ ncr3'[m] = ncr3[m]
           /\ \A l \in Levels :
                LET p == MmioTable(entrys, ncr3[m], l)
                IN entrys'[p][Ix(l)] = entrys[p][Ix(l)],
         walk' \in [Threads -> Walk],
         \A t \in Threads :
           walk'[t].at = "alloc" =>
             \/ walk'[t] = walk[t]
             \/ entrys'[walk'[t].table]
                       [table_index(walk'[t].gfn, walk'[t].level)].page = NULL
  PROVE  MmioBlocked' /\ MmioNotPending'
<1>1. ASSUME NEW m \in ready'
      PROVE  /\ m \in ready
             /\ \A l \in Levels :
                  /\ MmioTable(entrys', ncr3'[m], l)
                       = MmioTable(entrys, ncr3[m], l)
                  /\ entrys'[MmioTable(entrys, ncr3[m], l)][Ix(l)]
                       = entrys[MmioTable(entrys, ncr3[m], l)][Ix(l)]
  <2>1. /\ m \in ready
        /\ ncr3'[m] = ncr3[m]
        /\ \A l \in Levels :
             entrys'[MmioTable(entrys, ncr3[m], l)][Ix(l)]
               = entrys[MmioTable(entrys, ncr3[m], l)][Ix(l)]
    OBVIOUS
  <2>2. PT \in Levels /\ \A l \in Levels : PT <= l
    BY DEF Levels, PT, PML4T
  <2>3. \A l \in Levels :
          PT <= l =>
            MmioTable(entrys', ncr3[m], l) = MmioTable(entrys, ncr3[m], l)
    BY <2>1, <2>2, WayKept
  <2> QED BY <2>1, <2>2, <2>3
<1>2. MmioBlocked'
  <2>1. PT \in Levels
    BY DEF Levels, PT, PML4T
  <2> QED BY <1>1, <2>1 DEF MmioBlocked
<1>3. MmioNotPending'
  <2> SUFFICES ASSUME NEW m \in ready', NEW t \in Threads,
                      walk'[t].at = "alloc",
                      walk'[t].table
                        = MmioTable(entrys', ncr3'[m], walk'[t].level)
               PROVE  table_index(walk'[t].gfn, walk'[t].level)
                        # Ix(walk'[t].level)
    BY DEF MmioNotPending
  <2>1. walk'[t].level \in Levels
    BY DEF Walk
  <2>2. /\ m \in ready
        /\ walk'[t].table = MmioTable(entrys, ncr3[m], walk'[t].level)
    BY <1>1, <2>1
  <2>3. CASE walk'[t] = walk[t]
    BY <2>2, <2>3 DEF MmioNotPending
  <2>4. CASE entrys'[walk'[t].table]
                    [table_index(walk'[t].gfn, walk'[t].level)].page = NULL
    <3>1. entrys'[walk'[t].table][Ix(walk'[t].level)].page # NULL
      BY <1>1, <2>1, <2>2, WayEntries
    <3> QED BY <2>4, <3>1
  <2> QED BY <2>3, <2>4
<1> QED BY <1>2, <1>3

(* A thread in yakvm_create_vmm() that does not move stays on its way.      *)
LEMMA CreatorUntouched ==
  ASSUME IInv, CreateOnWay, NEW t \in Threads, Inside(t),
         walk[t].caller = "create", walk'[t] = walk[t],
         LET m == walk[t].vmm
         IN /\ ncr3'[m] = ncr3[m]
            /\ \A p \in Tree(ncr3[m]), i \in Index : entrys'[p][i] = entrys[p][i]
  PROVE  OnWay(t)'
<1> DEFINE m == walk[t].vmm
<1>1. /\ m \in Vmms /\ ncr3[m] # NULL
      /\ walk[t].level \in Levels
      /\ walk[t].gfn \in Nat
  BY DEF IInv, WalksInv, CallsOK, TypeOK, Walk
<1>2. OnWay(t)
  BY DEF CreateOnWay
<1>3. \A l \in Levels :
        walk[t].level <= l => MmioTable(entrys, ncr3[m], l) \in Tree(ncr3[m])
  BY <1>1, <1>2, WayInTree DEF IInv, OnWay
<1>4. \A l \in Levels :
        walk[t].level <= l =>
          entrys'[MmioTable(entrys, ncr3[m], l)][Ix(l)]
            = entrys[MmioTable(entrys, ncr3[m], l)][Ix(l)]
  BY <1>3, IxInTable
<1>5. \A l \in Levels :
        walk[t].level < l =>
          entrys'[MmioTable(entrys, ncr3[m], l)][Ix(l)].page
            = entrys[MmioTable(entrys, ncr3[m], l)][Ix(l)].page
  BY <1>1, <1>4 DEF Levels, PT, PML4T
<1>6. \A l \in Levels :
        walk[t].level <= l =>
          MmioTable(entrys', ncr3[m], l) = MmioTable(entrys, ncr3[m], l)
  BY <1>1, <1>5, WayKept
<1>7. walk[t].level <= walk[t].level
  BY <1>1 DEF Levels, PT, PML4T
<1>8. WalkEntry(t)' = WalkEntry(t)
  <2>1. walk[t].table \in Tree(ncr3[m])
    BY <1>1, <1>2, <1>3, <1>7 DEF OnWay
  <2> QED BY <1>1, <2>1, IndexInTable DEF WalkEntry
<1> QED BY <1>1, <1>2, <1>6, <1>7, <1>8 DEF OnWay

(* Steps that leave all tables alone.                                       *)
LEMMA TablesUntouched ==
  ASSUME IInv, MmioInv, UNCHANGED <<entrys, ncr3, ready>>,
         walk' \in [Threads -> Walk],
         \A t \in Threads :
           \/ walk'[t] = walk[t]
           \/ /\ walk'[t].at = "alloc" =>
                   entrys[walk'[t].table]
                         [table_index(walk'[t].gfn, walk'[t].level)].page = NULL
              /\ Inside(t)' /\ walk'[t].caller = "create" => OnWay(t)'
  PROVE  MmioInv'
<1>1. MmioBlocked' /\ MmioNotPending'
  BY WayUntouched DEF MmioInv
<1>2. ASSUME NEW t \in Threads, Inside(t)', walk'[t].caller = "create"
      PROVE  OnWay(t)'
  <2>1. CASE walk'[t] = walk[t]
    BY <1>2, <2>1, CreatorUntouched DEF MmioInv, Inside
  <2> QED BY <1>2, <2>1
<1> QED BY <1>1, <1>2 DEF MmioInv, CreateOnWay

(* An entry that is found missing is not on the way of a vm that exists.    *)
LEMMA MmioMissing ==
  ASSUME IInv, MmioInv, NEW t \in Threads, npt_missing(t)
  PROVE  MmioInv'
<1> DEFINE w == [walk[t] EXCEPT !.at = "alloc"]
<1>1. /\ Inside(t) /\ WalkEntry(t) = NoEntry
      /\ walk' = [walk EXCEPT ![t] = w]
      /\ UNCHANGED <<entrys, ncr3, ready>>
  BY DEF npt_missing, At, Inside, pageVars, vmVars
<1>2. w \in Walk
  BY DEF IInv, TypeOK, Walk
<1>3. /\ walk' \in [Threads -> Walk]
      /\ walk'[t] = w
      /\ \A u \in Threads \ {t} : walk'[u] = walk[u]
  BY <1>1, <1>2 DEF IInv, TypeOK
<1>4. /\ w.at = "alloc" /\ w.vmm = walk[t].vmm /\ w.caller = walk[t].caller
      /\ w.gfn = walk[t].gfn /\ w.table = walk[t].table
      /\ w.level = walk[t].level
  BY DEF IInv, TypeOK, Walk
<1> HIDE DEF w
<1>5. entrys[w.table][table_index(w.gfn, w.level)].page = NULL
  BY <1>1, <1>4 DEF WalkEntry, NoEntry
<1>6. walk[t].caller = "create" => OnWay(t)'
  BY <1>1, <1>3, <1>4 DEF MmioInv, CreateOnWay, OnWay
<1> QED BY <1>1, <1>3, <1>4, <1>5, <1>6, TablesUntouched

(* The walk of yakvm_create_vmm() goes down its way.                        *)
LEMMA MmioFollow ==
  ASSUME IInv, MmioInv, NEW t \in Threads, npt_follow(t)
  PROVE  MmioInv'
<1> DEFINE q == WalkEntry(t).page
           m == walk[t].vmm
           L == walk[t].level
<1>1. /\ Inside(t) /\ WalkEntry(t) # NoEntry
      /\ Descend(t, q)
      /\ UNCHANGED <<entrys, ncr3, ready>>
  BY DEF npt_follow, At, Inside, pageVars, vmVars
<1>2. q \in Pages /\ L \in Levels /\ walk[t].gfn \in Nat /\ TypeOK
  BY <1>1, EntryLeads DEF IInv, TypeOK, Walk
<1>3. /\ walk' \in [Threads -> Walk]
      /\ \A u \in Threads \ {t} : walk'[u] = walk[u]
      /\ walk'[t].vmm = m
      /\ walk'[t].caller = walk[t].caller
      /\ walk'[t].gfn = walk[t].gfn
      /\ L = PT =>
           /\ walk'[t].at = "done"
           /\ walk'[t].table = walk[t].table
           /\ walk'[t].level = PT
      /\ L # PT =>
           /\ walk'[t].at = "read"
           /\ walk'[t].table = q
           /\ walk'[t].level = L - 1
  BY <1>1, <1>2, DescendFacts
<1>4. ASSUME walk[t].caller = "create"
      PROVE  OnWay(t)'
  <2>1. OnWay(t)
    BY <1>1, <1>4 DEF MmioInv, CreateOnWay
  <2>2. CASE L = PT
    <3>1. WalkEntry(t)'.page # NULL
      BY <1>1, <1>2, <1>3, <2>2, ConstantsAssumption DEF WalkEntry
    <3> QED BY <1>1, <1>3, <2>1, <2>2, <3>1 DEF OnWay
  <2>3. CASE L # PT
    <3>1. q = MmioTable(entrys, ncr3[m], L - 1)
      <4>1. q = entrys[MmioTable(entrys, ncr3[m], L)][Ix(L)].page
        BY <2>1 DEF OnWay, WalkEntry, Ix
      <4>2. L \in Levels \ {PT}
        BY <1>2, <2>3
      <4>3. MmioTable(entrys, ncr3[m], L - 1)
              = entrys[MmioTable(entrys, ncr3[m], L)][Ix(L)].page
        BY <4>2, NextTable
      <4> QED BY <4>1, <4>3
    <3>2. \A l \in Levels : L - 1 <= l => l = L - 1 \/ L <= l
      BY <1>2 DEF Levels, PT, PML4T
    <3>3. \A l \in Levels : L - 1 <= l => MmioTable(entrys, ncr3[m], l) \in Pages
      BY <1>2, <2>1, <3>1, <3>2 DEF OnWay
    <3> HIDE DEF q
    <3> QED BY <1>1, <1>3, <2>1, <2>3, <3>1, <3>3 DEF OnWay
  <2> QED BY <2>2, <2>3
<1>5. walk'[t].at # "alloc"
  BY <1>3
<1> QED BY <1>1, <1>3, <1>4, <1>5, TablesUntouched

(* A call that begins or ends, or a user mapping that changes.              *)
LEMMA MmioOther ==
  ASSUME IInv, MmioInv, UNCHANGED <<entrys, ncr3, ready>>,
         walk' \in [Threads -> Walk],
         \A t \in Threads :
           \/ walk'[t] = walk[t]
           \/ ~Inside(t)'
           \/ walk'[t].at # "alloc" /\ walk'[t].caller # "create"
  PROVE  MmioInv'
<1>1. \A t \in Threads :
        \/ walk'[t] = walk[t]
        \/ /\ walk'[t].at # "alloc"
           /\ ~(Inside(t)' /\ walk'[t].caller = "create")
  BY DEF Inside
<1> QED BY <1>1, TablesUntouched

(* A new vm has a PML4 table and its creator stands on it.                  *)
LEMMA MmioCreate ==
  ASSUME IInv, MmioInv, NEW t \in Threads, NEW m \in Vmms,
         yakvm_create_vmm(t, m), IInv'
  PROVE  MmioInv'
<1>1. PICK p \in Pages :
        /\ alloc_page(p, PML4T)
        /\ entrys' = [entrys EXCEPT ![p] = EmptyTable]
        /\ ncr3' = [ncr3 EXCEPT ![m] = p]
        /\ Begin(t, m, MmioGfn, "create", p)
  BY DEF yakvm_create_vmm
<1>2. /\ p \in Pick(Pages \ Allocated)
      /\ ncr3[m] = NULL
      /\ ready' = ready
  BY <1>1 DEF alloc_page, yakvm_create_vmm
<1>3. entrys[p] = EmptyTable
  BY <1>2, FreshPage
<1>4. entrys' = entrys
  BY <1>1, <1>3 DEF IInv, TypeOK
<1>5. ncr3'[m] = p /\ \A n \in Vmms \ {m} : ncr3'[n] = ncr3[n]
  BY <1>1 DEF IInv, TypeOK
<1> DEFINE w == [at |-> "read", caller |-> "create", vmm |-> m, gfn |-> MmioGfn,
                 level |-> PML4T, table |-> p, page |-> NULL]
<1>6. walk' = [walk EXCEPT ![t] = w] /\ walk' \in [Threads -> Walk]
  BY <1>1 DEF Begin, IInv, TypeOK
<1>7. walk'[t] = w /\ \A u \in Threads \ {t} : walk'[u] = walk[u]
  BY <1>6 DEF IInv, TypeOK
<1> HIDE DEF w
<1>8. w.at = "read" /\ w.caller = "create" /\ w.vmm = m /\ w.gfn = MmioGfn
      /\ w.level = PML4T /\ w.table = p
  BY DEF w
<1>9. \A n \in ready : n \in Vmms \ {m}
  BY <1>2 DEF IInv, TypeOK, PagesInv, RootsOK
<1>10. MmioBlocked' /\ MmioNotPending'
  BY <1>2, <1>4, <1>5, <1>6, <1>7, <1>8, <1>9, WayUntouched DEF MmioInv
<1>11. OnWay(t)'
  <2>1. \A l \in Levels : PML4T <= l => l = PML4T
    BY DEF Levels, PT, PML4T
  <2>2. MmioTable(entrys', p, PML4T) = p
    BY WayDown
  <2> QED BY <1>5, <1>7, <1>8, <2>1, <2>2 DEF OnWay
<1>12. ASSUME NEW u \in Threads \ {t}, Inside(u)', walk'[u].caller = "create"
       PROVE  OnWay(u)'
  <2>1. Inside(u) /\ walk[u].caller = "create" /\ walk'[u] = walk[u]
    BY <1>7, <1>12 DEF Inside
  <2>2. ncr3'[walk[u].vmm] = ncr3[walk[u].vmm]
    BY <1>2, <1>5, <2>1 DEF IInv, WalksInv, CallsOK
  <2> QED BY <1>4, <2>1, <2>2, CreatorUntouched DEF MmioInv
<1> QED BY <1>10, <1>11, <1>12 DEF MmioInv, CreateOnWay

(* The store of an entry is never on the way of a vm that exists; the store *)
(* of yakvm_create_vmm() makes the next table of the way.                   *)
LEMMA MmioAlloc ==
  ASSUME IInv, MmioInv, NEW t \in Threads, npt_alloc(t)
  PROVE  MmioInv'
<1> DEFINE T == walk[t].table
           k == table_index(walk[t].gfn, walk[t].level)
           L == walk[t].level
           M(n, l) == MmioTable(entrys, ncr3[n], l)
<1>1. /\ UNCHANGED <<ncr3, ready>>
      /\ Inside(t) /\ walk[t].at = "alloc" /\ L \in Levels
      /\ T \in Pages /\ role[T] = L /\ k \in Index
  BY AllocFacts
<1>2. PICK p \in Pages :
        /\ Descend(t, p)
        /\ \A q \in Pages \ {T} : entrys'[q] = entrys[q]
        /\ \A i \in Index \ {k} : entrys'[T][i] = entrys[T][i]
        /\ entrys'[T][k] = [page |-> p, present |-> TRUE]
  BY AllocFacts
<1>3. /\ walk' \in [Threads -> Walk]
      /\ \A u \in Threads \ {t} : walk'[u] = walk[u]
      /\ walk'[t].vmm = walk[t].vmm
      /\ walk'[t].gfn = walk[t].gfn
      /\ L = PT =>
           walk'[t].at = "done" /\ walk'[t].table = T /\ walk'[t].level = PT
      /\ L # PT =>
           walk'[t].at = "read" /\ walk'[t].table = p /\ walk'[t].level = L - 1
      /\ walk'[t].caller = walk[t].caller
  BY <1>2, DescendFacts DEF IInv
<1>4. ASSUME NEW n \in ready, NEW l \in Levels
      PROVE  entrys'[M(n, l)][Ix(l)] = entrys[M(n, l)][Ix(l)]
  <2>1. n \in Vmms /\ ncr3[n] # NULL
    BY DEF IInv, TypeOK, PagesInv, RootsOK
  <2>2. PT \in Levels /\ PT <= l /\ \A j \in Levels : M(n, j) \in Pages
    BY DEF Levels, PT, PML4T, MmioInv, MmioBlocked
  <2>3. M(n, l) \in Pages /\ role[M(n, l)] = l
    BY <2>1, <2>2, WayInTree DEF IInv
  <2>4. Ix(l) \in Index
    BY IxInTable
  <2>5. CASE M(n, l) = T
    <3>1. l = L
      BY <1>1, <2>3, <2>5
    <3>2. k # Ix(L)
      BY <1>1, <2>5, <3>1 DEF MmioInv, MmioNotPending
    <3> QED BY <1>2, <2>4, <2>5, <3>1, <3>2
  <2>6. CASE M(n, l) # T
    BY <1>2, <2>3, <2>6
  <2> QED BY <2>5, <2>6
<1>5. MmioBlocked' /\ MmioNotPending'
  <2>1. \A u \in Threads : walk'[u].at = "alloc" => walk'[u] = walk[u]
    BY <1>3
  <2> QED BY <1>1, <1>3, <1>4, <2>1, WayUntouched DEF MmioInv
<1>6. ASSUME walk[t].caller = "create"
      PROVE  OnWay(t)'
  <2> DEFINE m == walk[t].vmm
             r == ncr3[m]
  <2>1. OnWay(t) /\ m \in Vmms /\ r # NULL
    BY <1>1, <1>6 DEF MmioInv, CreateOnWay, IInv, WalksInv, CallsOK
  <2>2. T = M(m, L) /\ k = Ix(L)
    BY <2>1 DEF OnWay, Ix
  <2>3. \A l \in Levels : L <= l => M(m, l) \in Pages
    BY <2>1 DEF OnWay
  <2>4. \A l \in Levels : L <= l => role[M(m, l)] = l
    BY <1>1, <2>1, <2>3, WayInTree DEF IInv
  <2>5. ASSUME NEW l \in Levels, L < l
        PROVE  entrys'[M(m, l)][Ix(l)].page = entrys[M(m, l)][Ix(l)].page
    <3>1. L <= l /\ L # l
      BY <1>1, <2>5 DEF Levels, PT, PML4T
    <3>2. M(m, l) # T /\ M(m, l) \in Pages
      BY <1>1, <2>3, <2>4, <3>1
    <3> QED BY <1>2, <3>2
  <2>6. \A l \in Levels : L <= l => MmioTable(entrys', r, l) = M(m, l)
    BY <1>1, <2>5, WayKept
  <2>7. L <= L
    BY <1>1 DEF Levels, PT, PML4T
  <2>8. MmioTable(entrys', r, L) = T
    BY <1>1, <2>2, <2>6, <2>7
  <2>9. CASE L = PT
    <3>1. WalkEntry(t)' = entrys'[T][k]
      BY <1>3, <2>9 DEF WalkEntry
    <3>2. WalkEntry(t)'.page # NULL
      BY <1>2, <3>1, ConstantsAssumption
    <3> QED BY <1>1, <1>3, <2>1, <2>3, <2>6, <2>8, <2>9, <3>2 DEF OnWay
  <2>10. CASE L # PT
    <3>1. /\ L \in Levels \ {PT}
          /\ \A l \in Levels : L - 1 <= l => l = L - 1 \/ L <= l
      BY <1>1, <2>10 DEF Levels, PT, PML4T
    <3>2. MmioTable(entrys', r, L - 1)
            = entrys'[MmioTable(entrys', r, L)][Ix(L)].page
      BY <3>1, NextTable
    <3>3. MmioTable(entrys', r, L - 1) = p
      BY <1>2, <2>2, <2>8, <3>2
    <3>4. \A l \in Levels : L - 1 <= l => MmioTable(entrys', r, l) \in Pages
      BY <2>3, <2>6, <3>1, <3>3
    <3> QED BY <1>1, <1>3, <2>1, <2>10, <3>3, <3>4 DEF OnWay
  <2> QED BY <2>9, <2>10
<1>7. ASSUME NEW u \in Threads \ {t}, Inside(u)', walk'[u].caller = "create"
      PROVE  OnWay(u)'
  <2> DEFINE n == walk[u].vmm
  <2>1. Inside(u) /\ walk[u].caller = "create" /\ walk'[u] = walk[u]
    BY <1>3, <1>7 DEF Inside
  <2>2. n \in Vmms /\ ncr3[n] # NULL /\ walk[t].vmm # n
    BY <1>1, <2>1 DEF IInv, WalksInv, CallsOK
  <2>3. T \notin Tree(ncr3[n]) /\ Tree(ncr3[n]) \subseteq Pages
    BY <1>1, <2>2, TreeFacts DEF IInv, WalksInv, WalkersIsolated, Allocated
  <2>4. \A q \in Tree(ncr3[n]), i \in Index : entrys'[q][i] = entrys[q][i]
    BY <1>2, <2>3
  <2> QED BY <1>1, <2>1, <2>4, CreatorUntouched DEF MmioInv
<1> QED BY <1>3, <1>5, <1>6, <1>7 DEF MmioInv, CreateOnWay, Inside

(* A vm that goes takes no entry of another along.                          *)
LEMMA MmioFreed ==
  ASSUME IInv, MmioInv, NEW m \in Vmms, ncr3[m] # NULL,
         NEW S \in SUBSET Tree(ncr3[m]), free_pages(S),
         ncr3' = [ncr3 EXCEPT ![m] = NULL],
         ready' = ready \ {m},
         walk' \in [Threads -> Walk],
         \A u \in Threads :
           Inside(u)' => Inside(u) /\ walk'[u] = walk[u] /\ walk[u].vmm # m
  PROVE  MmioInv'
<1>1. \A n \in Vmms \ {m} : ncr3'[n] = ncr3[n]
  BY DEF IInv, TypeOK
<1>2. ASSUME NEW p \in Pages \ Tree(ncr3[m])
      PROVE  entrys'[p] = entrys[p]
  <2>1. refs'[p] = refs[p]
    BY DEF free_pages
  <2> QED BY <2>1 DEF free_pages, IInv, PagesInv, FreePagesClean
<1>3. ASSUME NEW n \in Vmms \ {m}, ncr3[n] # NULL
      PROVE  \A p \in Tree(ncr3[n]), i \in Index : entrys'[p][i] = entrys[p][i]
  <2>1. Tree(ncr3[n]) \cap Tree(ncr3[m]) = {} /\ Tree(ncr3[n]) \subseteq Pages
    BY <1>3, TreeFacts DEF IInv, PagesInv, GuestsIsolated, Allocated
  <2> QED BY <1>2, <2>1
<1>4. ASSUME NEW n \in ready'
      PROVE  /\ n \in ready
             /\ ncr3'[n] = ncr3[n]
             /\ \A l \in Levels :
                  LET p == MmioTable(entrys, ncr3[n], l)
                  IN entrys'[p][Ix(l)] = entrys[p][Ix(l)]
  <2>1. n \in ready /\ n \in Vmms \ {m} /\ ncr3[n] # NULL
    BY <1>4 DEF IInv, TypeOK, PagesInv, RootsOK
  <2>2. PT \in Levels /\ \A l \in Levels :
                           PT <= l /\ MmioTable(entrys, ncr3[n], l) \in Pages
    BY <2>1 DEF Levels, PT, PML4T, MmioInv, MmioBlocked
  <2>3. \A l \in Levels : MmioTable(entrys, ncr3[n], l) \in Tree(ncr3[n])
    BY <2>1, <2>2, WayInTree DEF IInv
  <2> QED BY <1>1, <1>3, <2>1, <2>3, IxInTable
<1>5. MmioBlocked' /\ MmioNotPending'
  <2>1. \A u \in Threads : walk'[u].at = "alloc" => walk'[u] = walk[u]
    BY DEF Inside
  <2> QED BY <1>4, <2>1, WayUntouched DEF MmioInv
<1>6. ASSUME NEW u \in Threads, Inside(u)', walk'[u].caller = "create"
      PROVE  OnWay(u)'
  <2>1. Inside(u) /\ walk'[u] = walk[u] /\ walk[u].vmm \in Vmms \ {m}
        /\ ncr3[walk[u].vmm] # NULL /\ walk[u].caller = "create"
    BY <1>6 DEF IInv, WalksInv, CallsOK
  <2> QED BY <1>1, <1>3, <2>1, CreatorUntouched DEF MmioInv
<1> QED BY <1>5, <1>6 DEF MmioInv, CreateOnWay

(* The failed creation of a vm.                                             *)
LEMMA MmioCreateFail ==
  ASSUME IInv, MmioInv, NEW t \in Threads, create_vmm_fail(t)
  PROVE  MmioInv'
<1> DEFINE m == walk[t].vmm
           S == {ncr3[m]}
<1>1. Inside(t) /\ walk[t].caller = "create"
  BY DEF create_vmm_fail, At, Inside
<1>2. /\ m \in Vmms /\ ncr3[m] # NULL /\ m \notin ready
      /\ \A u \in Threads \ {t} : Inside(u) => walk[u].vmm # m
  BY <1>1 DEF IInv, WalksInv, CallsOK
<1>3. S \in SUBSET Tree(ncr3[m])
  BY <1>2, TreeFacts DEF IInv
<1>4. /\ free_pages(S)
      /\ ncr3' = [ncr3 EXCEPT ![m] = NULL]
      /\ Return(t)
      /\ ready' = ready \ {m}
  BY <1>2 DEF create_vmm_fail
<1>5. /\ walk' \in [Threads -> Walk]
      /\ walk'[t].at = "idle"
      /\ \A u \in Threads \ {t} : walk'[u] = walk[u]
  BY <1>4 DEF IInv, TypeOK, Return, Idle, Walk, Callers, Levels, PT, PML4T
<1>6. \A u \in Threads :
        Inside(u)' => Inside(u) /\ walk'[u] = walk[u] /\ walk[u].vmm # m
  BY <1>2, <1>5 DEF Inside
<1> HIDE DEF m, S
<1> QED BY <1>2, <1>3, <1>4, <1>5, <1>6, MmioFreed

(* The end of a vm.                                                         *)
LEMMA MmioDestroy ==
  ASSUME IInv, MmioInv, NEW m \in Vmms, yakvm_destroy_vmm(m)
  PROVE  MmioInv'
<1> DEFINE S == Tree(ncr3[m])
<1>1. /\ m \in ready
      /\ free_pages(S)
      /\ ncr3' = [ncr3 EXCEPT ![m] = NULL]
      /\ ready' = ready \ {m}
      /\ walk' = walk
  BY DEF yakvm_destroy_vmm
<1>2. ncr3[m] # NULL
  BY <1>1 DEF IInv, PagesInv, RootsOK
<1>3. \A u \in Threads :
        Inside(u)' => Inside(u) /\ walk'[u] = walk[u] /\ walk[u].vmm # m
  BY <1>1 DEF yakvm_destroy_vmm, Walking, Inside
<1>4. walk' \in [Threads -> Walk] /\ S \in SUBSET Tree(ncr3[m])
  BY <1>1 DEF IInv, TypeOK
<1> HIDE DEF S
<1> QED BY <1>1, <1>2, <1>3, <1>4, MmioFreed

(* The end of yakvm_create_vmm() blocks the last entry of the way of the    *)
(* new vm; nobody else has been in its tables.                              *)
LEMMA MmioCreateDone ==
  ASSUME IInv, MmioInv, NEW t \in Threads, create_vmm_done(t)
  PROVE  MmioInv'
<1> DEFINE T == walk[t].table
           k == table_index(walk[t].gfn, walk[t].level)
           m == walk[t].vmm
           M(n, l) == MmioTable(entrys, ncr3[n], l)
<1>1. /\ Inside(t) /\ walk[t].caller = "create" /\ walk[t].at = "done"
      /\ entrys' = [entrys EXCEPT ![T][k].present = FALSE]
      /\ ready' = ready \union {m}
      /\ Return(t)
      /\ ncr3' = ncr3
  BY DEF create_vmm_done, At, Inside
<1>2. /\ m \in Vmms /\ ncr3[m] # NULL
      /\ \A u \in Threads \ {t} : Inside(u) => walk[u].vmm # m
  BY <1>1 DEF IInv, WalksInv, CallsOK
<1>3. T \in Pages /\ k \in Index
  BY <1>1, IndexInTable
  DEF IInv, TypeOK, Walk, WalksInv, WalkersSafe, Inside, Allocated
<1>4. /\ walk' \in [Threads -> Walk]
      /\ walk'[t].at = "idle"
      /\ \A u \in Threads \ {t} : walk'[u] = walk[u]
  BY <1>1 DEF IInv, TypeOK, Return, Idle, Walk, Callers, Levels, PT, PML4T
<1>5. PT \in Levels /\ \A l \in Levels : PT <= l
  BY DEF Levels, PT, PML4T
<1>6. /\ T = M(m, PT) /\ k = Ix(PT)
      /\ \A l \in Levels : M(m, l) \in Pages
      /\ entrys[T][k].page # NULL
  BY <1>1, <1>5 DEF MmioInv, CreateOnWay, OnWay, WalkEntry, Ix
<1> HIDE DEF k
<1>7. /\ \A p \in Pages \ {T} : entrys'[p] = entrys[p]
      /\ \A p \in Pages, i \in Index : entrys'[p][i].page = entrys[p][i].page
      /\ ~entrys'[T][k].present
  <2> DEFINE e == [entrys[T][k] EXCEPT !.present = FALSE]
  <2>1. e.page = entrys[T][k].page /\ e.present = FALSE
    <3>1. entrys[T][k] \in Entry
      BY <1>3 DEF IInv, TypeOK
    <3> QED BY <3>1 DEF Entry
  <2>2. entrys' = [entrys EXCEPT ![T][k] = e]
    BY <1>1
  <2> HIDE DEF e
  <2> QED BY <1>3, <2>1, <2>2 DEF IInv, TypeOK
<1>8. ASSUME NEW n \in ready'
      PROVE  /\ n \in Vmms /\ ncr3[n] # NULL
             /\ n # m => n \in ready
             /\ \A l \in Levels : M(n, l) \in Pages /\ M(n, l) \in Tree(ncr3[n])
             /\ \A l \in Levels : MmioTable(entrys', ncr3[n], l) = M(n, l)
  <2>1. n \in Vmms /\ ncr3[n] # NULL /\ (n # m => n \in ready)
    BY <1>1, <1>2, <1>8 DEF IInv, TypeOK, PagesInv, RootsOK
  <2>2. \A l \in Levels : M(n, l) \in Pages
    BY <1>6, <2>1 DEF MmioInv, MmioBlocked
  <2>3. \A l \in Levels : M(n, l) \in Tree(ncr3[n])
    BY <1>5, <2>1, <2>2, WayInTree DEF IInv
  <2>4. \A l \in Levels : PT < l =>
          entrys'[M(n, l)][Ix(l)].page = entrys[M(n, l)][Ix(l)].page
    BY <1>7, <2>2, IxInTable
  <2>5. \A l \in Levels : MmioTable(entrys', ncr3[n], l) = M(n, l)
    BY <1>5, <2>4, WayKept
  <2> QED BY <2>1, <2>2, <2>3, <2>5
<1>9. \A n \in Vmms \ {m} : ncr3[n] # NULL => T \notin Tree(ncr3[n])
  BY <1>1 DEF IInv, WalksInv, WalkersIsolated
<1>10. MmioBlocked'
  <2> SUFFICES ASSUME NEW n \in ready'
               PROVE  /\ entrys'[M(n, PT)][Ix(PT)].page # NULL
                      /\ ~entrys'[M(n, PT)][Ix(PT)].present
    BY <1>1, <1>5, <1>8 DEF MmioBlocked
  <2>1. CASE n = m
    BY <1>3, <1>6, <1>7, <2>1
  <2>2. CASE n # m
    <3>1. M(n, PT) # T /\ M(n, PT) \in Pages
      BY <1>5, <1>8, <1>9, <2>2
    <3> QED BY <1>7, <1>8, <2>2, <3>1 DEF MmioInv, MmioBlocked
  <2> QED BY <2>1, <2>2
<1>11. MmioNotPending'
  <2> SUFFICES ASSUME NEW n \in ready', NEW u \in Threads, walk'[u].at = "alloc",
                      walk'[u].table
                        = MmioTable(entrys', ncr3[n], walk'[u].level)
               PROVE  table_index(walk'[u].gfn, walk'[u].level)
                        # Ix(walk'[u].level)
    BY <1>1 DEF MmioNotPending
  <2>1. u # t /\ walk'[u] = walk[u] /\ Inside(u) /\ walk[u].level \in Levels
    BY <1>4 DEF Inside, IInv, TypeOK, Walk
  <2>2. walk[u].table = M(n, walk[u].level)
    BY <1>8, <2>1
  <2>3. n # m
    <3> SUFFICES ASSUME n = m PROVE FALSE
      OBVIOUS
    <3>1. walk[u].table \notin Tree(ncr3[m])
      BY <1>2, <2>1 DEF IInv, WalksInv, WalkersIsolated
    <3> QED BY <1>8, <2>1, <2>2, <3>1
  <2> QED BY <1>8, <2>1, <2>2, <2>3 DEF MmioInv, MmioNotPending
<1>12. ASSUME NEW u \in Threads, Inside(u)', walk'[u].caller = "create"
       PROVE  OnWay(u)'
  <2> DEFINE n == walk[u].vmm
  <2>1. u # t /\ Inside(u) /\ walk[u].caller = "create" /\ walk'[u] = walk[u]
    BY <1>4, <1>12 DEF Inside
  <2>2. n \in Vmms \ {m} /\ ncr3[n] # NULL
    BY <1>2, <2>1 DEF IInv, WalksInv, CallsOK
  <2>3. T \notin Tree(ncr3[n]) /\ Tree(ncr3[n]) \subseteq Pages
    BY <1>9, <2>2, TreeFacts DEF IInv, Allocated
  <2>4. \A q \in Tree(ncr3[n]), i \in Index : entrys'[q][i] = entrys[q][i]
    BY <1>7, <2>3
  <2> QED BY <1>1, <2>1, <2>4, CreatorUntouched DEF MmioInv
<1> QED BY <1>10, <1>11, <1>12 DEF MmioInv, CreateOnWay

(* Every step keeps the way of the mmio frame.                              *)
LEMMA NextMmio == IInv /\ MmioInv /\ IInv' /\ [Next]_vars => MmioInv'
<1> SUFFICES ASSUME IInv, MmioInv, IInv', [Next]_vars PROVE MmioInv'
  OBVIOUS
<1>1. walk' \in [Threads -> Walk] /\ walk \in [Threads -> Walk]
  BY DEF IInv, TypeOK
<1>2. CASE UNCHANGED vars
  BY <1>1, <1>2, MmioOther DEF vars
<1>3. ASSUME NEW t \in Threads, NEW m, NEW g, NEW c \in {"ioctl", "fault"},
             NEW r, Begin(t, m, g, c, r),
             UNCHANGED <<pageVars, vmVars, userVars, panicked>>
      PROVE  MmioInv'
  <2>1. /\ walk'[t].at = "read" /\ walk'[t].caller = c
        /\ \A u \in Threads \ {t} : walk'[u] = walk[u]
    BY <1>1, <1>3 DEF Begin
  <2>2. UNCHANGED <<entrys, ncr3, ready>>
    BY <1>3 DEF pageVars, vmVars
  <2> QED BY <1>1, <2>1, <2>2, MmioOther
<1>4. ASSUME NEW t \in Threads, Return(t), UNCHANGED <<entrys, ncr3, ready>>
      PROVE  MmioInv'
  <2>1. ~Inside(t)' /\ \A u \in Threads \ {t} : walk'[u] = walk[u]
    BY <1>1, <1>4 DEF Return, Idle, Inside
  <2> QED BY <1>1, <1>4, <2>1, MmioOther
<1>5. ASSUME NEW t \in Threads, Enter(t)
      PROVE  MmioInv'
  <2>1. ASSUME NEW m \in Vmms, NEW g \in Gfns, yakvm_vm_ioctl_mmap_page(t, m, g)
        PROVE  MmioInv'
    BY <1>3, <2>1 DEF yakvm_vm_ioctl_mmap_page
  <2>2. ASSUME NEW m \in Vmms, NEW u \in Gfns, yakvm_vm_vmm_fault(t, m, u)
        PROVE  MmioInv'
    BY <1>3, <2>2 DEF yakvm_vm_vmm_fault
  <2> QED BY <1>5, <2>1, <2>2, MmioCreate DEF Enter
<1>6. ASSUME NEW t \in Threads, WalkStep(t)
      PROVE  MmioInv'
  <2>1. CASE npt_missing(t)
    BY <2>1, MmioMissing
  <2>2. CASE npt_follow(t)
    BY <2>2, MmioFollow
  <2>3. CASE npt_assert(t)
    BY <1>1, <2>3, MmioOther DEF npt_assert, pageVars, vmVars
  <2>4. CASE npt_alloc(t)
    BY <2>4, MmioAlloc
  <2>5. CASE npt_alloc_fail(t) \/ mmap_page_done(t) \/ fault_done_late(t)
    BY <1>4, <2>5
    DEF npt_alloc_fail, mmap_page_done, fault_done_late, pageVars, vmVars
  <2>6. CASE create_vmm_fail(t)
    BY <2>6, MmioCreateFail
  <2>7. CASE create_vmm_done(t)
    BY <2>7, MmioCreateDone
  <2>8. CASE fault_done(t)
    BY <1>4, <2>8 DEF fault_done, vmVars
  <2> QED BY <1>6, <2>1, <2>2, <2>3, <2>4, <2>5, <2>6, <2>7, <2>8 DEF WalkStep
<1>7. ASSUME NEW m \in Vmms, NEW g \in Gfns, zap_pte(m, g)
      PROVE  MmioInv'
  <2>1. entrys' = entrys /\ UNCHANGED <<ncr3, ready, walk>>
    BY <1>7, ZapFacts DEF zap_pte, vmVars
  <2> QED BY <1>1, <2>1, MmioOther
<1>8. ASSUME NEW m \in Vmms, NEW off \in Offsets, yakvm_vm_mmap(m, off)
      PROVE  MmioInv'
  BY <1>1, <1>8, MmioOther DEF yakvm_vm_mmap, pageVars, vmVars
<1>9. ASSUME NEW m \in Vmms, yakvm_destroy_vmm(m)
      PROVE  MmioInv'
  BY <1>9, MmioDestroy
<1> QED BY <1>2, <1>5, <1>6, <1>7, <1>8, <1>9 DEF Next, Halted

(* Where the last entry of the way is blocked, the processor's walk ends in *)
(* a fault, if it has not done so before.                                   *)
LEMMA BlockedTraps == IInv /\ MmioInv => MmioTraps
<1> SUFFICES ASSUME IInv, MmioInv, NEW m \in ready
             PROVE  Translate(m, MmioGfn) = NULL
  BY DEF MmioTraps
<1> DEFINE M(l) == MmioTable(entrys, ncr3[m], l)
           T3 == Hop(ncr3[m], MmioGfn, PML4T)
           T2 == Hop(T3, MmioGfn, PDPT)
           T1 == Hop(T2, MmioGfn, PDT)
<1>1. \A p, l : Hop(p, MmioGfn, l) \in {NULL, entrys[p][Ix(l)].page}
  BY DEF Hop, Ix
<1>2. \A l : Hop(NULL, MmioGfn, l) = NULL
  BY DEF Hop
<1>3. T3 \in {NULL, M(PDPT)}
  BY <1>1, WayDown
<1> HIDE DEF T3
<1>4. T2 \in {NULL, M(PDT)}
  BY <1>1, <1>2, <1>3, WayDown
<1> HIDE DEF T2
<1>5. T1 \in {NULL, M(PT)}
  BY <1>1, <1>2, <1>4, WayDown
<1> HIDE DEF T1
<1>6. Hop(M(PT), MmioGfn, PT) = NULL
  BY DEF MmioInv, MmioBlocked, Hop, Ix
<1>7. Hop(T1, MmioGfn, PT) = NULL
  BY <1>2, <1>5, <1>6
<1> QED BY <1>7 DEF Translate, T1, T2, T3

(* However many threads walk at once, no store ever lands on the entries    *)
(* that lead to the mmio frame, and a guest that exists traps there.        *)
THEOREM MmioTheorem == Spec => []MmioTraps
<1>1. Init => MmioInv
  BY DEF Init, MmioInv, MmioBlocked, MmioNotPending, CreateOnWay, Inside, Idle
<1>2. IInv /\ MmioInv /\ IInv' /\ [Next]_vars => MmioInv'
  BY NextMmio
<1>3. Spec => []MmioInv
  BY <1>1, <1>2, Invariance, PTL DEF Spec
<1> QED BY <1>3, Invariance, BlockedTraps, PTL
=============================================================================
