---------------------------- MODULE NestedPaging ----------------------------
(***************************************************************************)
(* The nested page tables of the vms (driver/memory.c, include/memory.h)   *)
(* and the two ways user space fills them in: ioctl(YAKVM_MMAP_PAGE) and a *)
(* page fault on a mapping of the vm's file (driver/vm.c).                 *)
(*                                                                         *)
(* A table is a page of entries.  yakvm_vmm_npt_create() walks from the    *)
(* PML4 table to the PT and allocates what is missing.  It takes no lock,  *)
(* so each turn of its loop is one step of its thread when it finds an     *)
(* entry, and two when it does not: the read of the entry and, later, the  *)
(* store of the new one.                                                   *)
(*                                                                         *)
(* A guest physical address is its frame number (gpa >> P_SHIFT).  What    *)
(* the guest keeps in a page of its memory is left out.                    *)
(***************************************************************************)
EXTENDS Integers, FiniteSets

CONSTANTS
  Vmms,          \* the vms, each with its struct vmm
  Threads,       \* threads calling into the driver
  ThreadsOf,     \* for each vm, the threads that have its file
  Pages,         \* physical pages
  Pick(_),       \* which of a set of free pages alloc_page() may return
  MayFail,       \* whether it may fail although a page is free
  Fanout,        \* PTRS_PER_PAGE, 512 in the code
  Span,          \* frames an entry of each level maps: 2^(<level>_SHIFT - 12)
  Gfns,          \* the frames user space asks for
  Offsets,       \* the offsets in the file at which it maps, in pages
  MmioGfn,       \* the frame of YAKVM_MMIO_HAWK
  NULL

PT == 1
PDT == 2
PDPT == 3
PML4T == 4
Levels == PT .. PML4T
Index == 0 .. (Fanout - 1)

ASSUME ConstantsAssumption ==
  /\ ThreadsOf \in [Vmms -> SUBSET Threads]
  /\ NULL \notin Pages \union Vmms
  /\ \A S \in SUBSET Pages : Pick(S) \subseteq S
  /\ MayFail \in BOOLEAN
  /\ Fanout \in Nat \ {0}
  /\ Span \in [Levels -> Nat \ {0}]
  /\ Gfns \subseteq Nat
  /\ Offsets \subseteq Nat
  /\ 0 \in Offsets
  /\ MmioGfn \in Nat

(* An entry of a table maps what a whole table of the level below does.     *)
ASSUME SpanAssumption ==
  /\ Span[PT] = 1
  /\ \A l \in PT .. PDPT : Span[l + 1] = Fanout * Span[l]

VARIABLES
  refs,      \* the reference count of each page; 0: free
  role,      \* the level of the table a page was allocated as; 0: guest memory
  entrys,    \* the entries of each page that is a table
  ncr3,      \* vmm->ncr3, NULL while the vm does not exist
  ready,     \* the vms whose creation is over
  pgoff,     \* the first page of the file in user space's mapping
  upte,      \* the user page tables: what each page of the mapping shows
  stranded,  \* pages a failed yakvm_create_vmm() left behind
  panicked,  \* an assert() of the driver failed
  walk       \* yakvm_vmm_npt_create() as each thread runs it: its locals

vars == <<refs, role, entrys, ncr3, ready, pgoff, upte, stranded, panicked,
          walk>>

pageVars == <<refs, role, entrys>>
vmVars == <<ncr3, ready, stranded>>
userVars == <<pgoff, upte>>

-----------------------------------------------------------------------------
(* An entry is a page and the _PAGE_PRESENT bit; _PAGE_RW and _PAGE_USER    *)
(* are set in every entry that is not zero.                                 *)
Entry == [page : Pages \union {NULL}, present : BOOLEAN]
NoEntry == [page |-> NULL, present |-> FALSE]
EmptyTable == [i \in Index |-> NoEntry]

(* A thread between two steps of a walk: who called, for which frame, the   *)
(* table it is about to read, or in "alloc" has found the entry missing in, *)
(* and in "done" the page it has found.                                     *)
Callers == {"create", "ioctl", "fault"}
Walk == [at : {"idle", "read", "alloc", "done"}, caller : Callers,
         vmm : Vmms \union {NULL}, gfn : Nat, level : Levels,
         table : Pages \union {NULL}, page : Pages \union {NULL}]
Idle == [at |-> "idle", caller |-> "ioctl", vmm |-> NULL, gfn |-> 0,
         level |-> PML4T, table |-> NULL, page |-> NULL]

TypeOK ==
  /\ refs \in [Pages -> Nat]
  /\ role \in [Pages -> 0 .. PML4T]
  /\ entrys \in [Pages -> [Index -> Entry]]
  /\ ncr3 \in [Vmms -> Pages \union {NULL}]
  /\ ready \subseteq Vmms
  /\ pgoff \in [Vmms -> Nat]
  /\ upte \in [Vmms -> [Gfns -> Pages \union {NULL}]]
  /\ stranded \subseteq Pages
  /\ panicked \in BOOLEAN
  /\ walk \in [Threads -> Walk]

Init ==
  /\ refs = [p \in Pages |-> 0]
  /\ role = [p \in Pages |-> 0]
  /\ entrys = [p \in Pages |-> EmptyTable]
  /\ ncr3 = [m \in Vmms |-> NULL]
  /\ ready = {}
  /\ pgoff = [m \in Vmms |-> 0]
  /\ upte = [m \in Vmms |-> [g \in Gfns |-> NULL]]
  /\ stranded = {}
  /\ panicked = FALSE
  /\ walk = [t \in Threads |-> Idle]

-----------------------------------------------------------------------------
Allocated == {p \in Pages : refs[p] > 0}

(* Mutant: PML4_SHIFT has the value of PDP_SHIFT.                           *)
table_index_wrong_shift(g, level) ==
  (g \div Span[IF level = PML4T THEN PDPT ELSE level]) % Fanout

(* table_index(): the bits of the address that select the entry.            *)
table_index(g, level) == (g \div Span[level]) % Fanout

(* The tables and the memory below some tables, and a whole vm's: what      *)
(* yakvm_vmm_destroy_table() visits from a PML4 table.                      *)
Below(S) == {p \in Pages : \E q \in S : \E i \in Index : entrys[q][i].page = p}
Tree(p) ==
  LET pdpts == Below({p})
      pdts == Below(pdpts)
      pts == Below(pdts)
  IN {p} \union pdpts \union pdts \union pts \union Below(pts)

(* alloc_page() of a page for a table of some level; __GFP_ZERO is with the *)
(* callers' other stores to entrys.                                         *)
alloc_page(p, level) ==
  /\ p \in Pick(Pages \ Allocated)
  /\ refs' = [refs EXCEPT ![p] = 1]
  /\ role' = [role EXCEPT ![p] = level]

alloc_page_fails == MayFail \/ Pick(Pages \ Allocated) = {}

(* __free_page() and put_page() drop one reference of each page.  What a    *)
(* page held when it became free does not matter any more.                  *)
free_pages(S) ==
  /\ refs' = [p \in Pages |-> IF p \in S THEN refs[p] - 1 ELSE refs[p]]
  /\ role' = [p \in Pages |-> IF refs'[p] = 0 THEN 0 ELSE role[p]]
  /\ entrys' = [p \in Pages |-> IF refs'[p] = 0 THEN EmptyTable ELSE entrys[p]]

Walking(m) == {t \in Threads : walk[t].at # "idle" /\ walk[t].vmm = m}

At(t, at) == walk[t].at = at /\ ~panicked

(* The entry a thread's walk is at.                                         *)
WalkEntry(t) == entrys[walk[t].table][table_index(walk[t].gfn, walk[t].level)]

(* Mutant: the walk goes on with the same table.                            *)
Descend_same_table(t, p) ==
  LET w == walk[t]
  IN walk' = [walk EXCEPT ![t] =
       IF w.level = PT
         THEN [w EXCEPT !.at = "done", !.page = p]
         ELSE [w EXCEPT !.at = "read", !.level = w.level - 1]]

(* The next turn of the loop, or its end, after the entry of page p.        *)
Descend(t, p) ==
  LET w == walk[t]
  IN walk' = [walk EXCEPT ![t] =
       IF w.level = PT
         THEN [w EXCEPT !.at = "done", !.page = p]
         ELSE [w EXCEPT !.at = "read", !.level = w.level - 1, !.table = p]]

Begin(t, m, g, caller, root) ==
  /\ At(t, "idle")
  /\ walk' = [walk EXCEPT ![t] =
       [at |-> "read", caller |-> caller, vmm |-> m, gfn |-> g,
        level |-> PML4T, table |-> root, page |-> NULL]]

Return(t) == walk' = [walk EXCEPT ![t] = Idle]

-----------------------------------------------------------------------------
(* yakvm_create_vmm(): the PML4 table and the struct, then a walk for the   *)
(* mmio frame.  When either of the first two allocations fails nothing is   *)
(* left of the call.                                                        *)
yakvm_create_vmm(t, m) ==
  /\ t \in ThreadsOf[m]
  /\ ncr3[m] = NULL
  /\ \E p \in Pages :
       /\ alloc_page(p, PML4T)
       /\ entrys' = [entrys EXCEPT ![p] = EmptyTable]
       /\ ncr3' = [ncr3 EXCEPT ![m] = p]
       /\ Begin(t, m, MmioGfn, "create", p)
  /\ UNCHANGED <<ready, userVars, stranded, panicked>>

(* ioctl(YAKVM_MMAP_PAGE), and a fault on page u of the vm's file.  The     *)
(* handler takes the frame to be the distance from the start of the mapping *)
(* (address - vm_start), wherever in the file the mapping starts.           *)
yakvm_vm_ioctl_mmap_page(t, m, g) ==
  /\ m \in ready
  /\ t \in ThreadsOf[m]
  /\ Begin(t, m, g, "ioctl", ncr3[m])
  /\ UNCHANGED <<pageVars, vmVars, userVars, panicked>>

yakvm_vm_vmm_fault(t, m, u) ==
  /\ m \in ready
  /\ t \in ThreadsOf[m]
  /\ pgoff[m] <= u
  /\ upte[m][u] = NULL
  /\ Begin(t, m, u - pgoff[m], "fault", ncr3[m])
  /\ UNCHANGED <<pageVars, vmVars, userVars, panicked>>

(* Mutant: at the PT the entry is made anew although it exists.             *)
npt_missing_or_last(t) ==
  /\ At(t, "read")
  /\ WalkEntry(t) = NoEntry \/ walk[t].level = PT
  /\ walk' = [walk EXCEPT ![t].at = "alloc"]
  /\ UNCHANGED <<pageVars, vmVars, userVars, panicked>>

(* yakvm_vmm_npt_create(), one turn of its loop: the entry is missing, or   *)
(* the walk follows it.  An entry without the present bit fails assert().   *)
npt_missing(t) ==
  /\ At(t, "read")
  /\ WalkEntry(t) = NoEntry
  /\ walk' = [walk EXCEPT ![t].at = "alloc"]
  /\ UNCHANGED <<pageVars, vmVars, userVars, panicked>>

npt_follow(t) ==
  /\ At(t, "read")
  /\ WalkEntry(t) # NoEntry
  /\ WalkEntry(t).present
  /\ Descend(t, WalkEntry(t).page)
  /\ UNCHANGED <<pageVars, vmVars, userVars, panicked>>

npt_assert(t) ==
  /\ At(t, "read")
  /\ WalkEntry(t) # NoEntry
  /\ ~WalkEntry(t).present
  /\ panicked' = TRUE
  /\ UNCHANGED <<pageVars, vmVars, userVars, walk>>

(* The store of the new entry does not look at the old one again.           *)
npt_alloc(t) ==
  /\ At(t, "alloc")
  /\ \E p \in Pages :
       /\ alloc_page(p, walk[t].level - 1)
       /\ entrys' = [entrys EXCEPT
            ![p] = EmptyTable,
            ![walk[t].table][table_index(walk[t].gfn, walk[t].level)] =
              [page |-> p, present |-> TRUE]]
       /\ Descend(t, p)
  /\ UNCHANGED <<vmVars, userVars, panicked>>

(* Mutant: the error path frees the table it could not fill in.             *)
npt_alloc_fail_frees_table(t) ==
  /\ At(t, "alloc")
  /\ alloc_page_fails
  /\ walk[t].caller # "create"
  /\ free_pages({walk[t].table})
  /\ Return(t)
  /\ UNCHANGED <<vmVars, userVars, panicked>>

(* alloc_page() failed: -ENOMEM.  The tables made on the way stay where     *)
(* they are.                                                                *)
npt_alloc_fail(t) ==
  /\ At(t, "alloc")
  /\ alloc_page_fails
  /\ walk[t].caller # "create"
  /\ Return(t)
  /\ UNCHANGED <<pageVars, vmVars, userVars, panicked>>

(* In yakvm_create_vmm() the labels free_vmm and free_pml4 free the struct  *)
(* and the PML4 table, and not what it refers to.                           *)
create_vmm_fail(t) ==
  /\ At(t, "alloc")
  /\ alloc_page_fails
  /\ walk[t].caller = "create"
  /\ LET root == ncr3[walk[t].vmm]
     IN /\ free_pages({root})
        /\ stranded' = stranded \union (Tree(root) \ {root})
  /\ ncr3' = [ncr3 EXCEPT ![walk[t].vmm] = NULL]
  /\ Return(t)
  /\ UNCHANGED <<ready, userVars, panicked>>

-----------------------------------------------------------------------------
(* Mutant: the mmio page stays present.                                     *)
create_vmm_done_present(t) ==
  /\ At(t, "done")
  /\ walk[t].caller = "create"
  /\ ready' = ready \union {walk[t].vmm}
  /\ Return(t)
  /\ UNCHANGED <<pageVars, ncr3, userVars, stranded, panicked>>

(* The end of the walk of yakvm_create_vmm(): the mmio page loses the       *)
(* present bit, and the vm exists.                                          *)
create_vmm_done(t) ==
  /\ At(t, "done")
  /\ walk[t].caller = "create"
  /\ entrys' = [entrys EXCEPT
       ![walk[t].table][table_index(walk[t].gfn, walk[t].level)].present = FALSE]
  /\ ready' = ready \union {walk[t].vmm}
  /\ Return(t)
  /\ UNCHANGED <<refs, role, ncr3, userVars, stranded, panicked>>

mmap_page_done(t) ==
  /\ At(t, "done")
  /\ walk[t].caller = "ioctl"
  /\ Return(t)
  /\ UNCHANGED <<pageVars, vmVars, userVars, panicked>>

(* The page of the file a fault is for.                                     *)
FaultPage(t) == walk[t].gfn + pgoff[walk[t].vmm]

(* Mutant: get_page() is missing.                                           *)
fault_done_no_get_page(t) ==
  /\ At(t, "done")
  /\ walk[t].caller = "fault"
  /\ upte[walk[t].vmm][FaultPage(t)] = NULL
  /\ upte' = [upte EXCEPT ![walk[t].vmm][FaultPage(t)] = walk[t].page]
  /\ Return(t)
  /\ UNCHANGED <<pageVars, vmVars, pgoff, panicked>>

(* The handler takes a reference with get_page() and the kernel maps the    *)
(* page; when another thread has mapped one first, it drops the reference.  *)
fault_done(t) ==
  /\ At(t, "done")
  /\ walk[t].caller = "fault"
  /\ upte[walk[t].vmm][FaultPage(t)] = NULL
  /\ upte' = [upte EXCEPT ![walk[t].vmm][FaultPage(t)] = walk[t].page]
  /\ refs' = [refs EXCEPT ![walk[t].page] = @ + 1]
  /\ Return(t)
  /\ UNCHANGED <<role, entrys, vmVars, pgoff, panicked>>

fault_done_late(t) ==
  /\ At(t, "done")
  /\ walk[t].caller = "fault"
  /\ upte[walk[t].vmm][FaultPage(t)] # NULL
  /\ Return(t)
  /\ UNCHANGED <<pageVars, vmVars, userVars, panicked>>

(* Where the user mapping of the vm's file starts: mmap() at an offset,     *)
(* which yakvm_vm_mmap() accepts, or munmap() of the pages at its head.     *)
yakvm_vm_mmap(m, off) ==
  /\ ~panicked
  /\ m \in ready
  /\ \A t \in Walking(m) : walk[t].caller # "fault"
  /\ \A u \in Gfns : off < pgoff[m] \/ u < off => upte[m][u] = NULL
  /\ pgoff' = [pgoff EXCEPT ![m] = off]
  /\ UNCHANGED <<pageVars, vmVars, upte, panicked, walk>>

(* munmap(), madvise() or exit: the kernel unmaps a page and puts it.       *)
zap_pte(m, g) ==
  /\ ~panicked
  /\ upte[m][g] # NULL
  /\ free_pages({upte[m][g]})
  /\ upte' = [upte EXCEPT ![m][g] = NULL]
  /\ UNCHANGED <<vmVars, pgoff, panicked, walk>>

(* Mutant: only the tables are freed, not the memory below the PTs.         *)
yakvm_destroy_vmm_keeps_memory(m) ==
  /\ ~panicked
  /\ m \in ready
  /\ Walking(m) = {}
  /\ \A g \in Gfns : upte[m][g] = NULL
  /\ free_pages({p \in Tree(ncr3[m]) : role[p] # 0})
  /\ ncr3' = [ncr3 EXCEPT ![m] = NULL]
  /\ ready' = ready \ {m}
  /\ UNCHANGED <<userVars, stranded, panicked, walk>>

(* yakvm_destroy_vmm(): the tables and the memory that the tables refer to. *)
(* The vm's file is gone, so nobody walks or maps it (module VmLifetime).   *)
yakvm_destroy_vmm(m) ==
  /\ ~panicked
  /\ m \in ready
  /\ Walking(m) = {}
  /\ \A g \in Gfns : upte[m][g] = NULL
  /\ free_pages(Tree(ncr3[m]))
  /\ ncr3' = [ncr3 EXCEPT ![m] = NULL]
  /\ ready' = ready \ {m}
  /\ UNCHANGED <<userVars, stranded, panicked, walk>>

-----------------------------------------------------------------------------
Enter(t) ==
  \/ \E m \in Vmms : yakvm_create_vmm(t, m)
  \/ \E m \in Vmms, g \in Gfns : yakvm_vm_ioctl_mmap_page(t, m, g)
  \/ \E m \in Vmms, u \in Gfns : yakvm_vm_vmm_fault(t, m, u)

WalkStep(t) ==
  \/ npt_missing(t)
  \/ npt_follow(t)
  \/ npt_assert(t)
  \/ npt_alloc(t)
  \/ npt_alloc_fail(t)
  \/ create_vmm_fail(t)
  \/ create_vmm_done(t)
  \/ mmap_page_done(t)
  \/ fault_done(t)
  \/ fault_done_late(t)

(* panic() never returns: the host stays halted.                            *)
Halted ==
  /\ panicked
  /\ UNCHANGED vars

Next ==
  \/ \E t \in Threads : Enter(t) \/ WalkStep(t)
  \/ \E m \in Vmms, g \in Gfns : zap_pte(m, g)
  \/ \E m \in Vmms, off \in Offsets : yakvm_vm_mmap(m, off)
  \/ \E m \in Vmms : yakvm_destroy_vmm(m)
  \/ Halted

Spec == Init /\ [][Next]_vars

-----------------------------------------------------------------------------
(* The processor's nested walk: the page a guest's access to a frame        *)
(* reaches, NULL when it ends in a nested page fault.                       *)
Hop(p, g, level) ==
  IF p = NULL THEN NULL
  ELSE LET e == entrys[p][table_index(g, level)]
       IN IF e.present THEN e.page ELSE NULL

Translate(m, g) ==
  Hop(Hop(Hop(Hop(ncr3[m], g, PML4T), g, PDPT), g, PDT), g, PT)

(* The tables stay well formed although nothing serialises the walks: an    *)
(* entry of a page in use refers to a page in use, which was allocated as a *)
(* table of the next level (or, from a PT, as guest memory).                *)
EntriesWellFormed ==
  \A p \in Allocated, i \in Index :
    LET q == entrys[p][i].page
    IN q # NULL => q \in Allocated /\ role[q] = role[p] - 1

(* No page hangs below two entries, of one vm or of two, so that            *)
(* yakvm_vmm_destroy_table() frees each page once.                          *)
OneParent ==
  \A p, q \in Allocated, i, j \in Index :
    entrys[p][i].page # NULL /\ entrys[p][i].page = entrys[q][j].page
      => p = q /\ i = j

(* A walk stands on a table in use of the level it believes to be at, and   *)
(* a finished one holds a page of guest memory, never a table.              *)
WalkersSafe ==
  \A t \in Threads :
    walk[t].at # "idle" =>
      /\ walk[t].table \in Allocated
      /\ role[walk[t].table] = walk[t].level
      /\ walk[t].at = "done" =>
           walk[t].page \in Allocated /\ role[walk[t].page] = 0

(* A page is referred to once by the driver, and once by each user mapping  *)
(* of it: get_page() and put_page() balance, and no mapping outlives the    *)
(* page.                                                                    *)
PageRefsExact ==
  /\ \A p \in Allocated :
       refs[p] = 1 + Cardinality({x \in Vmms \X Gfns : upte[x[1]][x[2]] = p})
  /\ \A m \in Vmms, g \in Gfns :
       upte[m][g] # NULL => upte[m][g] \in Allocated /\ role[upte[m][g]] = 0

(* Two vms share no table and no memory, and no process maps a page of      *)
(* another's vm.                                                            *)
GuestsIsolated ==
  \A m, n \in Vmms :
    m # n /\ ncr3[n] # NULL =>
      /\ ncr3[m] # NULL => Tree(ncr3[m]) \cap Tree(ncr3[n]) = {}
      /\ \A g \in Gfns : upte[m][g] \notin Tree(ncr3[n])

(* Every page in use can be reached from a vm that exists, and will be      *)
(* freed with it, except those a failed yakvm_create_vmm() leaves behind.   *)
NoPageLeak ==
  Allocated \subseteq
    stranded \union UNION {Tree(ncr3[m]) : m \in {n \in Vmms : ncr3[n] # NULL}}

(* Different frames are different pages: the shifts and the mask of         *)
(* table_index() take the frame number apart without overlap, as far as     *)
(* four levels reach.                                                       *)
FramesDistinct ==
  \A m \in Vmms, g, h \in Gfns :
    /\ g < Fanout * Span[PML4T] /\ h < Fanout * Span[PML4T]
    /\ Translate(m, g) # NULL /\ Translate(m, g) = Translate(m, h)
    => g = h

(* A guest that exists never reaches memory at the mmio frame: the access   *)
(* ends in the nested page fault the emulator waits for.                    *)
MmioTraps == \A m \in ready : Translate(m, MmioGfn) = NULL

(* driver/vm.c:167 says that the mapping shows the vm's physical memory:    *)
(* the page user space sees at a frame is the one the guest reaches there.  *)
UserSeesGuest ==
  \A m \in ready, g \in Gfns :
    upte[m][g] # NULL => Translate(m, g) = upte[m][g]

(* Memory the guest has been given at a frame is never replaced by another  *)
(* page, nor taken away, while the vm exists.                               *)
GuestMemoryStable ==
  [][\A m \in ready \cap ready', g \in Gfns :
       Translate(m, g) # NULL => Translate(m, g)' = Translate(m, g)]_vars

(* driver/memory.c:57 asserts that each entry a walk passes is present.     *)
PresentAssertHolds == ~panicked

-----------------------------------------------------------------------------
(* The refinement of GuestMemory: a frame's page is what the processor      *)
(* finds there.                                                             *)
Memory == INSTANCE GuestMemory WITH
  exists <- ready,
  mem <- [m \in Vmms |-> [g \in Gfns |->
            IF m \in ready THEN Translate(m, g) ELSE NULL]]

(* One walker at a time per vm, the tables behave as the memory of module   *)
(* GuestMemory: a page appears behind a frame in one step, new and nobody   *)
(* else's, and stays there until the vm goes, however many steps and failed *)
(* allocations the walk takes.                                              *)
ImplementsMemory == Memory!Spec
=============================================================================
