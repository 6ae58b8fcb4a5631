---------------------------- MODULE GuestMemory -----------------------------
(***************************************************************************)
(* What the nested page tables promise: each vm has a memory of its own, a *)
(* partial function from frames to pages, that only grows while the vm     *)
(* exists.  The mmio frame is in nobody's memory, so that every access to  *)
(* it reaches the emulator.                                                *)
(*                                                                         *)
(* NestedPaging implements this as long as one thread at a time walks the  *)
(* tables of a vm; Driver is built on it.                                  *)
(***************************************************************************)
CONSTANTS Vmms, Gfns, MmioGfn, Pages, NULL

VARIABLES
  exists,  \* the vms that have a memory
  mem      \* the page behind each frame of each vm, or NULL

memoryVars == <<exists, mem>>

Init ==
  /\ exists = {}
  /\ mem = [m \in Vmms |-> [g \in Gfns |-> NULL]]

(* yakvm_create_vmm() has succeeded.                                        *)
Create(m) ==
  /\ m \notin exists
  /\ exists' = exists \union {m}
  /\ UNCHANGED mem

(* YAKVM_MMAP_PAGE or a fault put a page nobody has behind a frame.         *)
Unused(p) == \A m \in Vmms, g \in Gfns : mem[m][g] # p

Map(m, g, p) ==
  /\ m \in exists
  /\ g # MmioGfn
  /\ mem[m][g] = NULL
  /\ Unused(p)
  /\ mem' = [mem EXCEPT ![m][g] = p]
  /\ UNCHANGED exists

(* yakvm_destroy_vmm().                                                     *)
Destroy(m) ==
  /\ m \in exists
  /\ exists' = exists \ {m}
  /\ mem' = [mem EXCEPT ![m] = [g \in Gfns |-> NULL]]

(* Only a frame whose page changes can be the one that is mapped, which     *)
(* spares TLC the others when it checks a step against this specification.  *)
Changed(m) == {g \in Gfns : mem'[m][g] # mem[m][g]}

Next ==
  \E m \in Vmms :
    \/ Create(m)
    \/ \E g \in Changed(m), p \in Pages : Map(m, g, p)
    \/ Destroy(m)

Spec == Init /\ [][Next]_memoryVars
=============================================================================
