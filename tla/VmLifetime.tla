----------------------------- MODULE VmLifetime -----------------------------
(***************************************************************************)
(* Lifetime of the driver's two kinds of objects: struct vm and struct     *)
(* vcpu (driver/vm.c, driver/cpu.c, driver/main.c).                        *)
(*                                                                         *)
(* A vm is created by an ioctl on /dev/yakvm and a vcpu by an ioctl on the *)
(* vm's file.  Each object is used through the file whose private_data it  *)
(* is; vm->refcount counts the vm's file and the vcpus that point back to  *)
(* it, and the last yakvm_put_vm() frees the vm, its nested page table and *)
(* its vcpu.  Any number of threads call into the driver at once, and a    *)
(* descriptor can be used or closed by another thread as soon as it is     *)
(* installed, before the ioctl that installed it returns.                  *)
(*                                                                         *)
(* A handler that touches shared state in several places is several steps  *)
(* of its thread (pc).  Memory is what can be used after it is freed or    *)
(* leaked: the members of vmLive are allocated vm structs, and parts[c]    *)
(* holds which of the six allocations of vcpu c are in place.              *)
(***************************************************************************)
EXTENDS Naturals, FiniteSets

CONSTANTS
  Vms,      \* addresses kmalloc() can return for a struct vm
  Vcpus,    \* addresses kmalloc() can return for a struct vcpu
  Threads,  \* threads calling into the driver
  NASID,    \* cpuid_ebx(0x8000000a), the number of ASIDs of the processor
  NULL

ASSUME ConstantsAssumption ==
  /\ IsFiniteSet(Vcpus)
  /\ NULL \notin Vms \union Vcpus \union Threads
  /\ NASID \in Nat \ {0, 1}

VARIABLES
  vmLive,    \* allocated vm structs
  refcount,  \* vm->refcount
  vcpu,      \* vm->vcpu
  lock,      \* vm->lock: the thread that holds it, or NULL
  vmFile,    \* the struct file of each vm
  parts,     \* the allocations of each vcpu that are in place
  vmOf,      \* vcpu->vm
  asidOf,    \* vcpu->gctx.vmcb->control.asid
  cpuFile,   \* the struct file of each vcpu
  asid,      \* the driver's ASID counter
  panicked,  \* an assert() of the driver failed
  pc,        \* where each thread is
  tvm,       \* the local variable vm of the thread's handler
  tvcpu,     \* the local variable vcpu of the thread's handler
  result     \* what the thread's last create ioctl returned

vars == <<vmLive, refcount, vcpu, lock, vmFile, parts, vmOf, asidOf, cpuFile,
          asid, panicked, pc, tvm, tvcpu, result>>

vmVars == <<vmLive, refcount, vcpu, lock, vmFile>>
vcpuVars == <<parts, vmOf, asidOf, cpuFile>>
hostVars == <<asid, panicked>>
threadVars == <<pc, tvm, tvcpu, result>>

-----------------------------------------------------------------------------
(* The allocations of yakvm_create_vcpu(), in its order: 1 the struct vcpu, *)
(* 2 gvmcb, 3 hvmcb, 4 hsave, 5 state, 6 iopm.                              *)
Parts == 1 .. 6

(* struct file, as the kernel keeps it: whether it exists, whether some     *)
(* descriptor refers to it and whether some memory mapping does.            *)
File == [open : BOOLEAN, fd : BOOLEAN, mapped : BOOLEAN]
NoFile == [open |-> FALSE, fd |-> FALSE, mapped |-> FALSE]
NewFile == [open |-> TRUE, fd |-> TRUE, mapped |-> FALSE]

(* Where a thread inside a handler on a vm's file can be.                   *)
CreateVcpuSteps ==
  {"alloc", "init", "lock", "check", "set", "get", "getfd", "clear", "put",
   "destroy"}
VmSteps == CreateVcpuSteps \union {"create_vcpu", "mmap_page", "fault"}
Steps == VmSteps \union {"idle", "vm_getfd", "vcpu_ioctl"}

(* What a create ioctl returned: a descriptor, a negative error, or a       *)
(* non-negative number that is no descriptor.                               *)
Results == {"none", "fd", "error", "number"}

TypeOK ==
  /\ vmLive \subseteq Vms
  /\ refcount \in [Vms -> Nat]
  /\ vcpu \in [Vms -> Vcpus \union {NULL}]
  /\ lock \in [Vms -> Threads \union {NULL}]
  /\ vmFile \in [Vms -> File]
  /\ parts \in [Vcpus -> SUBSET Parts]
  /\ vmOf \in [Vcpus -> Vms \union {NULL}]
  /\ asidOf \in [Vcpus -> Nat]
  /\ cpuFile \in [Vcpus -> File]
  /\ asid \in Nat
  /\ panicked \in BOOLEAN
  /\ pc \in [Threads -> Steps]
  /\ tvm \in [Threads -> Vms \union {NULL}]
  /\ tvcpu \in [Threads -> Vcpus \union {NULL}]
  /\ result \in [Threads -> Results]

Init ==
  /\ vmLive = {}
  /\ refcount = [v \in Vms |-> 0]
  /\ vcpu = [v \in Vms |-> NULL]
  /\ lock = [v \in Vms |-> NULL]
  /\ vmFile = [v \in Vms |-> NoFile]
  /\ parts = [c \in Vcpus |-> {}]
  /\ vmOf = [c \in Vcpus |-> NULL]
  /\ asidOf = [c \in Vcpus |-> 0]
  /\ cpuFile = [c \in Vcpus |-> NoFile]
  /\ asid = 1
  /\ panicked = FALSE
  /\ pc = [t \in Threads |-> "idle"]
  /\ tvm = [t \in Threads |-> NULL]
  /\ tvcpu = [t \in Threads |-> NULL]
  /\ result = [t \in Threads |-> "none"]

-----------------------------------------------------------------------------
(* Helpers: the control of a thread.                                        *)
At(t, step) == pc[t] = step /\ ~panicked

Goto(t, step) == pc' = [pc EXCEPT ![t] = step]

Enter(t, v, step) ==
  /\ At(t, "idle")
  /\ pc' = [pc EXCEPT ![t] = step]
  /\ tvm' = [tvm EXCEPT ![t] = v]
  /\ result' = [result EXCEPT ![t] = "none"]
  /\ UNCHANGED tvcpu

Return(t, r) ==
  /\ pc' = [pc EXCEPT ![t] = "idle"]
  /\ tvm' = [tvm EXCEPT ![t] = NULL]
  /\ tvcpu' = [tvcpu EXCEPT ![t] = NULL]
  /\ result' = [result EXCEPT ![t] = r]

(* A file is in use while a descriptor, a mapping or a running handler      *)
(* refers to it: the kernel calls ->release only when none does.            *)
VmFileInUse(v) ==
  \/ vmFile[v].fd
  \/ vmFile[v].mapped
  \/ \E t \in Threads : pc[t] \in VmSteps /\ tvm[t] = v

CpuFileInUse(c) ==
  \/ cpuFile[c].fd
  \/ cpuFile[c].mapped
  \/ \E t \in Threads : pc[t] = "vcpu_ioctl" /\ tvcpu[t] = c

(* yakvm_destroy_vcpu() frees all six allocations of the vcpus in C.        *)
yakvm_destroy_vcpu(C) ==
  parts' = [c \in Vcpus |-> IF c \in C THEN {} ELSE parts[c]]

(* yakvm_destroy_vm() frees the vcpu it finds in vm->vcpu, then the vm.     *)
yakvm_destroy_vm(v) ==
  /\ vmLive' = vmLive \ {v}
  /\ vcpu' = [vcpu EXCEPT ![v] = NULL]
  /\ yakvm_destroy_vcpu({vcpu[v]})

(* yakvm_put_vm() frees the vm when it drops the last reference.            *)
yakvm_put_vm(v) ==
  /\ refcount' = [refcount EXCEPT ![v] = @ - 1]
  /\ \/ /\ refcount[v] = 1
        /\ yakvm_destroy_vm(v)
     \/ /\ refcount[v] # 1
        /\ UNCHANGED <<vmLive, vcpu, parts>>

-----------------------------------------------------------------------------
(* ioctl(YAKVM_CREATE_VM).  The vm is private to the thread until its       *)
(* descriptor is installed.                                                 *)
yakvm_create_vm(t, v) ==
  /\ v \notin vmLive
  /\ Enter(t, v, "vm_getfd")
  /\ vmLive' = vmLive \union {v}
  /\ refcount' = [refcount EXCEPT ![v] = 1]
  /\ vcpu' = [vcpu EXCEPT ![v] = NULL]
  /\ lock' = [lock EXCEPT ![v] = NULL]
  /\ UNCHANGED <<vmFile, vcpuVars, hostVars>>

(* kmalloc() or yakvm_create_vmm() failed: the vm is freed again.           *)
yakvm_create_vm_fail(t) ==
  /\ At(t, "idle")
  /\ result' = [result EXCEPT ![t] = "error"]
  /\ UNCHANGED <<pc, tvm, tvcpu, vmVars, vcpuVars, hostVars>>

vm_getfd(t) ==
  /\ At(t, "vm_getfd")
  /\ vmFile' = [vmFile EXCEPT ![tvm[t]] = NewFile]
  /\ Return(t, "fd")
  /\ UNCHANGED <<vmLive, refcount, vcpu, lock, vcpuVars, hostVars>>

(* anon_inode_getfd() failed: yakvm_destroy_vm() whatever the refcount.     *)
vm_getfd_fail(t) ==
  /\ At(t, "vm_getfd")
  /\ yakvm_destroy_vm(tvm[t])
  /\ Return(t, "error")
  /\ UNCHANGED <<refcount, lock, vmFile, vmOf, asidOf, cpuFile, hostVars>>

-----------------------------------------------------------------------------
(* ioctl(YAKVM_CREATE_VCPU) enters the handler through a descriptor.        *)
yakvm_vm_ioctl_create_vcpu(t, v) ==
  /\ vmFile[v].fd
  /\ Enter(t, v, "create_vcpu")
  /\ UNCHANGED <<vmVars, vcpuVars, hostVars>>

(* yakvm_create_vcpu(): kmalloc() of the struct, then five page             *)
(* allocations.                                                             *)
create_vcpu_kmalloc(t, c) ==
  /\ At(t, "create_vcpu")
  /\ parts[c] = {}
  /\ parts' = [parts EXCEPT ![c] = {1}]
  /\ vmOf' = [vmOf EXCEPT ![c] = NULL]
  /\ asidOf' = [asidOf EXCEPT ![c] = 0]
  /\ tvcpu' = [tvcpu EXCEPT ![t] = c]
  /\ Goto(t, "alloc")
  /\ UNCHANGED <<tvm, result, cpuFile, vmVars, hostVars>>

NextPart(c) == {k \in Parts \ parts[c] : 1 .. (k - 1) \subseteq parts[c]}

create_vcpu_alloc_page(t) ==
  /\ At(t, "alloc")
  /\ \E k \in NextPart(tvcpu[t]) :
       /\ parts' = [parts EXCEPT ![tvcpu[t]] = @ \union {k}]
       /\ Goto(t, IF k = 6 THEN "init" ELSE "alloc")
  /\ UNCHANGED <<tvm, tvcpu, result, vmOf, asidOf, cpuFile, vmVars, hostVars>>

(* Mutant: the goto names the label after the right one.                    *)
Unwind_wrong_label(k) == 1 .. (k - 2)

(* The unwinding labels free_state ... free_vcpu: a failure to allocate     *)
(* part k falls through the labels that free parts k-1 down to 1.           *)
Unwind(k) == 1 .. (k - 1)

(* A failed allocation is unwound, and the ioctl returns PTR_ERR(vm), not   *)
(* PTR_ERR(vcpu): the low half of a valid pointer, of either sign.          *)
PtrErrVm == {"error", "number"}

create_vcpu_kmalloc_fail(t) ==
  /\ At(t, "create_vcpu")
  /\ \E r \in PtrErrVm : Return(t, r)
  /\ UNCHANGED <<vmVars, vcpuVars, hostVars>>

create_vcpu_alloc_page_fail(t) ==
  /\ At(t, "alloc")
  /\ \E k \in NextPart(tvcpu[t]) :
       parts' = [parts EXCEPT ![tvcpu[t]] = @ \ Unwind(k)]
  /\ \E r \in PtrErrVm : Return(t, r)
  /\ UNCHANGED <<vmOf, asidOf, cpuFile, vmVars, hostVars>>

(* yakvm_vcpu_init_vmcb() takes the next ASID with atomic_inc_return() and  *)
(* asserts that the processor has it; a failed assert() is a kernel panic.  *)
yakvm_vcpu_init_vmcb(t) ==
  /\ At(t, "init")
  /\ vmOf' = [vmOf EXCEPT ![tvcpu[t]] = tvm[t]]
  /\ asid' = asid + 1
  /\ asidOf' = [asidOf EXCEPT ![tvcpu[t]] = asid']
  /\ panicked' = ~(asid' < NASID)
  /\ Goto(t, "lock")
  /\ UNCHANGED <<tvm, tvcpu, result, parts, cpuFile, vmVars>>

(* Mutant: mutex_lock() is missing.                                         *)
create_vcpu_lock_missing(t) ==
  /\ At(t, "lock")
  /\ Goto(t, "check")
  /\ UNCHANGED <<tvm, tvcpu, result, vmVars, vcpuVars, hostVars>>

(* The vcpu is published in vm->vcpu under vm->lock, once.                  *)
create_vcpu_lock(t) ==
  /\ At(t, "lock")
  /\ lock[tvm[t]] = NULL
  /\ lock' = [lock EXCEPT ![tvm[t]] = t]
  /\ Goto(t, "check")
  /\ UNCHANGED <<tvm, tvcpu, result, vmLive, refcount, vcpu, vmFile, vcpuVars,
                 hostVars>>

(* Mutant: the early exit goes to put_vm instead of destroy_vcpu.           *)
create_vcpu_exists_puts(t) ==
  /\ At(t, "check")
  /\ vcpu[tvm[t]] # NULL
  /\ lock' = [lock EXCEPT ![tvm[t]] = NULL]
  /\ Goto(t, "put")
  /\ UNCHANGED <<tvm, tvcpu, result, vmLive, refcount, vcpu, vmFile, vcpuVars,
                 hostVars>>

(* Mutant: the early exit forgets mutex_unlock().                           *)
create_vcpu_exists_keeps_lock(t) ==
  /\ At(t, "check")
  /\ vcpu[tvm[t]] # NULL
  /\ Goto(t, "destroy")
  /\ UNCHANGED <<tvm, tvcpu, result, vmVars, vcpuVars, hostVars>>

(* vm->vcpu is set: unlock, and goto destroy_vcpu with -EEXIST.             *)
create_vcpu_exists(t) ==
  /\ At(t, "check")
  /\ vcpu[tvm[t]] # NULL
  /\ lock' = [lock EXCEPT ![tvm[t]] = NULL]
  /\ Goto(t, "destroy")
  /\ UNCHANGED <<tvm, tvcpu, result, vmLive, refcount, vcpu, vmFile, vcpuVars,
                 hostVars>>

(* Mutant: the test of vm->vcpu is missing.                                 *)
create_vcpu_check_missing(t) ==
  /\ At(t, "check")
  /\ Goto(t, "set")
  /\ UNCHANGED <<tvm, tvcpu, result, vmVars, vcpuVars, hostVars>>

create_vcpu_check(t) ==
  /\ At(t, "check")
  /\ vcpu[tvm[t]] = NULL
  /\ Goto(t, "set")
  /\ UNCHANGED <<tvm, tvcpu, result, vmVars, vcpuVars, hostVars>>

create_vcpu_set(t) ==
  /\ At(t, "set")
  /\ vcpu' = [vcpu EXCEPT ![tvm[t]] = tvcpu[t]]
  /\ lock' = [lock EXCEPT ![tvm[t]] = NULL]
  /\ Goto(t, "get")
  /\ UNCHANGED <<tvm, tvcpu, result, vmLive, refcount, vmFile, vcpuVars,
                 hostVars>>

(* Mutant: the vcpu takes no reference.                                     *)
yakvm_get_vm_missing(t) ==
  /\ At(t, "get")
  /\ Goto(t, "getfd")
  /\ UNCHANGED <<tvm, tvcpu, result, vmVars, vcpuVars, hostVars>>

(* The vcpu's reference is taken before its descriptor exists.              *)
yakvm_get_vm(t) ==
  /\ At(t, "get")
  /\ refcount' = [refcount EXCEPT ![tvm[t]] = @ + 1]
  /\ Goto(t, "getfd")
  /\ UNCHANGED <<tvm, tvcpu, result, vmLive, vcpu, lock, vmFile, vcpuVars,
                 hostVars>>

create_vcpu_getfd(t) ==
  /\ At(t, "getfd")
  /\ cpuFile' = [cpuFile EXCEPT ![tvcpu[t]] = NewFile]
  /\ Return(t, "fd")
  /\ UNCHANGED <<parts, vmOf, asidOf, vmVars, hostVars>>

create_vcpu_getfd_fail(t) ==
  /\ At(t, "getfd")
  /\ Goto(t, "clear")
  /\ UNCHANGED <<tvm, tvcpu, result, vmVars, vcpuVars, hostVars>>

(* put_vm: unpublish under the lock, drop the reference, and fall through   *)
(* to destroy_vcpu.                                                         *)
create_vcpu_clear(t) ==
  /\ At(t, "clear")
  /\ lock[tvm[t]] = NULL
  /\ vcpu' = [vcpu EXCEPT ![tvm[t]] = NULL]
  /\ Goto(t, "put")
  /\ UNCHANGED <<tvm, tvcpu, result, vmLive, refcount, lock, vmFile, vcpuVars,
                 hostVars>>

create_vcpu_put(t) ==
  /\ At(t, "put")
  /\ yakvm_put_vm(tvm[t])
  /\ Goto(t, "destroy")
  /\ UNCHANGED <<tvm, tvcpu, result, lock, vmFile, vmOf, asidOf, cpuFile,
                 hostVars>>

(* Mutant: the failed creation hands its ASID back by counting down.        *)
create_vcpu_destroy_returns_asid(t) ==
  /\ At(t, "destroy")
  /\ yakvm_destroy_vcpu({tvcpu[t]})
  /\ asid' = asid - 1
  /\ Return(t, "error")
  /\ UNCHANGED <<vmOf, asidOf, cpuFile, vmVars, panicked>>

(* destroy_vcpu: the unpublished vcpu is freed.                             *)
create_vcpu_destroy(t) ==
  /\ At(t, "destroy")
  /\ yakvm_destroy_vcpu({tvcpu[t]})
  /\ Return(t, "error")
  /\ UNCHANGED <<vmOf, asidOf, cpuFile, vmVars, hostVars>>

-----------------------------------------------------------------------------
(* The other operations on a vm's file: ioctl(YAKVM_MMAP_PAGE) through a    *)
(* descriptor, a page fault through a mapping.  Both walk the nested page   *)
(* table of the vm (module NestedPaging) and return.                        *)
yakvm_vm_ioctl_mmap_page(t, v) ==
  /\ vmFile[v].fd
  /\ Enter(t, v, "mmap_page")
  /\ UNCHANGED <<vmVars, vcpuVars, hostVars>>

yakvm_vm_vmm_fault(t, v) ==
  /\ vmFile[v].mapped
  /\ Enter(t, v, "fault")
  /\ UNCHANGED <<vmVars, vcpuVars, hostVars>>

walk_return(t) ==
  /\ At(t, "mmap_page") \/ At(t, "fault")
  /\ Return(t, "none")
  /\ UNCHANGED <<vmVars, vcpuVars, hostVars>>

(* An ioctl on a vcpu's file (module VcpuRun) uses the vcpu and its vm's    *)
(* nested page table until it returns.                                      *)
yakvm_vcpu_ioctl(t, c) ==
  /\ At(t, "idle")
  /\ cpuFile[c].fd
  /\ pc' = [pc EXCEPT ![t] = "vcpu_ioctl"]
  /\ tvcpu' = [tvcpu EXCEPT ![t] = c]
  /\ result' = [result EXCEPT ![t] = "none"]
  /\ UNCHANGED <<tvm, vmVars, vcpuVars, hostVars>>

vcpu_ioctl_return(t) ==
  /\ At(t, "vcpu_ioctl")
  /\ Return(t, "none")
  /\ UNCHANGED <<vmVars, vcpuVars, hostVars>>

(* mmap() of the guest memory and of the vcpu's state page; a mapping keeps *)
(* the file.  munmap() waits for a page fault on the mapping.               *)
yakvm_vm_mmap(v) ==
  /\ ~panicked
  /\ vmFile[v].fd
  /\ ~vmFile[v].mapped
  /\ vmFile' = [vmFile EXCEPT ![v].mapped = TRUE]
  /\ UNCHANGED <<vmLive, refcount, vcpu, lock, vcpuVars, hostVars, threadVars>>

vm_munmap(v) ==
  /\ ~panicked
  /\ vmFile[v].mapped
  /\ ~ \E t \in Threads : pc[t] = "fault" /\ tvm[t] = v
  /\ vmFile' = [vmFile EXCEPT ![v].mapped = FALSE]
  /\ UNCHANGED <<vmLive, refcount, vcpu, lock, vcpuVars, hostVars, threadVars>>

yakvm_vcpu_state_mmap(c) ==
  /\ ~panicked
  /\ cpuFile[c].fd
  /\ ~cpuFile[c].mapped
  /\ cpuFile' = [cpuFile EXCEPT ![c].mapped = TRUE]
  /\ UNCHANGED <<parts, vmOf, asidOf, vmVars, hostVars, threadVars>>

vcpu_munmap(c) ==
  /\ ~panicked
  /\ cpuFile[c].mapped
  /\ cpuFile' = [cpuFile EXCEPT ![c].mapped = FALSE]
  /\ UNCHANGED <<parts, vmOf, asidOf, vmVars, hostVars, threadVars>>

(* close() of the last descriptor, also by the exit of the process.         *)
vm_close(v) ==
  /\ ~panicked
  /\ vmFile[v].fd
  /\ vmFile' = [vmFile EXCEPT ![v].fd = FALSE]
  /\ UNCHANGED <<vmLive, refcount, vcpu, lock, vcpuVars, hostVars, threadVars>>

vcpu_close(c) ==
  /\ ~panicked
  /\ cpuFile[c].fd
  /\ cpuFile' = [cpuFile EXCEPT ![c].fd = FALSE]
  /\ UNCHANGED <<parts, vmOf, asidOf, vmVars, hostVars, threadVars>>

(* ->release: the file is gone and its reference to the vm is dropped.      *)
yakvm_vm_release(v) ==
  /\ ~panicked
  /\ vmFile[v].open
  /\ ~VmFileInUse(v)
  /\ vmFile' = [vmFile EXCEPT ![v] = NoFile]
  /\ yakvm_put_vm(v)
  /\ UNCHANGED <<lock, vmOf, asidOf, cpuFile, hostVars, threadVars>>

(* Mutant: the vcpu's reference is never dropped.                           *)
yakvm_vcpu_release_keeps_vm(c) ==
  /\ ~panicked
  /\ cpuFile[c].open
  /\ ~CpuFileInUse(c)
  /\ cpuFile' = [cpuFile EXCEPT ![c] = NoFile]
  /\ UNCHANGED <<vmVars, parts, vmOf, asidOf, hostVars, threadVars>>

yakvm_vcpu_release(c) ==
  /\ ~panicked
  /\ cpuFile[c].open
  /\ ~CpuFileInUse(c)
  /\ cpuFile' = [cpuFile EXCEPT ![c] = NoFile]
  /\ yakvm_put_vm(vmOf[c])
  /\ UNCHANGED <<lock, vmFile, vmOf, asidOf, hostVars, threadVars>>

-----------------------------------------------------------------------------
(* The steps a thread takes by itself once it is inside a handler.          *)
HandlerStep(t) ==
  \/ vm_getfd(t)
  \/ vm_getfd_fail(t)
  \/ \E c \in Vcpus : create_vcpu_kmalloc(t, c)
  \/ create_vcpu_kmalloc_fail(t)
  \/ create_vcpu_alloc_page(t)
  \/ create_vcpu_alloc_page_fail(t)
  \/ yakvm_vcpu_init_vmcb(t)
  \/ create_vcpu_lock(t)
  \/ create_vcpu_exists(t)
  \/ create_vcpu_check(t)
  \/ create_vcpu_set(t)
  \/ yakvm_get_vm(t)
  \/ create_vcpu_getfd(t)
  \/ create_vcpu_getfd_fail(t)
  \/ create_vcpu_clear(t)
  \/ create_vcpu_put(t)
  \/ create_vcpu_destroy(t)
  \/ walk_return(t)
  \/ vcpu_ioctl_return(t)

(* What user space asks for.                                                *)
UserCall(t) ==
  \/ \E v \in Vms : yakvm_create_vm(t, v)
  \/ yakvm_create_vm_fail(t)
  \/ \E v \in Vms : yakvm_vm_ioctl_create_vcpu(t, v)
  \/ \E v \in Vms : yakvm_vm_ioctl_mmap_page(t, v)
  \/ \E v \in Vms : yakvm_vm_vmm_fault(t, v)
  \/ \E c \in Vcpus : yakvm_vcpu_ioctl(t, c)

UserFileOp ==
  \/ \E v \in Vms : yakvm_vm_mmap(v)
  \/ \E v \in Vms : vm_munmap(v)
  \/ \E v \in Vms : vm_close(v)
  \/ \E c \in Vcpus : yakvm_vcpu_state_mmap(c)
  \/ \E c \in Vcpus : vcpu_munmap(c)
  \/ \E c \in Vcpus : vcpu_close(c)

Release ==
  \/ \E v \in Vms : yakvm_vm_release(v)
  \/ \E c \in Vcpus : yakvm_vcpu_release(c)

(* panic() never returns: the host stays halted.                            *)
Halted ==
  /\ panicked
  /\ UNCHANGED vars

Next ==
  \/ \E t \in Threads : HandlerStep(t) \/ UserCall(t)
  \/ UserFileOp
  \/ Release
  \/ Halted

Spec == Init /\ [][Next]_vars

(* A thread inside the driver is scheduled until its handler returns, and   *)
(* the kernel calls ->release of a file nobody uses any more.  Nothing      *)
(* makes user space call, close or unmap.                                   *)
Fairness ==
  /\ \A t \in Threads : WF_vars(HandlerStep(t))
  /\ \A v \in Vms : WF_vars(yakvm_vm_release(v))
  /\ \A c \in Vcpus : WF_vars(yakvm_vcpu_release(c))

FairSpec == Spec /\ Fairness

-----------------------------------------------------------------------------
(* Thread t is creating the vcpu c.                                         *)
Creating(t, c) == pc[t] \in CreateVcpuSteps /\ tvcpu[t] = c

(* Nothing freed is in use: the object behind an open file is allocated,    *)
(* with the vm a vcpu points to, and so is every object that a running      *)
(* handler (create, page walk, vcpu ioctl) holds a pointer to.              *)
NoUseAfterFree ==
  /\ \A v \in Vms : vmFile[v].open => v \in vmLive
  /\ \A c \in Vcpus :
       cpuFile[c].open => parts[c] = Parts /\ vmOf[c] \in vmLive
  /\ \A v \in vmLive : vcpu[v] # NULL => parts[vcpu[v]] = Parts
  /\ \A t \in Threads :
       /\ pc[t] \in VmSteps \union {"vm_getfd"} => tvm[t] \in vmLive
       /\ pc[t] \in CreateVcpuSteps \ {"alloc"} => parts[tvcpu[t]] = Parts
       /\ pc[t] = "vcpu_ioctl" =>
            parts[tvcpu[t]] = Parts /\ vmOf[tvcpu[t]] \in vmLive

(* vm->refcount is exactly the number of its holders: the vm's file (or the *)
(* ioctl about to install it) and the vcpus whose reference is out, whose   *)
(* file is open or whose creation is between yakvm_get_vm() and             *)
(* yakvm_put_vm().                                                          *)
HoldsVm(c) ==
  \/ cpuFile[c].open
  \/ \E t \in Threads : pc[t] \in {"getfd", "clear", "put"} /\ tvcpu[t] = c

FileHoldsVm(v) ==
  \/ vmFile[v].open
  \/ \E t \in Threads : pc[t] = "vm_getfd" /\ tvm[t] = v

RefcountExact ==
  \A v \in vmLive :
    refcount[v] = (IF FileHoldsVm(v) THEN 1 ELSE 0)
                  + Cardinality({c \in Vcpus : HoldsVm(c) /\ vmOf[c] = v})

(* Nothing is leaked: an allocated vm still has a holder whose release will *)
(* free it, and an allocated part of a vcpu belongs to a vcpu that a thread *)
(* is creating or that yakvm_destroy_vm() will find in vm->vcpu.            *)
NoLeak ==
  /\ \A v \in vmLive :
       FileHoldsVm(v) \/ \E c \in Vcpus : HoldsVm(c) /\ vmOf[c] = v
  /\ \A c \in Vcpus : parts[c] # {} =>
       (\E t \in Threads : Creating(t, c)) \/ \E v \in vmLive : vcpu[v] = c

(* A vm never has two usable vcpus, and the usable one is vm->vcpu.         *)
OneVcpuPerVm ==
  \A c \in Vcpus : cpuFile[c].open => vcpu[vmOf[c]] = c

(* Vcpus that exist at the same time have different ASIDs, and ASID 0,      *)
(* which is the host's, is nobody's: the translations of different guests   *)
(* stay apart in the TLB.                                                   *)
AsidUnique ==
  \A c, d \in Vcpus :
    /\ parts[c] = Parts /\ vmOf[c] # NULL
    /\ parts[d] = Parts /\ vmOf[d] # NULL
    => asidOf[c] # 0 /\ (asidOf[c] = asidOf[d] => c = d)

(* Once its creation has succeeded, a vcpu stays in vm->vcpu for as long as *)
(* the vm exists, also after its descriptor is closed: a later              *)
(* YAKVM_CREATE_VCPU can never replace it.                                  *)
VcpuForGood ==
  [][\A v \in vmLive \cap vmLive' :
       (vcpu[v] # NULL /\ ~ \E t \in Threads : Creating(t, vcpu[v]))
         => vcpu'[v] = vcpu[v]]_vars

(* A handler that entered the driver returns, or the host panics: nobody    *)
(* waits for vm->lock forever.                                              *)
HandlersReturn ==
  \A t \in Threads : pc[t] # "idle" ~> (pc[t] = "idle" \/ panicked)

(* A vm that user space can no longer reach is destroyed with its vcpu.     *)
Abandoned(v) ==
  /\ v \in vmLive
  /\ ~vmFile[v].fd /\ ~vmFile[v].mapped
  /\ \A c \in Vcpus : vmOf[c] = v => ~cpuFile[c].fd /\ ~cpuFile[c].mapped
  /\ ~ \E t \in Threads :
         pc[t] \in CreateVcpuSteps \union {"create_vcpu", "vm_getfd"} /\ tvm[t] = v

AbandonedVmDestroyed ==
  \A v \in Vms : Abandoned(v) ~> (v \notin vmLive \/ panicked)

-----------------------------------------------------------------------------
(* The refinement of VmContract.  A vm exists for the outside once its file *)
(* is installed, and a vcpu once its own is.                                *)
Private == {tvm[t] : t \in {u \in Threads : pc[u] = "vm_getfd"}}

VcpuFile(v) ==
  IF \E c \in Vcpus : cpuFile[c].open /\ vmOf[c] = v THEN "open"
  ELSE IF vcpu[v] # NULL /\ ~ \E t \in Threads : Creating(t, vcpu[v])
    THEN "closed"
    ELSE "none"

Contract == INSTANCE VmContract WITH
  live <- vmLive \ Private,
  vmFile <- {v \in Vms : vmFile[v].open},
  cpuFile <- [v \in Vms |-> VcpuFile(v)]

(* The driver keeps the contract of VmContract under every interleaving of  *)
(* creations, failures and closes: no step destroys a vm or a vcpu early,   *)
(* keeps one after its last file, or lets a second vcpu appear, even for a  *)
(* moment.                                                                  *)
ImplementsContract == Contract!Spec
=============================================================================
