-------------------------- MODULE VmLifetimeProofs --------------------------
(***************************************************************************)
(* The invariants of VmLifetime, proved for any number of vms, vcpus and   *)
(* threads.                                                                *)
(***************************************************************************)
EXTENDS VmLifetime, FiniteSetTheorems, TLAPS

-----------------------------------------------------------------------------
(* The inductive invariant.                                                 *)

(* An open vm file, a descriptor or mapping of it, and a handler that runs  *)
(* on it keep the vm allocated; until its descriptor is installed, a new vm *)
(* belongs to one thread and has neither file nor vcpu.                     *)
VmFilesOK ==
  /\ \A v \in Vms :
       /\ vmFile[v].fd \/ vmFile[v].mapped => vmFile[v].open
       /\ vmFile[v].open => v \in vmLive
  /\ \A t \in Threads : pc[t] \in VmSteps => tvm[t] \in Vms /\ vmFile[tvm[t]].open
  /\ \A t \in Threads :
       pc[t] = "vm_getfd" =>
         tvm[t] \in vmLive /\ ~vmFile[tvm[t]].open /\ vcpu[tvm[t]] = NULL
  /\ \A t, u \in Threads :
       pc[t] = "vm_getfd" /\ pc[u] = "vm_getfd" /\ tvm[t] = tvm[u] => t = u

(* The same for vcpus: the vcpu behind an open file is whole, belongs to an *)
(* allocated vm, is published there and nobody is creating it any more.     *)
CpuFilesOK ==
  /\ \A c \in Vcpus :
       /\ cpuFile[c].fd \/ cpuFile[c].mapped => cpuFile[c].open
       /\ cpuFile[c].open =>
            /\ parts[c] = Parts
            /\ vmOf[c] \in vmLive
            /\ vcpu[vmOf[c]] = c
  /\ \A c \in Vcpus, t \in Threads : cpuFile[c].open => ~Creating(t, c)
  /\ \A t \in Threads :
       pc[t] = "vcpu_ioctl" => tvcpu[t] \in Vcpus /\ cpuFile[tvcpu[t]].open

(* What a thread that is creating a vcpu has made of it so far.             *)
CreatingOK ==
  /\ \A t \in Threads :
       /\ pc[t] \in CreateVcpuSteps => tvcpu[t] \in Vcpus
       /\ pc[t] = "alloc" =>
            /\ 1 \in parts[tvcpu[t]] /\ 6 \notin parts[tvcpu[t]]
            /\ \A j, k \in Parts : k \in parts[tvcpu[t]] /\ j < k => j \in parts[tvcpu[t]]
       /\ pc[t] \in CreateVcpuSteps \ {"alloc"} => parts[tvcpu[t]] = Parts
       /\ pc[t] \in {"alloc", "init"} => vmOf[tvcpu[t]] = NULL
       /\ pc[t] \in CreateVcpuSteps \ {"alloc", "init"} => vmOf[tvcpu[t]] = tvm[t]
       /\ pc[t] \in {"get", "getfd", "clear"} => vcpu[tvm[t]] = tvcpu[t]
       /\ pc[t] = "set" => vcpu[tvm[t]] = NULL
  /\ \A t, u \in Threads :
       /\ pc[t] \in CreateVcpuSteps /\ pc[u] \in CreateVcpuSteps
       /\ tvcpu[t] = tvcpu[u]
       => t = u

(* vm->vcpu is a whole vcpu that points back, and one under creation is     *)
(* there only between its publication and its withdrawal.                   *)
VcpuOK ==
  /\ \A v \in Vms :
       /\ v \notin vmLive => vcpu[v] = NULL
       /\ vcpu[v] # NULL => parts[vcpu[v]] = Parts /\ vmOf[vcpu[v]] = v
  /\ \A v \in Vms, t \in Threads :
       pc[t] \in CreateVcpuSteps /\ vcpu[v] = tvcpu[t] =>
         pc[t] \in {"get", "getfd", "clear"}

(* vm->lock serialises the test of vm->vcpu with its assignment.            *)
LockOK == \A t \in Threads : pc[t] \in {"check", "set"} => lock[tvm[t]] = t

(* A vm exists as long as its count is positive.                            *)
Holders(v) == {c \in Vcpus : HoldsVm(c) /\ vmOf[c] = v}

RefOK ==
  \A v \in vmLive :
    /\ refcount[v] # 0
    /\ refcount[v] = (IF FileHoldsVm(v) THEN 1 ELSE 0) + Cardinality(Holders(v))

(* The counter is ahead of every ASID in use.                               *)
AsidOK ==
  /\ asid # 0
  /\ \A c \in Vcpus :
       parts[c] = Parts /\ vmOf[c] # NULL => asidOf[c] # 0 /\ asidOf[c] <= asid
  /\ \A c, d \in Vcpus :
       /\ parts[c] = Parts /\ vmOf[c] # NULL
       /\ parts[d] = Parts /\ vmOf[d] # NULL
       /\ asidOf[c] = asidOf[d]
       => c = d

(* Every allocation of a vcpu has an owner.                                 *)
OwnedOK ==
  \A c \in Vcpus :
    parts[c] # {} => (\E t \in Threads : Creating(t, c)) \/ \E v \in Vms : vcpu[v] = c

IInv ==
  /\ TypeOK
  /\ VmFilesOK
  /\ CpuFilesOK
  /\ CreatingOK
  /\ VcpuOK
  /\ LockOK
  /\ RefOK
  /\ AsidOK
  /\ OwnedOK

(* The number of holders of a vm is a natural number, and changes by one    *)
(* with a member.                                                           *)
LEMMA HoldersCount ==
  ASSUME NEW v
  PROVE  /\ IsFiniteSet(Holders(v))
         /\ Cardinality(Holders(v)) \in Nat
         /\ Cardinality(Holders(v)) = 0 <=> Holders(v) = {}
         /\ \A c \in Holders(v) :
              Cardinality(Holders(v) \ {c}) = Cardinality(Holders(v)) - 1
         /\ \A c : c \notin Holders(v) =>
              Cardinality(Holders(v) \union {c}) = Cardinality(Holders(v)) + 1
<1>1. IsFiniteSet(Holders(v))
  BY ConstantsAssumption, FS_Subset DEF Holders
<1> QED
  BY <1>1, FS_CardinalityType, FS_EmptySet, FS_AddElement, FS_RemoveElement

(* A step that changes neither a count nor a holder keeps the counts exact. *)
LEMMA RefFrame ==
  ASSUME RefOK, vmLive' = vmLive, refcount' = refcount,
         \A d \in Vcpus :
           (HoldsVm(d)' <=> HoldsVm(d)) /\ (HoldsVm(d) => vmOf'[d] = vmOf[d]),
         \A w \in vmLive : FileHoldsVm(w)' <=> FileHoldsVm(w)
  PROVE  RefOK'
<1>1. \A w \in vmLive : Holders(w)' = Holders(w)
  BY DEF Holders
<1> QED BY <1>1 DEF RefOK

(* mmap(), munmap() and close() change one field of a file.                 *)
LEMMA FileUpdate ==
  ASSUME NEW f \in File, NEW b \in BOOLEAN
  PROVE  [f EXCEPT !.fd = b] \in File /\ [f EXCEPT !.mapped = b] \in File
BY DEF File

(* mmap(), munmap() and close() of a vm file.                               *)
LEMMA VmFileOpStep ==
  ASSUME IInv, NEW v \in Vms,
         yakvm_vm_mmap(v) \/ vm_munmap(v) \/ vm_close(v)
  PROVE  IInv'
<1>1. TypeOK'
  <2>1. vmFile' \in [Vms -> File]
    <3>1. vmFile \in [Vms -> File] /\ vmFile[v] \in File
      BY DEF IInv, TypeOK
    <3>2. \E f \in File : vmFile' = [vmFile EXCEPT ![v] = f]
      BY <3>1, FileUpdate DEF yakvm_vm_mmap, vm_munmap, vm_close
    <3> QED BY <3>1, <3>2
  <2> QED
    BY <2>1 DEF IInv, TypeOK, yakvm_vm_mmap, vm_munmap, vm_close, vcpuVars,
       hostVars, threadVars
<1>2. VmFilesOK'
  <2>1. CASE yakvm_vm_mmap(v)
    BY <2>1 DEF IInv, VmFilesOK, CreateVcpuSteps, vcpuVars, hostVars,
       yakvm_vm_mmap, threadVars
  <2>2. CASE vm_munmap(v)
    BY <2>2 DEF IInv, VmFilesOK, CreateVcpuSteps, vcpuVars, hostVars, vm_munmap,
       threadVars
  <2>3. CASE vm_close(v)
    BY <2>3 DEF IInv, VmFilesOK, CreateVcpuSteps, vcpuVars, hostVars, vm_close,
       threadVars
  <2> QED BY <2>1, <2>2, <2>3
<1>3. CpuFilesOK'
  BY DEF IInv, CpuFilesOK, Creating, CreateVcpuSteps, yakvm_vm_mmap, vcpuVars,
     hostVars, threadVars, vm_munmap, vm_close
<1>4. CreatingOK'
  BY DEF IInv, CreatingOK, CreateVcpuSteps, yakvm_vm_mmap, vcpuVars, hostVars,
     threadVars, vm_munmap, vm_close
<1>5. VcpuOK'
  BY DEF IInv, VcpuOK, CreateVcpuSteps, yakvm_vm_mmap, vcpuVars, hostVars,
     threadVars, vm_munmap, vm_close
<1>6. LockOK'
  BY DEF IInv, LockOK, yakvm_vm_mmap, vcpuVars, hostVars, threadVars, vm_munmap,
     vm_close
<1>7. AsidOK'
  BY DEF IInv, AsidOK, yakvm_vm_mmap, vcpuVars, hostVars, threadVars, vm_munmap,
     vm_close
<1>8. OwnedOK'
  BY DEF IInv, OwnedOK, Creating, CreateVcpuSteps, yakvm_vm_mmap, vcpuVars,
     hostVars, threadVars, vm_munmap, vm_close
<1>9. RefOK'
  <2>1. \A d \in Vcpus :
           (HoldsVm(d)' <=> HoldsVm(d)) /\ (HoldsVm(d) => vmOf'[d] = vmOf[d])
    BY DEF IInv, HoldsVm, yakvm_vm_mmap, vcpuVars, hostVars, threadVars,
       vm_munmap, vm_close
  <2>2. \A w \in vmLive : FileHoldsVm(w)' <=> FileHoldsVm(w)
    BY SMTT(30)
    DEF IInv, TypeOK, FileHoldsVm, vcpuVars, hostVars, File, Parts, Steps,
       VmSteps, CreateVcpuSteps, Results, yakvm_vm_mmap, threadVars, vm_munmap,
       vm_close
  <2> QED BY <2>1, <2>2, RefFrame DEF IInv, yakvm_vm_mmap, vm_munmap, vm_close
<1> QED BY <1>1, <1>2, <1>3, <1>4, <1>5, <1>6, <1>7, <1>8, <1>9 DEF IInv

(* mmap(), munmap() and close() of a vcpu file.                             *)
LEMMA VcpuFileOpStep ==
  ASSUME IInv, NEW c \in Vcpus,
         yakvm_vcpu_state_mmap(c) \/ vcpu_munmap(c) \/ vcpu_close(c)
  PROVE  IInv'
<1>1. TypeOK'
  <2>1. cpuFile' \in [Vcpus -> File]
    <3>1. cpuFile \in [Vcpus -> File] /\ cpuFile[c] \in File
      BY DEF IInv, TypeOK
    <3>2. \E f \in File : cpuFile' = [cpuFile EXCEPT ![c] = f]
      BY <3>1, FileUpdate DEF yakvm_vcpu_state_mmap, vcpu_munmap, vcpu_close
    <3> QED BY <3>1, <3>2
  <2> QED
    BY <2>1 DEF IInv, TypeOK, yakvm_vcpu_state_mmap, vcpu_munmap, vcpu_close,
       vmVars, hostVars, threadVars
<1>2. VmFilesOK'
  BY DEF IInv, VmFilesOK, CreateVcpuSteps, hostVars, yakvm_vcpu_state_mmap,
     vmVars, threadVars, vcpu_munmap, vcpu_close
<1>3. CpuFilesOK'
  <2>1. CASE yakvm_vcpu_state_mmap(c)
    BY <2>1 DEF IInv, CpuFilesOK, Creating, CreateVcpuSteps,
       yakvm_vcpu_state_mmap, vmVars, hostVars, threadVars
  <2>2. CASE vcpu_munmap(c)
    BY <2>2 DEF IInv, CpuFilesOK, Creating, CreateVcpuSteps, vcpu_munmap,
       vmVars, hostVars, threadVars
  <2>3. CASE vcpu_close(c)
    BY <2>3 DEF IInv, CpuFilesOK, Creating, CreateVcpuSteps, vcpu_close, vmVars,
       hostVars, threadVars
  <2> QED BY <2>1, <2>2, <2>3
<1>4. CreatingOK'
  BY DEF IInv, CreatingOK, CreateVcpuSteps, yakvm_vcpu_state_mmap, vmVars,
     hostVars, threadVars, vcpu_munmap, vcpu_close
<1>5. VcpuOK'
  BY DEF IInv, VcpuOK, CreateVcpuSteps, yakvm_vcpu_state_mmap, vmVars, hostVars,
     threadVars, vcpu_munmap, vcpu_close
<1>6. LockOK'
  BY DEF IInv, LockOK, yakvm_vcpu_state_mmap, vmVars, hostVars, threadVars,
     vcpu_munmap, vcpu_close
<1>7. AsidOK'
  BY DEF IInv, AsidOK, yakvm_vcpu_state_mmap, vmVars, hostVars, threadVars,
     vcpu_munmap, vcpu_close
<1>8. OwnedOK'
  BY DEF IInv, OwnedOK, Creating, CreateVcpuSteps, yakvm_vcpu_state_mmap,
     vmVars, hostVars, threadVars, vcpu_munmap, vcpu_close
<1>9. RefOK'
  <2>1. \A d \in Vcpus :
           (HoldsVm(d)' <=> HoldsVm(d)) /\ (HoldsVm(d) => vmOf'[d] = vmOf[d])
    BY DEF IInv, TypeOK, HoldsVm, File, Parts, Steps, VmSteps, CreateVcpuSteps,
       hostVars, Results, yakvm_vcpu_state_mmap, vmVars, threadVars,
       vcpu_munmap, vcpu_close
  <2>2. \A w \in vmLive : FileHoldsVm(w)' <=> FileHoldsVm(w)
    BY DEF IInv, FileHoldsVm, hostVars, yakvm_vcpu_state_mmap, vmVars,
       threadVars, vcpu_munmap, vcpu_close
  <2> QED BY <2>1, <2>2, RefFrame DEF IInv, yakvm_vcpu_state_mmap, vcpu_munmap,
      vcpu_close, vmVars
<1> QED BY <1>1, <1>2, <1>3, <1>4, <1>5, <1>6, <1>7, <1>8, <1>9 DEF IInv

(* A call enters a handler on a vm file.                                    *)
LEMMA EnterVmStep ==
  ASSUME IInv, NEW t \in Threads, NEW v \in Vms,
         yakvm_vm_ioctl_create_vcpu(t, v) \/ yakvm_vm_ioctl_mmap_page(t, v) \/ yakvm_vm_vmm_fault(t, v)
  PROVE  IInv'
<1>1. TypeOK'
  <2>1. CASE yakvm_vm_ioctl_create_vcpu(t, v)
    BY <2>1 DEF IInv, TypeOK, File, Parts, Steps, VmSteps, CreateVcpuSteps, At,
       vcpuVars, hostVars, Results, yakvm_vm_ioctl_create_vcpu, Enter, vmVars
  <2>2. CASE yakvm_vm_ioctl_mmap_page(t, v)
    BY <2>2 DEF IInv, TypeOK, File, Parts, Steps, VmSteps, CreateVcpuSteps, At,
       vcpuVars, hostVars, Results, yakvm_vm_ioctl_mmap_page, Enter, vmVars
  <2>3. CASE yakvm_vm_vmm_fault(t, v)
    BY <2>3 DEF IInv, TypeOK, File, Parts, Steps, VmSteps, CreateVcpuSteps, At,
       vcpuVars, hostVars, Results, yakvm_vm_vmm_fault, Enter, vmVars
  <2> QED BY <2>1, <2>2, <2>3
<1>2. VmFilesOK'
  <2>1. CASE yakvm_vm_ioctl_create_vcpu(t, v)
    BY <2>1 DEF IInv, VmFilesOK, TypeOK, CreateVcpuSteps, At, vcpuVars,
       hostVars, yakvm_vm_ioctl_create_vcpu, Enter, vmVars
  <2>2. CASE yakvm_vm_ioctl_mmap_page(t, v)
    BY <2>2 DEF IInv, VmFilesOK, TypeOK, CreateVcpuSteps, At, vcpuVars,
       hostVars, yakvm_vm_ioctl_mmap_page, Enter, vmVars
  <2>3. CASE yakvm_vm_vmm_fault(t, v)
    BY <2>3 DEF IInv, VmFilesOK, TypeOK, CreateVcpuSteps, At, vcpuVars,
       hostVars, yakvm_vm_vmm_fault, Enter, vmVars
  <2> QED BY <2>1, <2>2, <2>3
<1>3. CpuFilesOK'
  BY DEF IInv, CpuFilesOK, TypeOK, Creating, CreateVcpuSteps, At, vcpuVars,
     hostVars, yakvm_vm_ioctl_create_vcpu, Enter, vmVars,
     yakvm_vm_ioctl_mmap_page, yakvm_vm_vmm_fault
<1>4. CreatingOK'
  <2>1. CASE yakvm_vm_ioctl_create_vcpu(t, v)
    BY <2>1 DEF IInv, CreatingOK, CreateVcpuSteps, yakvm_vm_ioctl_create_vcpu,
       Enter, At, vmVars, vcpuVars, hostVars
  <2>2. CASE yakvm_vm_ioctl_mmap_page(t, v)
    BY <2>2 DEF IInv, CreatingOK, CreateVcpuSteps, yakvm_vm_ioctl_mmap_page,
       Enter, At, vmVars, vcpuVars, hostVars
  <2>3. CASE yakvm_vm_vmm_fault(t, v)
    BY <2>3 DEF IInv, CreatingOK, CreateVcpuSteps, yakvm_vm_vmm_fault, Enter,
       At, vmVars, vcpuVars, hostVars
  <2> QED BY <2>1, <2>2, <2>3
<1>5. VcpuOK'
  BY ConstantsAssumption, SMTT(30) DEF IInv, VcpuOK, TypeOK, VmFilesOK,
     CreateVcpuSteps, At, vcpuVars, hostVars, yakvm_vm_ioctl_create_vcpu, Enter,
     vmVars, yakvm_vm_ioctl_mmap_page, yakvm_vm_vmm_fault
<1>6. LockOK'
  BY DEF IInv, LockOK, TypeOK, CreateVcpuSteps, At, vcpuVars, hostVars,
     yakvm_vm_ioctl_create_vcpu, Enter, vmVars, yakvm_vm_ioctl_mmap_page,
     yakvm_vm_vmm_fault
<1>7. AsidOK'
  BY DEF IInv, AsidOK, yakvm_vm_ioctl_create_vcpu, Enter, At, vmVars, vcpuVars,
     hostVars, yakvm_vm_ioctl_mmap_page, yakvm_vm_vmm_fault
<1>8. OwnedOK'
  BY DEF IInv, OwnedOK, TypeOK, Creating, CreateVcpuSteps, At, vcpuVars,
     hostVars, yakvm_vm_ioctl_create_vcpu, Enter, vmVars,
     yakvm_vm_ioctl_mmap_page, yakvm_vm_vmm_fault
<1>9. RefOK'
  <2>1. \A d \in Vcpus :
           (HoldsVm(d)' <=> HoldsVm(d)) /\ (HoldsVm(d) => vmOf'[d] = vmOf[d])
    BY DEF IInv, TypeOK, HoldsVm, File, Parts, Steps, VmSteps, CreateVcpuSteps,
       At, vcpuVars, hostVars, Results, yakvm_vm_ioctl_create_vcpu, Enter,
       vmVars, yakvm_vm_ioctl_mmap_page, yakvm_vm_vmm_fault
  <2>2. \A w \in vmLive : FileHoldsVm(w)' <=> FileHoldsVm(w)
    BY ConstantsAssumption, SMTT(30) DEF IInv, TypeOK, VmFilesOK, FileHoldsVm,
       At, vcpuVars, hostVars, CreateVcpuSteps, yakvm_vm_ioctl_create_vcpu,
       Enter, vmVars, yakvm_vm_ioctl_mmap_page, yakvm_vm_vmm_fault
  <2> QED BY <2>1, <2>2, RefFrame DEF IInv, yakvm_vm_ioctl_create_vcpu,
      yakvm_vm_ioctl_mmap_page, yakvm_vm_vmm_fault, vmVars, Enter
<1> QED BY <1>1, <1>2, <1>3, <1>4, <1>5, <1>6, <1>7, <1>8, <1>9 DEF IInv

(* A handler returns and leaves everything as it is.                        *)
LEMMA ReturnStep ==
  ASSUME IInv, NEW t \in Threads,
         yakvm_create_vm_fail(t) \/ create_vcpu_kmalloc_fail(t) \/ walk_return(t) \/ vcpu_ioctl_return(t)
  PROVE  IInv'
<1>1. TypeOK'
  <2>1. CASE yakvm_create_vm_fail(t)
    BY <2>1 DEF IInv, TypeOK, File, Parts, Steps, VmSteps, CreateVcpuSteps, At,
       vcpuVars, hostVars, Results, yakvm_create_vm_fail, vmVars
  <2>2. CASE create_vcpu_kmalloc_fail(t)
    BY <2>2 DEF IInv, TypeOK, File, Parts, Steps, VmSteps, CreateVcpuSteps, At,
       Return, vcpuVars, hostVars, Results, create_vcpu_kmalloc_fail, PtrErrVm,
       vmVars
  <2>3. CASE walk_return(t)
    BY <2>3 DEF IInv, TypeOK, File, Parts, Steps, VmSteps, CreateVcpuSteps, At,
       Return, vcpuVars, hostVars, Results, walk_return, vmVars
  <2>4. CASE vcpu_ioctl_return(t)
    BY <2>4 DEF IInv, TypeOK, File, Parts, Steps, VmSteps, CreateVcpuSteps, At,
       Return, vcpuVars, hostVars, Results, vcpu_ioctl_return, vmVars
  <2> QED BY <2>1, <2>2, <2>3, <2>4
<1>2. VmFilesOK'
  <2>1. CASE yakvm_create_vm_fail(t)
    BY <2>1 DEF IInv, VmFilesOK, CreateVcpuSteps, At, vcpuVars, hostVars,
       yakvm_create_vm_fail, vmVars
  <2>2. CASE create_vcpu_kmalloc_fail(t)
    BY <2>2 DEF IInv, VmFilesOK, TypeOK, VmSteps, CreateVcpuSteps, At, Return,
       vcpuVars, hostVars, Parts, create_vcpu_kmalloc_fail, PtrErrVm, vmVars
  <2>3. CASE walk_return(t)
    BY <2>3 DEF IInv, VmFilesOK, TypeOK, VmSteps, CreateVcpuSteps, At, Return,
       vcpuVars, hostVars, Parts, walk_return, vmVars
  <2>4. CASE vcpu_ioctl_return(t)
    BY <2>4 DEF IInv, VmFilesOK, VmSteps, CreateVcpuSteps, At, Return, vcpuVars,
       hostVars, vcpu_ioctl_return, vmVars
  <2> QED BY <2>1, <2>2, <2>3, <2>4
<1>3. CpuFilesOK'
  <2>1. CASE yakvm_create_vm_fail(t)
    BY <2>1 DEF IInv, CpuFilesOK, Creating, CreateVcpuSteps,
       yakvm_create_vm_fail, At, vmVars, vcpuVars, hostVars
  <2>2. CASE create_vcpu_kmalloc_fail(t)
    BY <2>2 DEF IInv, CpuFilesOK, Creating, CreateVcpuSteps,
       create_vcpu_kmalloc_fail, At, PtrErrVm, Return, vmVars, vcpuVars,
       hostVars
  <2>3. CASE walk_return(t)
    BY <2>3 DEF IInv, CpuFilesOK, Creating, CreateVcpuSteps, walk_return, At,
       Return, vmVars, vcpuVars, hostVars
  <2>4. CASE vcpu_ioctl_return(t)
    BY <2>4 DEF IInv, CpuFilesOK, TypeOK, Creating, CreateVcpuSteps, At, Return,
       vcpuVars, hostVars, vcpu_ioctl_return, vmVars
  <2> QED BY <2>1, <2>2, <2>3, <2>4
<1>4. CreatingOK'
  BY ConstantsAssumption, SMTT(90) DEF IInv, CreatingOK, TypeOK, VmFilesOK,
     CpuFilesOK, VcpuOK, LockOK, OwnedOK, AsidOK, CreateVcpuSteps, At, Return,
     vcpuVars, hostVars, Creating, yakvm_create_vm_fail, vmVars,
     create_vcpu_kmalloc_fail, PtrErrVm, walk_return, vcpu_ioctl_return
<1>5. VcpuOK'
  BY DEF IInv, VcpuOK, TypeOK, CreateVcpuSteps, At, Return, vcpuVars, hostVars,
     yakvm_create_vm_fail, vmVars, create_vcpu_kmalloc_fail, PtrErrVm,
     walk_return, vcpu_ioctl_return
<1>6. LockOK'
  BY DEF IInv, LockOK, TypeOK, CreateVcpuSteps, At, Return, vcpuVars, hostVars,
     yakvm_create_vm_fail, vmVars, create_vcpu_kmalloc_fail, PtrErrVm,
     walk_return, vcpu_ioctl_return
<1>7. AsidOK'
  BY DEF IInv, AsidOK, yakvm_create_vm_fail, At, vmVars, vcpuVars, hostVars,
     create_vcpu_kmalloc_fail, PtrErrVm, Return, walk_return, vcpu_ioctl_return
<1>8. OwnedOK'
  BY DEF IInv, OwnedOK, TypeOK, Creating, CreateVcpuSteps, At, Return, vcpuVars,
     hostVars, yakvm_create_vm_fail, vmVars, create_vcpu_kmalloc_fail, PtrErrVm,
     walk_return, vcpu_ioctl_return
<1>9. RefOK'
  <2>1. \A d \in Vcpus :
           (HoldsVm(d)' <=> HoldsVm(d)) /\ (HoldsVm(d) => vmOf'[d] = vmOf[d])
    BY DEF IInv, TypeOK, HoldsVm, File, Parts, Steps, VmSteps, CreateVcpuSteps,
       At, Return, vcpuVars, hostVars, Results, yakvm_create_vm_fail, vmVars,
       create_vcpu_kmalloc_fail, PtrErrVm, walk_return, vcpu_ioctl_return
  <2>2. \A w \in vmLive : FileHoldsVm(w)' <=> FileHoldsVm(w)
    BY DEF IInv, TypeOK, FileHoldsVm, At, Return, vcpuVars, hostVars, File,
       Parts, Steps, VmSteps, CreateVcpuSteps, Results, yakvm_create_vm_fail,
       vmVars, create_vcpu_kmalloc_fail, PtrErrVm, walk_return,
       vcpu_ioctl_return
  <2> QED BY <2>1, <2>2, RefFrame DEF IInv, yakvm_create_vm_fail,
      create_vcpu_kmalloc_fail, walk_return, vcpu_ioctl_return, vmVars, Return
<1> QED BY <1>1, <1>2, <1>3, <1>4, <1>5, <1>6, <1>7, <1>8, <1>9 DEF IInv

(* A call enters the ioctl handler of a vcpu file.                          *)
LEMMA VcpuIoctlStep ==
  ASSUME IInv, NEW t \in Threads, NEW c \in Vcpus,
         yakvm_vcpu_ioctl(t, c)
  PROVE  IInv'
<1>1. TypeOK'
  BY DEF IInv, TypeOK, File, Parts, Steps, VmSteps, CreateVcpuSteps, At,
     vcpuVars, hostVars, Results, yakvm_vcpu_ioctl, vmVars
<1>2. VmFilesOK'
  BY DEF IInv, VmFilesOK, VmSteps, CreateVcpuSteps, At, vcpuVars, hostVars,
     yakvm_vcpu_ioctl, vmVars
<1>3. CpuFilesOK'
  BY DEF IInv, CpuFilesOK, TypeOK, Creating, CreateVcpuSteps, At, vcpuVars,
     hostVars, yakvm_vcpu_ioctl, vmVars
<1>4. CreatingOK'
  BY DEF IInv, CreatingOK, CreateVcpuSteps, yakvm_vcpu_ioctl, At, vmVars,
     vcpuVars, hostVars
<1>5. VcpuOK'
  BY DEF IInv, VcpuOK, CreateVcpuSteps, yakvm_vcpu_ioctl, At, vmVars, vcpuVars,
     hostVars
<1>6. LockOK'
  BY DEF IInv, LockOK, yakvm_vcpu_ioctl, At, vmVars, vcpuVars, hostVars
<1>7. AsidOK'
  BY DEF IInv, AsidOK, yakvm_vcpu_ioctl, At, vmVars, vcpuVars, hostVars
<1>8. OwnedOK'
  BY DEF IInv, OwnedOK, Creating, CreateVcpuSteps, yakvm_vcpu_ioctl, At, vmVars,
     vcpuVars, hostVars
<1>9. RefOK'
  <2>1. \A d \in Vcpus :
           (HoldsVm(d)' <=> HoldsVm(d)) /\ (HoldsVm(d) => vmOf'[d] = vmOf[d])
    BY DEF IInv, HoldsVm, yakvm_vcpu_ioctl, At, vmVars, vcpuVars, hostVars
  <2>2. \A w \in vmLive : FileHoldsVm(w)' <=> FileHoldsVm(w)
    BY DEF IInv, FileHoldsVm, At, vcpuVars, hostVars, yakvm_vcpu_ioctl, vmVars
  <2> QED BY <2>1, <2>2, RefFrame DEF IInv, yakvm_vcpu_ioctl, vmVars
<1> QED BY <1>1, <1>2, <1>3, <1>4, <1>5, <1>6, <1>7, <1>8, <1>9 DEF IInv

(* YAKVM_CREATE_VM allocates a vm.                                          *)
LEMMA CreateVmStep ==
  ASSUME IInv, NEW t \in Threads, NEW v \in Vms,
         yakvm_create_vm(t, v)
  PROVE  IInv'
<1>1. TypeOK'
  BY DEF IInv, TypeOK, File, Parts, Steps, VmSteps, CreateVcpuSteps, At,
     vcpuVars, hostVars, Results, yakvm_create_vm, Enter
<1>2. VmFilesOK'
  BY DEF IInv, VmFilesOK, TypeOK, VmSteps, CreateVcpuSteps, At, vcpuVars,
     hostVars, Parts, yakvm_create_vm, Enter
<1>3. CpuFilesOK'
  BY DEF IInv, CpuFilesOK, Creating, CreateVcpuSteps, yakvm_create_vm, Enter,
     At, vcpuVars, hostVars
<1>4. CreatingOK'
  BY ConstantsAssumption, SMTT(30) DEF IInv, CreatingOK, TypeOK, VmFilesOK,
     CreateVcpuSteps, Parts, VmSteps, At, vcpuVars, hostVars, yakvm_create_vm,
     Enter
<1>5. VcpuOK'
  BY DEF IInv, VcpuOK, CreateVcpuSteps, yakvm_create_vm, Enter, At, vcpuVars,
     hostVars
<1>6. LockOK'
  BY ConstantsAssumption, SMTT(30) DEF IInv, LockOK, TypeOK, VmFilesOK, Parts,
     VmSteps, CreateVcpuSteps, At, vcpuVars, hostVars, yakvm_create_vm, Enter
<1>7. AsidOK'
  BY DEF IInv, AsidOK, yakvm_create_vm, Enter, At, vcpuVars, hostVars
<1>8. OwnedOK'
  BY ConstantsAssumption, SMTT(30) DEF IInv, OwnedOK, TypeOK, VcpuOK, Creating,
     CreateVcpuSteps, At, vcpuVars, hostVars, yakvm_create_vm, Enter
<1>9. RefOK'
  <2>1. \A d \in Vcpus : HoldsVm(d) => vmOf[d] \in vmLive
    BY DEF IInv, VmFilesOK, CpuFilesOK, CreatingOK, HoldsVm, CreateVcpuSteps,
       VmSteps
  <2>2. \A w : Holders(w)' = Holders(w)
    BY DEF IInv, TypeOK, Holders, HoldsVm, yakvm_create_vm, Enter, At, vcpuVars
  <2>3. \A w \in vmLive : FileHoldsVm(w)' <=> FileHoldsVm(w)
    BY DEF IInv, TypeOK, FileHoldsVm, yakvm_create_vm, Enter, At
  <2>4. FileHoldsVm(v)'
    BY DEF IInv, TypeOK, FileHoldsVm, yakvm_create_vm, Enter
  <2>5. Holders(v) = {}
    BY <2>1 DEF Holders, yakvm_create_vm
  <2>6. Cardinality(Holders(v)) = 0
    BY <2>5, HoldersCount
  <2>7. vmLive' = vmLive \union {v} /\ refcount' = [refcount EXCEPT ![v] = 1]
    BY DEF yakvm_create_vm
  <2> QED
    BY <2>2, <2>3, <2>4, <2>6, <2>7 DEF IInv, TypeOK, RefOK, yakvm_create_vm
<1> QED BY <1>1, <1>2, <1>3, <1>4, <1>5, <1>6, <1>7, <1>8, <1>9 DEF IInv

(* Its descriptor is installed.                                             *)
LEMMA VmGetfdStep ==
  ASSUME IInv, NEW t \in Threads,
         vm_getfd(t)
  PROVE  IInv'
<1>1. TypeOK'
  BY ConstantsAssumption, SMTT(30) DEF IInv, TypeOK, VmFilesOK, File, Parts,
     Steps, VmSteps, CreateVcpuSteps, vm_getfd, At, NewFile, Return, vcpuVars,
     hostVars, Results
<1>2. VmFilesOK'
  BY DEF IInv, VmFilesOK, TypeOK, VmSteps, CreateVcpuSteps, vm_getfd, At,
     NewFile, Return, vcpuVars, hostVars, File, Parts, Steps, Results
<1>3. CpuFilesOK'
  BY DEF IInv, CpuFilesOK, Creating, CreateVcpuSteps, vm_getfd, At, Return,
     vcpuVars, hostVars
<1>4. CreatingOK'
  BY DEF IInv, CreatingOK, CreateVcpuSteps, vm_getfd, At, Return, vcpuVars,
     hostVars
<1>5. VcpuOK'
  BY DEF IInv, VcpuOK, CreateVcpuSteps, vm_getfd, At, Return, vcpuVars, hostVars
<1>6. LockOK'
  BY DEF IInv, LockOK, vm_getfd, At, Return, vcpuVars, hostVars
<1>7. AsidOK'
  BY DEF IInv, AsidOK, vm_getfd, At, Return, vcpuVars, hostVars
<1>8. OwnedOK'
  BY DEF IInv, OwnedOK, Creating, CreateVcpuSteps, vm_getfd, At, Return,
     vcpuVars, hostVars
<1>9. RefOK'
  <2>1. \A d \in Vcpus :
           (HoldsVm(d)' <=> HoldsVm(d)) /\ (HoldsVm(d) => vmOf'[d] = vmOf[d])
    BY DEF IInv, HoldsVm, vm_getfd, At, Return, vcpuVars, hostVars
  <2>2. \A w \in vmLive : FileHoldsVm(w)' <=> FileHoldsVm(w)
    BY DEF IInv, TypeOK, FileHoldsVm, vm_getfd, At, NewFile, Return, vcpuVars,
       hostVars, File, Parts, Steps, VmSteps, CreateVcpuSteps, Results
  <2> QED BY <2>1, <2>2, RefFrame DEF IInv, vm_getfd, Return
<1> QED BY <1>1, <1>2, <1>3, <1>4, <1>5, <1>6, <1>7, <1>8, <1>9 DEF IInv

(* Or it is not, and the vm, which has no vcpu, is destroyed.               *)
LEMMA VmGetfdFailStep ==
  ASSUME IInv, NEW t \in Threads,
         vm_getfd_fail(t)
  PROVE  IInv'
<1>1. TypeOK'
  BY ConstantsAssumption, SMTT(30) DEF IInv, TypeOK, VmFilesOK, File, Parts,
     Steps, VmSteps, CreateVcpuSteps, At, Return, hostVars, Results,
     vm_getfd_fail, yakvm_destroy_vm, yakvm_destroy_vcpu
<1>2. VmFilesOK'
  BY DEF IInv, VmFilesOK, TypeOK, VmSteps, CreateVcpuSteps, At, Return,
     hostVars, Parts, vm_getfd_fail, yakvm_destroy_vm, yakvm_destroy_vcpu
<1>3. CpuFilesOK'
  BY ConstantsAssumption, SMTT(30) DEF IInv, CpuFilesOK, TypeOK, VmFilesOK,
     Creating, CreateVcpuSteps, At, Return, hostVars, vm_getfd_fail,
     yakvm_destroy_vm, yakvm_destroy_vcpu
<1>4. CreatingOK'
  BY ConstantsAssumption, SMTT(30) DEF IInv, CreatingOK, TypeOK, VmFilesOK,
     CreateVcpuSteps, At, Return, hostVars, vm_getfd_fail, yakvm_destroy_vm,
     yakvm_destroy_vcpu
<1>5. VcpuOK'
  BY ConstantsAssumption, SMTT(30) DEF IInv, VcpuOK, TypeOK, VmFilesOK,
     CreateVcpuSteps, At, Return, hostVars, vm_getfd_fail, yakvm_destroy_vm,
     yakvm_destroy_vcpu
<1>6. LockOK'
  BY DEF IInv, LockOK, vm_getfd_fail, At, Return, hostVars, yakvm_destroy_vm,
     yakvm_destroy_vcpu
<1>7. AsidOK'
  BY SMTT(30) DEF IInv, AsidOK, Parts, vm_getfd_fail, At, Return, hostVars,
     yakvm_destroy_vm, yakvm_destroy_vcpu
<1>8. OwnedOK'
  BY DEF IInv, OwnedOK, Creating, CreateVcpuSteps, vm_getfd_fail, At, Return,
     hostVars, yakvm_destroy_vm, yakvm_destroy_vcpu
<1>9. RefOK'
  <2>1. \A w \in vmLive' : FileHoldsVm(w)' <=> FileHoldsVm(w)
    BY DEF IInv, TypeOK, FileHoldsVm, vm_getfd_fail, yakvm_destroy_vm, At,
       Return
  <2>2. \A w : Holders(w)' = Holders(w)
    BY DEF IInv, TypeOK, Holders, HoldsVm, vm_getfd_fail, At, Return
  <2> QED
    BY <2>1, <2>2 DEF IInv, RefOK, vm_getfd_fail, yakvm_destroy_vm
<1> QED BY <1>1, <1>2, <1>3, <1>4, <1>5, <1>6, <1>7, <1>8, <1>9 DEF IInv

(* YAKVM_CREATE_VCPU allocates the struct of a vcpu, at an address nothing  *)
(* refers to.                                                               *)
LEMMA KmallocStep ==
  ASSUME IInv, NEW t \in Threads, NEW c \in Vcpus,
         create_vcpu_kmalloc(t, c)
  PROVE  IInv'
<1>a. ~cpuFile[c].open
  <2>1. parts[c] # Parts
    BY DEF Parts, create_vcpu_kmalloc
  <2> QED BY <2>1 DEF IInv, CpuFilesOK
<1>b. \A u \in Threads : ~Creating(u, c)
  BY DEF IInv, CreatingOK, Creating, CreateVcpuSteps, Parts, create_vcpu_kmalloc
<1>c. \A w \in Vms : vcpu[w] # c
  BY ConstantsAssumption DEF IInv, VcpuOK, Parts, create_vcpu_kmalloc
<1>1. TypeOK'
  BY DEF IInv, TypeOK, File, Parts, Steps, VmSteps, CreateVcpuSteps, At,
     hostVars, Results, create_vcpu_kmalloc, Goto, vmVars
<1>2. VmFilesOK'
  BY DEF IInv, VmFilesOK, VmSteps, CreateVcpuSteps, At, hostVars,
     create_vcpu_kmalloc, Goto, vmVars
<1>3. CpuFilesOK'
  BY <1>a, <1>b DEF CpuFilesOK, IInv, TypeOK, Creating, CreateVcpuSteps,
     create_vcpu_kmalloc, At, Goto, vmVars, hostVars
<1>4. CreatingOK'
  BY <1>b DEF CreatingOK, VmFilesOK, VmSteps, Parts, IInv, TypeOK, Creating,
     CreateVcpuSteps, create_vcpu_kmalloc, At, Goto, vmVars, hostVars
<1>5. VcpuOK'
  BY <1>b, <1>c, ConstantsAssumption DEF VcpuOK, VmFilesOK, IInv, TypeOK,
     Creating, CreateVcpuSteps, create_vcpu_kmalloc, At, Goto, vmVars, hostVars
<1>6. LockOK'
  BY DEF IInv, LockOK, create_vcpu_kmalloc, At, Goto, vmVars, hostVars
<1>7. AsidOK'
  BY DEF IInv, AsidOK, Parts, create_vcpu_kmalloc, At, Goto, vmVars, hostVars
<1>8. OwnedOK'
  BY DEF IInv, OwnedOK, TypeOK, Creating, CreateVcpuSteps, At, hostVars,
     create_vcpu_kmalloc, Goto, vmVars
<1>9. RefOK'
  <2>1. \A d \in Vcpus :
           (HoldsVm(d)' <=> HoldsVm(d)) /\ (HoldsVm(d) => vmOf'[d] = vmOf[d])
    BY <1>a, <1>b DEF HoldsVm, IInv, TypeOK, Creating, CreateVcpuSteps,
       create_vcpu_kmalloc, At, Goto, vmVars, hostVars
  <2>2. \A w \in vmLive : FileHoldsVm(w)' <=> FileHoldsVm(w)
    BY DEF IInv, FileHoldsVm, At, hostVars, create_vcpu_kmalloc, Goto, vmVars
  <2> QED BY <2>1, <2>2, RefFrame DEF IInv, create_vcpu_kmalloc, vmVars
<1> QED BY <1>1, <1>2, <1>3, <1>4, <1>5, <1>6, <1>7, <1>8, <1>9 DEF IInv

(* Then its pages.                                                          *)
LEMMA AllocPageStep ==
  ASSUME IInv, NEW t \in Threads,
         create_vcpu_alloc_page(t)
  PROVE  IInv'
<1>1. TypeOK'
  BY ConstantsAssumption, SMTT(30) DEF IInv, TypeOK, CreatingOK, File, Parts,
     Steps, VmSteps, CreateVcpuSteps, At, hostVars, Results,
     create_vcpu_alloc_page, NextPart, Goto, vmVars
<1>2. VmFilesOK'
  BY DEF IInv, VmFilesOK, VmSteps, CreateVcpuSteps, At, hostVars,
     create_vcpu_alloc_page, NextPart, Parts, Goto, vmVars
<1>3. CpuFilesOK'
  BY DEF IInv, CpuFilesOK, Creating, CreateVcpuSteps, create_vcpu_alloc_page,
     At, NextPart, Goto, vmVars, hostVars
<1>4. CreatingOK'
  BY DEF IInv, CreatingOK, TypeOK, CreateVcpuSteps, Parts, VmSteps, At,
     hostVars, create_vcpu_alloc_page, NextPart, Goto, vmVars
<1>5. VcpuOK'
  BY DEF IInv, VcpuOK, CreateVcpuSteps, create_vcpu_alloc_page, At, NextPart,
     Goto, vmVars, hostVars
<1>6. LockOK'
  BY DEF IInv, LockOK, create_vcpu_alloc_page, At, NextPart, Goto, vmVars,
     hostVars
<1>7. AsidOK'
  <2>1. vmOf[tvcpu[t]] = NULL /\ tvcpu[t] \in Vcpus
    BY DEF IInv, CreatingOK, CreateVcpuSteps, create_vcpu_alloc_page, At
  <2> QED
    BY <2>1 DEF IInv, TypeOK, AsidOK, create_vcpu_alloc_page, hostVars
<1>8. OwnedOK'
  BY DEF IInv, OwnedOK, Creating, CreateVcpuSteps, create_vcpu_alloc_page, At,
     NextPart, Goto, vmVars, hostVars
<1>9. RefOK'
  <2>1. \A d \in Vcpus :
           (HoldsVm(d)' <=> HoldsVm(d)) /\ (HoldsVm(d) => vmOf'[d] = vmOf[d])
    BY DEF IInv, HoldsVm, create_vcpu_alloc_page, At, NextPart, Goto, vmVars,
       hostVars
  <2>2. \A w \in vmLive : FileHoldsVm(w)' <=> FileHoldsVm(w)
    BY DEF IInv, FileHoldsVm, At, hostVars, create_vcpu_alloc_page, NextPart,
       Goto, vmVars
  <2> QED BY <2>1, <2>2, RefFrame DEF IInv, create_vcpu_alloc_page, vmVars
<1> QED BY <1>1, <1>2, <1>3, <1>4, <1>5, <1>6, <1>7, <1>8, <1>9 DEF IInv

(* A failed allocation frees the earlier ones.                              *)
LEMMA AllocPageFailStep ==
  ASSUME IInv, NEW t \in Threads,
         create_vcpu_alloc_page_fail(t)
  PROVE  IInv'
<1>1. TypeOK'
  BY ConstantsAssumption, SMTT(30) DEF IInv, TypeOK, CreatingOK, File, Parts,
     Steps, VmSteps, CreateVcpuSteps, At, Return, hostVars, Results,
     create_vcpu_alloc_page_fail, NextPart, Unwind, PtrErrVm, vmVars
<1>2. VmFilesOK'
  BY DEF IInv, VmFilesOK, TypeOK, VmSteps, CreateVcpuSteps, At, Return,
     hostVars, Parts, create_vcpu_alloc_page_fail, NextPart, Unwind, PtrErrVm,
     vmVars
<1>3. CpuFilesOK'
  BY DEF IInv, CpuFilesOK, TypeOK, Creating, CreateVcpuSteps, At, Return,
     hostVars, create_vcpu_alloc_page_fail, NextPart, Unwind, PtrErrVm, vmVars
<1>4. CreatingOK'
  BY DEF IInv, CreatingOK, TypeOK, CreateVcpuSteps, At, Return, hostVars,
     create_vcpu_alloc_page_fail, NextPart, Unwind, PtrErrVm, vmVars
<1>5. VcpuOK'
  BY DEF IInv, VcpuOK, TypeOK, CreateVcpuSteps, At, Return, hostVars,
     create_vcpu_alloc_page_fail, NextPart, Unwind, PtrErrVm, vmVars
<1>6. LockOK'
  BY DEF IInv, LockOK, create_vcpu_alloc_page_fail, At, NextPart, Unwind,
     PtrErrVm, Return, vmVars, hostVars
<1>7. AsidOK'
  BY DEF IInv, AsidOK, create_vcpu_alloc_page_fail, At, NextPart, Unwind,
     PtrErrVm, Return, vmVars, hostVars
<1>8. OwnedOK'
  BY ConstantsAssumption, SMTT(30) DEF IInv, OwnedOK, TypeOK, CreatingOK,
     Creating, CreateVcpuSteps, Parts, VmSteps, At, Return, hostVars,
     create_vcpu_alloc_page_fail, NextPart, Unwind, PtrErrVm, vmVars
<1>9. RefOK'
  <2>1. \A d \in Vcpus :
           (HoldsVm(d)' <=> HoldsVm(d)) /\ (HoldsVm(d) => vmOf'[d] = vmOf[d])
    BY DEF IInv, HoldsVm, create_vcpu_alloc_page_fail, At, NextPart, Unwind,
       PtrErrVm, Return, vmVars, hostVars
  <2>2. \A w \in vmLive : FileHoldsVm(w)' <=> FileHoldsVm(w)
    BY DEF IInv, FileHoldsVm, At, Return, hostVars, create_vcpu_alloc_page_fail,
       NextPart, Unwind, PtrErrVm, vmVars
  <2> QED BY <2>1, <2>2, RefFrame DEF IInv, create_vcpu_alloc_page_fail, vmVars,
      Return
<1> QED BY <1>1, <1>2, <1>3, <1>4, <1>5, <1>6, <1>7, <1>8, <1>9 DEF IInv

(* The vcpu takes an ASID no other vcpu has.                                *)
LEMMA InitVmcbStep ==
  ASSUME IInv, NEW t \in Threads,
         yakvm_vcpu_init_vmcb(t)
  PROVE  IInv'
<1>1. TypeOK'
  BY ConstantsAssumption, SMTT(30) DEF IInv, TypeOK, CreatingOK, File, Parts,
     Steps, VmSteps, CreateVcpuSteps, At, Results, yakvm_vcpu_init_vmcb, Goto,
     vmVars
<1>2. VmFilesOK'
  BY DEF IInv, VmFilesOK, VmSteps, CreateVcpuSteps, At, yakvm_vcpu_init_vmcb,
     Goto, vmVars
<1>3. CpuFilesOK'
  BY DEF IInv, CpuFilesOK, Creating, CreateVcpuSteps, yakvm_vcpu_init_vmcb, At,
     Goto, vmVars
<1>4. CreatingOK'
  BY DEF IInv, CreatingOK, TypeOK, CreateVcpuSteps, At, yakvm_vcpu_init_vmcb,
     Goto, vmVars
<1>5. VcpuOK'
  BY DEF IInv, VcpuOK, CreateVcpuSteps, yakvm_vcpu_init_vmcb, At, Goto, vmVars
<1>6. LockOK'
  BY DEF IInv, LockOK, yakvm_vcpu_init_vmcb, At, Goto, vmVars
<1>7. AsidOK'
  <2>1. tvcpu[t] \in Vcpus
    BY DEF IInv, CreatingOK, CreateVcpuSteps, yakvm_vcpu_init_vmcb, At
  <2>2. /\ asid' = asid + 1
        /\ asidOf' = [asidOf EXCEPT ![tvcpu[t]] = asid + 1]
        /\ vmOf' = [vmOf EXCEPT ![tvcpu[t]] = tvm[t]]
        /\ parts' = parts
    BY DEF yakvm_vcpu_init_vmcb
  <2>3. /\ asid \in Nat
        /\ asidOf \in [Vcpus -> Nat]
        /\ vmOf \in [Vcpus -> Vms \union {NULL}]
        /\ AsidOK
    BY DEF IInv, TypeOK
  <2>4. \A c \in Vcpus : parts'[c] = Parts /\ vmOf'[c] # NULL =>
          \/ c = tvcpu[t] /\ asidOf'[c] = asid + 1
          \/ c # tvcpu[t] /\ asidOf'[c] = asidOf[c] /\ asidOf[c] # 0 /\ asidOf[c] <= asid
    BY <2>1, <2>2, <2>3 DEF AsidOK
  <2>5. \A c \in Vcpus : c # tvcpu[t] => asidOf'[c] = asidOf[c] /\ vmOf'[c] = vmOf[c]
    BY <2>2, <2>3
  <2> QED BY <2>1, <2>2, <2>3, <2>4, <2>5 DEF AsidOK
<1>8. OwnedOK'
  BY DEF IInv, OwnedOK, Creating, CreateVcpuSteps, yakvm_vcpu_init_vmcb, At,
     Goto, vmVars
<1>9. RefOK'
  <2>1. \A d \in Vcpus :
           (HoldsVm(d)' <=> HoldsVm(d)) /\ (HoldsVm(d) => vmOf'[d] = vmOf[d])
    BY ConstantsAssumption, SMTT(30) DEF IInv, TypeOK, VmFilesOK, CpuFilesOK,
       CreatingOK, VcpuOK, HoldsVm, CreateVcpuSteps, At, Creating,
       yakvm_vcpu_init_vmcb, Goto, vmVars
  <2>2. \A w \in vmLive : FileHoldsVm(w)' <=> FileHoldsVm(w)
    BY DEF IInv, FileHoldsVm, At, yakvm_vcpu_init_vmcb, Goto, vmVars
  <2> QED BY <2>1, <2>2, RefFrame DEF IInv, yakvm_vcpu_init_vmcb, vmVars
<1> QED BY <1>1, <1>2, <1>3, <1>4, <1>5, <1>6, <1>7, <1>8, <1>9 DEF IInv

(* The creating thread takes vm->lock.                                      *)
LEMMA LockStep ==
  ASSUME IInv, NEW t \in Threads,
         create_vcpu_lock(t)
  PROVE  IInv'
<1>1. TypeOK'
  BY ConstantsAssumption, SMTT(30) DEF IInv, TypeOK, VmFilesOK, File, Parts,
     Steps, VmSteps, CreateVcpuSteps, At, vcpuVars, hostVars, Results,
     create_vcpu_lock, Goto
<1>2. VmFilesOK'
  BY DEF IInv, VmFilesOK, VmSteps, CreateVcpuSteps, At, vcpuVars, hostVars,
     create_vcpu_lock, Goto
<1>3. CpuFilesOK'
  BY DEF IInv, CpuFilesOK, Creating, CreateVcpuSteps, create_vcpu_lock, At,
     Goto, vcpuVars, hostVars
<1>4. CreatingOK'
  BY DEF IInv, CreatingOK, CreateVcpuSteps, create_vcpu_lock, At, Goto,
     vcpuVars, hostVars
<1>5. VcpuOK'
  BY DEF IInv, VcpuOK, CreateVcpuSteps, create_vcpu_lock, At, Goto, vcpuVars,
     hostVars
<1>6. LockOK'
  BY ConstantsAssumption, SMTT(30) DEF IInv, LockOK, TypeOK, VmFilesOK, Parts,
     VmSteps, CreateVcpuSteps, At, vcpuVars, hostVars, create_vcpu_lock, Goto
<1>7. AsidOK'
  BY DEF IInv, AsidOK, create_vcpu_lock, At, Goto, vcpuVars, hostVars
<1>8. OwnedOK'
  BY DEF IInv, OwnedOK, Creating, CreateVcpuSteps, create_vcpu_lock, At, Goto,
     vcpuVars, hostVars
<1>9. RefOK'
  <2>1. \A d \in Vcpus :
           (HoldsVm(d)' <=> HoldsVm(d)) /\ (HoldsVm(d) => vmOf'[d] = vmOf[d])
    BY DEF IInv, HoldsVm, create_vcpu_lock, At, Goto, vcpuVars, hostVars
  <2>2. \A w \in vmLive : FileHoldsVm(w)' <=> FileHoldsVm(w)
    BY DEF IInv, FileHoldsVm, At, vcpuVars, hostVars, create_vcpu_lock, Goto
  <2> QED BY <2>1, <2>2, RefFrame DEF IInv, create_vcpu_lock
<1> QED BY <1>1, <1>2, <1>3, <1>4, <1>5, <1>6, <1>7, <1>8, <1>9 DEF IInv

(* It finds a vcpu and gives up.                                            *)
LEMMA ExistsStep ==
  ASSUME IInv, NEW t \in Threads,
         create_vcpu_exists(t)
  PROVE  IInv'
<1>1. TypeOK'
  BY ConstantsAssumption, SMTT(30) DEF IInv, TypeOK, VmFilesOK, File, Parts,
     Steps, VmSteps, CreateVcpuSteps, At, vcpuVars, hostVars, Results,
     create_vcpu_exists, Goto
<1>2. VmFilesOK'
  BY DEF IInv, VmFilesOK, VmSteps, CreateVcpuSteps, At, vcpuVars, hostVars,
     create_vcpu_exists, Goto
<1>3. CpuFilesOK'
  BY DEF IInv, CpuFilesOK, Creating, CreateVcpuSteps, create_vcpu_exists, At,
     Goto, vcpuVars, hostVars
<1>4. CreatingOK'
  BY DEF IInv, CreatingOK, CreateVcpuSteps, create_vcpu_exists, At, Goto,
     vcpuVars, hostVars
<1>5. VcpuOK'
  BY DEF IInv, VcpuOK, CreateVcpuSteps, create_vcpu_exists, At, Goto, vcpuVars,
     hostVars
<1>6. LockOK'
  BY DEF IInv, LockOK, TypeOK, CreateVcpuSteps, At, vcpuVars, hostVars,
     create_vcpu_exists, Goto
<1>7. AsidOK'
  BY DEF IInv, AsidOK, create_vcpu_exists, At, Goto, vcpuVars, hostVars
<1>8. OwnedOK'
  BY DEF IInv, OwnedOK, Creating, CreateVcpuSteps, create_vcpu_exists, At, Goto,
     vcpuVars, hostVars
<1>9. RefOK'
  <2>1. \A d \in Vcpus :
           (HoldsVm(d)' <=> HoldsVm(d)) /\ (HoldsVm(d) => vmOf'[d] = vmOf[d])
    BY DEF IInv, HoldsVm, create_vcpu_exists, At, Goto, vcpuVars, hostVars
  <2>2. \A w \in vmLive : FileHoldsVm(w)' <=> FileHoldsVm(w)
    BY DEF IInv, FileHoldsVm, At, vcpuVars, hostVars, create_vcpu_exists, Goto
  <2> QED BY <2>1, <2>2, RefFrame DEF IInv, create_vcpu_exists
<1> QED BY <1>1, <1>2, <1>3, <1>4, <1>5, <1>6, <1>7, <1>8, <1>9 DEF IInv

(* It finds none; or, later, anon_inode_getfd() fails: only the control     *)
(* moves.                                                                   *)
LEMMA CheckStep ==
  ASSUME IInv, NEW t \in Threads,
         create_vcpu_check(t) \/ create_vcpu_getfd_fail(t)
  PROVE  IInv'
<1>1. TypeOK'
  BY DEF IInv, TypeOK, File, Parts, Steps, VmSteps, CreateVcpuSteps, At,
     vcpuVars, hostVars, Results, create_vcpu_check, Goto, vmVars,
     create_vcpu_getfd_fail
<1>2. VmFilesOK'
  BY DEF IInv, VmFilesOK, TypeOK, VmSteps, CreateVcpuSteps, At, vcpuVars,
     hostVars, Parts, create_vcpu_check, Goto, vmVars, create_vcpu_getfd_fail
<1>3. CpuFilesOK'
  BY DEF IInv, CpuFilesOK, TypeOK, Creating, CreateVcpuSteps, At, vcpuVars,
     hostVars, create_vcpu_check, Goto, vmVars, create_vcpu_getfd_fail
<1>4. CreatingOK'
  <2>1. CASE create_vcpu_check(t)
    BY <2>1 DEF IInv, CreatingOK, CreateVcpuSteps, create_vcpu_check, At, Goto,
       vmVars, vcpuVars, hostVars
  <2>2. CASE create_vcpu_getfd_fail(t)
    BY <2>2 DEF IInv, CreatingOK, CreateVcpuSteps, create_vcpu_getfd_fail, At,
       Goto, vmVars, vcpuVars, hostVars
  <2> QED BY <2>1, <2>2
<1>5. VcpuOK'
  BY DEF IInv, VcpuOK, TypeOK, CreateVcpuSteps, At, vcpuVars, hostVars,
     create_vcpu_check, Goto, vmVars, create_vcpu_getfd_fail
<1>6. LockOK'
  BY DEF IInv, LockOK, TypeOK, CreateVcpuSteps, At, vcpuVars, hostVars,
     create_vcpu_check, Goto, vmVars, create_vcpu_getfd_fail
<1>7. AsidOK'
  BY DEF IInv, AsidOK, create_vcpu_check, At, Goto, vmVars, vcpuVars, hostVars,
     create_vcpu_getfd_fail
<1>8. OwnedOK'
  BY DEF IInv, OwnedOK, TypeOK, Creating, CreateVcpuSteps, At, vcpuVars,
     hostVars, create_vcpu_check, Goto, vmVars, create_vcpu_getfd_fail
<1>9. RefOK'
  <2>1. \A d \in Vcpus :
           (HoldsVm(d)' <=> HoldsVm(d)) /\ (HoldsVm(d) => vmOf'[d] = vmOf[d])
    BY DEF IInv, TypeOK, HoldsVm, File, Parts, Steps, VmSteps, CreateVcpuSteps,
       At, vcpuVars, hostVars, Results, create_vcpu_check, Goto, vmVars,
       create_vcpu_getfd_fail
  <2>2. \A w \in vmLive : FileHoldsVm(w)' <=> FileHoldsVm(w)
    BY DEF IInv, TypeOK, FileHoldsVm, At, vcpuVars, hostVars, File, Parts,
       Steps, VmSteps, CreateVcpuSteps, Results, create_vcpu_check, Goto,
       vmVars, create_vcpu_getfd_fail
  <2> QED BY <2>1, <2>2, RefFrame DEF IInv, create_vcpu_check,
      create_vcpu_getfd_fail, vmVars
<1> QED BY <1>1, <1>2, <1>3, <1>4, <1>5, <1>6, <1>7, <1>8, <1>9 DEF IInv

(* It publishes its vcpu.                                                   *)
LEMMA SetStep ==
  ASSUME IInv, NEW t \in Threads,
         create_vcpu_set(t)
  PROVE  IInv'
<1>1. TypeOK'
  BY ConstantsAssumption, SMTT(30) DEF IInv, TypeOK, VmFilesOK, File, Parts,
     Steps, VmSteps, CreateVcpuSteps, At, vcpuVars, hostVars, Results,
     create_vcpu_set, Goto
<1>2. VmFilesOK'
  BY DEF IInv, VmFilesOK, VmSteps, CreateVcpuSteps, At, vcpuVars, hostVars,
     create_vcpu_set, Goto
<1>3. CpuFilesOK'
  BY ConstantsAssumption, SMTT(30) DEF IInv, CpuFilesOK, TypeOK, CreatingOK,
     Creating, CreateVcpuSteps, At, vcpuVars, hostVars, create_vcpu_set, Goto
<1>4. CreatingOK'
  BY ConstantsAssumption, SMTT(30) DEF IInv, CreatingOK, TypeOK, VmFilesOK,
     CpuFilesOK, VcpuOK, LockOK, OwnedOK, AsidOK, CreateVcpuSteps, Parts,
     VmSteps, At, vcpuVars, hostVars, Creating, create_vcpu_set, Goto
<1>5. VcpuOK'
  BY ConstantsAssumption, SMTT(30) DEF IInv, VcpuOK, TypeOK, VmFilesOK,
     CpuFilesOK, CreatingOK, Parts, CreateVcpuSteps, VmSteps, At, vcpuVars,
     hostVars, Creating, create_vcpu_set, Goto
<1>6. LockOK'
  BY DEF IInv, LockOK, TypeOK, CreateVcpuSteps, At, vcpuVars, hostVars,
     create_vcpu_set, Goto
<1>7. AsidOK'
  BY DEF IInv, AsidOK, create_vcpu_set, At, Goto, vcpuVars, hostVars
<1>8. OwnedOK'
  BY ConstantsAssumption, SMTT(30) DEF IInv, OwnedOK, TypeOK, CreatingOK,
     Creating, CreateVcpuSteps, At, vcpuVars, hostVars, create_vcpu_set, Goto
<1>9. RefOK'
  <2>1. \A d \in Vcpus :
           (HoldsVm(d)' <=> HoldsVm(d)) /\ (HoldsVm(d) => vmOf'[d] = vmOf[d])
    BY DEF IInv, HoldsVm, create_vcpu_set, At, Goto, vcpuVars, hostVars
  <2>2. \A w \in vmLive : FileHoldsVm(w)' <=> FileHoldsVm(w)
    BY DEF IInv, FileHoldsVm, At, vcpuVars, hostVars, create_vcpu_set, Goto
  <2> QED BY <2>1, <2>2, RefFrame DEF IInv, create_vcpu_set
<1> QED BY <1>1, <1>2, <1>3, <1>4, <1>5, <1>6, <1>7, <1>8, <1>9 DEF IInv

(* The vcpu takes its reference to the vm.                                  *)
LEMMA GetVmStep ==
  ASSUME IInv, NEW t \in Threads,
         yakvm_get_vm(t)
  PROVE  IInv'
<1>1. TypeOK'
  BY ConstantsAssumption, SMTT(30) DEF IInv, TypeOK, VmFilesOK, File, Parts,
     Steps, VmSteps, CreateVcpuSteps, At, vcpuVars, hostVars, Results,
     yakvm_get_vm, Goto
<1>2. VmFilesOK'
  BY DEF IInv, VmFilesOK, VmSteps, CreateVcpuSteps, At, vcpuVars, hostVars,
     yakvm_get_vm, Goto
<1>3. CpuFilesOK'
  BY DEF IInv, CpuFilesOK, Creating, CreateVcpuSteps, yakvm_get_vm, At, Goto,
     vcpuVars, hostVars
<1>4. CreatingOK'
  BY DEF IInv, CreatingOK, CreateVcpuSteps, yakvm_get_vm, At, Goto, vcpuVars,
     hostVars
<1>5. VcpuOK'
  BY DEF IInv, VcpuOK, CreateVcpuSteps, yakvm_get_vm, At, Goto, vcpuVars,
     hostVars
<1>6. LockOK'
  BY DEF IInv, LockOK, yakvm_get_vm, At, Goto, vcpuVars, hostVars
<1>7. AsidOK'
  BY DEF IInv, AsidOK, yakvm_get_vm, At, Goto, vcpuVars, hostVars
<1>8. OwnedOK'
  BY DEF IInv, OwnedOK, Creating, CreateVcpuSteps, yakvm_get_vm, At, Goto,
     vcpuVars, hostVars
<1>9. RefOK'
  <2> DEFINE v == tvm[t]  c == tvcpu[t]
  <2>1. v \in vmLive /\ c \in Vcpus /\ vmOf[c] = v
    BY DEF IInv, VmFilesOK, CreatingOK, CreateVcpuSteps, VmSteps, yakvm_get_vm,
       At
  <2>2. c \notin Holders(v)
    BY DEF IInv, CpuFilesOK, CreatingOK, Creating, CreateVcpuSteps, Holders,
       HoldsVm, yakvm_get_vm, At
  <2>3. \A d \in Vcpus : HoldsVm(d)' <=> HoldsVm(d) \/ d = c
    BY <2>1 DEF IInv, TypeOK, HoldsVm, yakvm_get_vm, At, Goto, vcpuVars
  <2>4. Holders(v)' = Holders(v) \union {c}
    BY <2>1, <2>3 DEF Holders, yakvm_get_vm, vcpuVars
  <2>5. \A w \in vmLive \ {v} : Holders(w)' = Holders(w)
    BY <2>1, <2>3 DEF Holders, yakvm_get_vm, vcpuVars
  <2>6. \A w : FileHoldsVm(w)' <=> FileHoldsVm(w)
    BY DEF IInv, TypeOK, FileHoldsVm, yakvm_get_vm, At, Goto
  <2>7. Cardinality(Holders(v)') = Cardinality(Holders(v)) + 1
    BY <2>2, <2>4, HoldersCount
  <2>8. vmLive' = vmLive /\ refcount' = [refcount EXCEPT ![v] = @ + 1]
    BY DEF yakvm_get_vm
  <2>9. ASSUME NEW w \in vmLive
        PROVE  /\ refcount'[w] # 0
               /\ refcount'[w] = (IF FileHoldsVm(w)' THEN 1 ELSE 0)
                                 + Cardinality(Holders(w)')
    <3>1. refcount[w] \in Nat /\ Cardinality(Holders(w)) \in Nat
      BY HoldersCount DEF IInv, TypeOK
    <3>2. CASE w = v
      <4>1. refcount'[v] = refcount[v] + 1
        BY <2>1, <2>8 DEF IInv, TypeOK
      <4>2. refcount[v] = (IF FileHoldsVm(v) THEN 1 ELSE 0) + Cardinality(Holders(v))
        BY <2>1 DEF IInv, RefOK
      <4>3. v' = v
        BY DEF yakvm_get_vm
      <4>4. Cardinality(Holders(w)') = Cardinality(Holders(w)) + 1
        BY <3>2, <4>3, <2>7
      <4> QED BY <3>1, <3>2, <4>1, <4>2, <4>4, <2>6
    <3>3. CASE w # v
      BY <3>3, <2>1, <2>5, <2>6, <2>8 DEF IInv, TypeOK, RefOK
    <3> QED BY <3>2, <3>3
  <2> QED BY <2>8, <2>9 DEF RefOK
<1> QED BY <1>1, <1>2, <1>3, <1>4, <1>5, <1>6, <1>7, <1>8, <1>9 DEF IInv

(* The vcpu gets its descriptor.                                            *)
LEMMA GetfdStep ==
  ASSUME IInv, NEW t \in Threads,
         create_vcpu_getfd(t)
  PROVE  IInv'
<1>1. TypeOK'
  BY ConstantsAssumption, SMTT(30) DEF IInv, TypeOK, CreatingOK, File, Parts,
     Steps, VmSteps, CreateVcpuSteps, At, NewFile, Return, hostVars, Results,
     create_vcpu_getfd, vmVars
<1>2. VmFilesOK'
  BY DEF IInv, VmFilesOK, TypeOK, VmSteps, CreateVcpuSteps, At, Return,
     hostVars, Parts, create_vcpu_getfd, vmVars
<1>3. CpuFilesOK'
  BY ConstantsAssumption, SMTT(30) DEF IInv, CpuFilesOK, TypeOK, VmFilesOK,
     CreatingOK, VcpuOK, Parts, Creating, CreateVcpuSteps, File, Steps, VmSteps,
     At, NewFile, Return, hostVars, Results, create_vcpu_getfd, vmVars
<1>4. CreatingOK'
  BY DEF IInv, CreatingOK, TypeOK, CreateVcpuSteps, At, Return, hostVars,
     create_vcpu_getfd, vmVars
<1>5. VcpuOK'
  BY DEF IInv, VcpuOK, CreateVcpuSteps, create_vcpu_getfd, At, Return, vmVars,
     hostVars
<1>6. LockOK'
  BY DEF IInv, LockOK, create_vcpu_getfd, At, Return, vmVars, hostVars
<1>7. AsidOK'
  BY DEF IInv, AsidOK, create_vcpu_getfd, At, Return, vmVars, hostVars
<1>8. OwnedOK'
  BY ConstantsAssumption, SMTT(30) DEF IInv, OwnedOK, TypeOK, VmFilesOK,
     CpuFilesOK, CreatingOK, VcpuOK, Creating, CreateVcpuSteps, Parts, VmSteps,
     At, Return, hostVars, create_vcpu_getfd, vmVars
<1>9. RefOK'
  <2>1. \A d \in Vcpus :
           (HoldsVm(d)' <=> HoldsVm(d)) /\ (HoldsVm(d) => vmOf'[d] = vmOf[d])
    BY DEF IInv, TypeOK, HoldsVm, File, Parts, Steps, VmSteps, CreateVcpuSteps,
       At, NewFile, Return, hostVars, Results, create_vcpu_getfd, vmVars
  <2>2. \A w \in vmLive : FileHoldsVm(w)' <=> FileHoldsVm(w)
    BY DEF IInv, FileHoldsVm, At, Return, hostVars, create_vcpu_getfd, vmVars
  <2> QED BY <2>1, <2>2, RefFrame DEF IInv, create_vcpu_getfd, vmVars, Return
<1> QED BY <1>1, <1>2, <1>3, <1>4, <1>5, <1>6, <1>7, <1>8, <1>9 DEF IInv

(* A failed creation withdraws the vcpu.                                    *)
LEMMA ClearStep ==
  ASSUME IInv, NEW t \in Threads,
         create_vcpu_clear(t)
  PROVE  IInv'
<1>1. TypeOK'
  BY ConstantsAssumption, SMTT(30) DEF IInv, TypeOK, VmFilesOK, File, Parts,
     Steps, VmSteps, CreateVcpuSteps, At, vcpuVars, hostVars, Results,
     create_vcpu_clear, Goto
<1>2. VmFilesOK'
  BY DEF IInv, VmFilesOK, VmSteps, CreateVcpuSteps, At, vcpuVars, hostVars,
     create_vcpu_clear, Goto
<1>3. CpuFilesOK'
  BY ConstantsAssumption, SMTT(30) DEF IInv, CpuFilesOK, TypeOK, CreatingOK,
     Creating, CreateVcpuSteps, At, vcpuVars, hostVars, create_vcpu_clear, Goto
<1>4. CreatingOK'
  BY DEF IInv, CreatingOK, TypeOK, CreateVcpuSteps, At, vcpuVars, hostVars,
     create_vcpu_clear, Goto
<1>5. VcpuOK'
  BY ConstantsAssumption, SMTT(30) DEF IInv, VcpuOK, TypeOK, CreatingOK,
     CreateVcpuSteps, At, vcpuVars, hostVars, create_vcpu_clear, Goto
<1>6. LockOK'
  BY DEF IInv, LockOK, create_vcpu_clear, At, Goto, vcpuVars, hostVars
<1>7. AsidOK'
  BY DEF IInv, AsidOK, create_vcpu_clear, At, Goto, vcpuVars, hostVars
<1>8. OwnedOK'
  BY ConstantsAssumption, SMTT(30) DEF IInv, OwnedOK, TypeOK, CreatingOK,
     Creating, CreateVcpuSteps, At, vcpuVars, hostVars, create_vcpu_clear, Goto
<1>9. RefOK'
  <2>1. \A d \in Vcpus :
           (HoldsVm(d)' <=> HoldsVm(d)) /\ (HoldsVm(d) => vmOf'[d] = vmOf[d])
    BY DEF IInv, HoldsVm, create_vcpu_clear, At, Goto, vcpuVars, hostVars
  <2>2. \A w \in vmLive : FileHoldsVm(w)' <=> FileHoldsVm(w)
    BY DEF IInv, FileHoldsVm, At, vcpuVars, hostVars, create_vcpu_clear, Goto
  <2> QED BY <2>1, <2>2, RefFrame DEF IInv, create_vcpu_clear
<1> QED BY <1>1, <1>2, <1>3, <1>4, <1>5, <1>6, <1>7, <1>8, <1>9 DEF IInv

(* It drops the reference, which is not the last one: the thread is inside  *)
(* an ioctl on the vm file.                                                 *)
LEMMA PutStep ==
  ASSUME IInv, NEW t \in Threads,
         create_vcpu_put(t)
  PROVE  IInv'
<1> DEFINE v == tvm[t]
           c == tvcpu[t]
<1>a. v \in vmLive /\ v \in Vms /\ vmFile[v].open
  BY DEF IInv, VmFilesOK, CreateVcpuSteps, VmSteps, create_vcpu_put, At
<1>b. c \in Vcpus /\ vmOf[c] = v /\ pc[t] = "put"
  BY DEF IInv, CreatingOK, CreateVcpuSteps, create_vcpu_put, At
<1>c. c \in Holders(v)
  BY <1>b DEF Holders, HoldsVm
<1>d. /\ refcount[v] = 1 + Cardinality(Holders(v))
      /\ Cardinality(Holders(v)) \in Nat \ {0}
  BY <1>a, <1>c, HoldersCount DEF IInv, RefOK, FileHoldsVm
<1>e. UNCHANGED <<vmLive, vcpu, parts>>
  BY <1>d DEF create_vcpu_put, yakvm_put_vm
<1>f. refcount' = [refcount EXCEPT ![v] = @ - 1] /\ pc' = [pc EXCEPT ![t] = "destroy"]
  BY DEF create_vcpu_put, yakvm_put_vm, Goto
<1>g. UNCHANGED <<tvm, tvcpu, result, lock, vmFile, vmOf, asidOf, cpuFile, asid,
                  panicked>>
  BY DEF create_vcpu_put, hostVars
<1>1. TypeOK'
  BY <1>a, <1>d, <1>e, <1>f, <1>g DEF IInv, TypeOK, Steps, VmSteps,
     CreateVcpuSteps
<1>2. VmFilesOK'
  BY <1>a, <1>b, <1>e, <1>f, <1>g DEF IInv, TypeOK, VmFilesOK, CreateVcpuSteps
<1>3. CpuFilesOK'
  BY <1>a, <1>b, <1>e, <1>f, <1>g DEF IInv, TypeOK, CpuFilesOK, Creating,
     CreateVcpuSteps
<1>4. CreatingOK'
  BY <1>a, <1>b, <1>e, <1>f, <1>g DEF IInv, TypeOK, CreatingOK, CreateVcpuSteps
<1>5. VcpuOK'
  BY <1>a, <1>b, <1>e, <1>f, <1>g DEF IInv, TypeOK, VcpuOK, CreateVcpuSteps
<1>6. LockOK'
  BY <1>a, <1>b, <1>e, <1>f, <1>g DEF IInv, TypeOK, LockOK
<1>7. AsidOK'
  BY <1>e, <1>g DEF IInv, AsidOK
<1>8. OwnedOK'
  BY <1>a, <1>b, <1>e, <1>f, <1>g DEF IInv, TypeOK, OwnedOK, Creating,
     CreateVcpuSteps
<1>9. RefOK'
  <2>1. \A d \in Vcpus : HoldsVm(d)' <=> HoldsVm(d) /\ d # c
    <3>1. ~cpuFile[c].open
      BY <1>b DEF IInv, CpuFilesOK, Creating, CreateVcpuSteps
    <3>2. \A u \in Threads : pc[u] \in {"getfd", "clear", "put"} /\ tvcpu[u] = c => u = t
      BY <1>b DEF IInv, CreatingOK, CreateVcpuSteps
    <3> QED
      BY <3>1, <3>2, <1>b, <1>f, <1>g DEF IInv, TypeOK, HoldsVm
  <2>2. Holders(v)' = Holders(v) \ {c}
    BY <2>1, <1>g DEF Holders
  <2>3. \A w \in vmLive \ {v} : Holders(w)' = Holders(w)
    BY <2>1, <1>b, <1>g DEF Holders
  <2>4. \A w : FileHoldsVm(w)' <=> FileHoldsVm(w)
    BY <1>b, <1>f, <1>g DEF IInv, TypeOK, FileHoldsVm
  <2>5. Cardinality(Holders(v)') = Cardinality(Holders(v)) - 1
    BY <2>2, <1>c, HoldersCount
  <2>6. FileHoldsVm(v)
    BY <1>a DEF FileHoldsVm
  <2>7. ASSUME NEW w \in vmLive'
        PROVE  /\ refcount'[w] # 0
               /\ refcount'[w] = (IF FileHoldsVm(w)' THEN 1 ELSE 0)
                                 + Cardinality(Holders(w)')
    <3>1. refcount[w] \in Nat /\ Cardinality(Holders(w)) \in Nat
      BY HoldersCount, <1>e DEF IInv, TypeOK
    <3>2. CASE w = v
      <4>1. refcount'[v] = refcount[v] - 1
        BY <1>a, <1>f DEF IInv, TypeOK
      <4>2. refcount[v] = 1 + Cardinality(Holders(v)) /\ Cardinality(Holders(v)) # 0
        BY <1>d
      <4>3. v' = v
        BY <1>g
      <4>4. Cardinality(Holders(w)') = Cardinality(Holders(w)) - 1
        BY <3>2, <4>3, <2>5
      <4> QED BY <3>1, <3>2, <4>1, <4>2, <4>4, <2>4, <2>6
    <3>3. CASE w # v
      BY <3>3, <1>a, <1>e, <1>f, <2>3, <2>4 DEF IInv, TypeOK, RefOK
    <3> QED BY <3>2, <3>3
  <2> QED BY <2>7 DEF RefOK
<1> QED BY <1>1, <1>2, <1>3, <1>4, <1>5, <1>6, <1>7, <1>8, <1>9 DEF IInv

(* It frees the vcpu, which nothing refers to.                              *)
LEMMA DestroyStep ==
  ASSUME IInv, NEW t \in Threads,
         create_vcpu_destroy(t)
  PROVE  IInv'
<1>1. TypeOK'
  BY DEF IInv, TypeOK, File, Parts, Steps, VmSteps, CreateVcpuSteps, At, Return,
     hostVars, Results, create_vcpu_destroy, yakvm_destroy_vcpu, vmVars
<1>2. VmFilesOK'
  BY DEF IInv, VmFilesOK, TypeOK, VmSteps, CreateVcpuSteps, At, Return,
     hostVars, Parts, create_vcpu_destroy, yakvm_destroy_vcpu, vmVars
<1>3. CpuFilesOK'
  BY DEF IInv, CpuFilesOK, TypeOK, Creating, CreateVcpuSteps, At, Return,
     hostVars, create_vcpu_destroy, yakvm_destroy_vcpu, vmVars
<1>4. CreatingOK'
  BY DEF IInv, CreatingOK, TypeOK, CreateVcpuSteps, At, Return, hostVars,
     create_vcpu_destroy, yakvm_destroy_vcpu, vmVars
<1>5. VcpuOK'
  BY ConstantsAssumption, SMTT(30) DEF IInv, VcpuOK, TypeOK, VmFilesOK,
     CpuFilesOK, CreatingOK, CreateVcpuSteps, At, Return, hostVars, Creating,
     create_vcpu_destroy, yakvm_destroy_vcpu, vmVars
<1>6. LockOK'
  BY DEF IInv, LockOK, create_vcpu_destroy, At, yakvm_destroy_vcpu, Return,
     vmVars, hostVars
<1>7. AsidOK'
  BY DEF IInv, AsidOK, Parts, create_vcpu_destroy, At, yakvm_destroy_vcpu,
     Return, vmVars, hostVars
<1>8. OwnedOK'
  BY DEF IInv, OwnedOK, Creating, CreateVcpuSteps, create_vcpu_destroy, At,
     yakvm_destroy_vcpu, Return, vmVars, hostVars
<1>9. RefOK'
  <2>1. \A d \in Vcpus :
           (HoldsVm(d)' <=> HoldsVm(d)) /\ (HoldsVm(d) => vmOf'[d] = vmOf[d])
    BY DEF IInv, HoldsVm, create_vcpu_destroy, At, yakvm_destroy_vcpu, Return,
       vmVars, hostVars
  <2>2. \A w \in vmLive : FileHoldsVm(w)' <=> FileHoldsVm(w)
    BY DEF IInv, FileHoldsVm, At, Return, hostVars, create_vcpu_destroy,
       yakvm_destroy_vcpu, vmVars
  <2> QED BY <2>1, <2>2, RefFrame DEF IInv, create_vcpu_destroy, vmVars, Return
<1> QED BY <1>1, <1>2, <1>3, <1>4, <1>5, <1>6, <1>7, <1>8, <1>9 DEF IInv

(* ->release of a vm file.  When it drops the last reference, no vcpu file  *)
(* of the vm is open and no handler runs on the vm.                         *)
LEMMA VmReleaseStep ==
  ASSUME IInv, NEW v \in Vms,
         yakvm_vm_release(v)
  PROVE  IInv'
<1>1. v \in vmLive /\ vmFile[v].open
  BY DEF IInv, VmFilesOK, yakvm_vm_release
<1>2. \A t \in Threads : pc[t] \in VmSteps \union {"vm_getfd"} => tvm[t] # v
  BY <1>1 DEF IInv, VmFilesOK, yakvm_vm_release, VmFileInUse
<1>3. /\ refcount[v] = 1 + Cardinality(Holders(v))
      /\ Cardinality(Holders(v)) \in Nat
  BY <1>1, HoldersCount DEF IInv, RefOK, FileHoldsVm
<1>4. /\ refcount' = [refcount EXCEPT ![v] = @ - 1]
      /\ vmFile' = [vmFile EXCEPT ![v] = NoFile]
      /\ UNCHANGED <<lock, vmOf, asidOf, cpuFile, asid, panicked, pc, tvm, tvcpu,
                     result>>
  BY DEF yakvm_vm_release, yakvm_put_vm, hostVars, threadVars
<1>5. refcount' \in [Vms -> Nat] /\ vmFile' \in [Vms -> File]
  BY <1>3, <1>4 DEF IInv, TypeOK, File, NoFile
<1>6. \A w : Holders(w)' = Holders(w)
  BY <1>4 DEF Holders, HoldsVm
<1>7. /\ ~FileHoldsVm(v)'
      /\ \A w \in Vms \ {v} : FileHoldsVm(w)' <=> FileHoldsVm(w)
  BY <1>2, <1>4 DEF IInv, TypeOK, FileHoldsVm, NoFile
<1>8. CASE refcount[v] = 1
  <2>1. /\ vmLive' = vmLive \ {v}
        /\ vcpu' = [vcpu EXCEPT ![v] = NULL]
        /\ parts' = [d \in Vcpus |-> IF d = vcpu[v] THEN {} ELSE parts[d]]
    BY <1>8 DEF yakvm_vm_release, yakvm_put_vm, yakvm_destroy_vm,
       yakvm_destroy_vcpu
  <2>2. Holders(v) = {}
    BY <1>3, <1>8, HoldersCount
  <2>3. \A d \in Vcpus : vmOf[d] = v => ~cpuFile[d].open
    BY <2>2 DEF Holders, HoldsVm
  <2>4. \A d \in Vcpus : cpuFile[d].open => d # vcpu[v]
    BY <2>3, ConstantsAssumption DEF IInv, VcpuOK
  <2>5. \A t \in Threads : pc[t] \in CreateVcpuSteps => tvcpu[t] # vcpu[v]
    <3>1. SUFFICES ASSUME NEW t \in Threads, pc[t] \in CreateVcpuSteps,
                          tvcpu[t] = vcpu[v]
                   PROVE  FALSE
      OBVIOUS
    <3>2. tvcpu[t] \in Vcpus /\ tvcpu[t] # NULL
      BY <3>1, ConstantsAssumption DEF IInv, CreatingOK
    <3>3. vmOf[tvcpu[t]] = v
      BY <3>1, <3>2 DEF IInv, VcpuOK
    <3>4. vmOf[tvcpu[t]] = tvm[t]
      BY <3>1 DEF IInv, CreatingOK, VcpuOK, CreateVcpuSteps
    <3> QED BY <3>1, <3>3, <3>4, <1>2 DEF VmSteps
  <2>6. TypeOK'
    BY <1>4, <1>5, <2>1 DEF IInv, TypeOK
  <2>7. VmFilesOK'
    BY <1>2, <1>4, <2>1 DEF IInv, TypeOK, VmFilesOK, NoFile
  <2>8. CpuFilesOK'
    BY <1>4, <2>1, <2>3, <2>4 DEF IInv, TypeOK, CpuFilesOK, Creating
  <2>9. CreatingOK'
    BY <1>2, <1>4, <2>1, <2>5 DEF IInv, TypeOK, CreatingOK, CreateVcpuSteps
  <2>10. VcpuOK'
    <3>1. \A w \in Vms : vcpu'[w] # NULL => w # v /\ vcpu'[w] = vcpu[w]
      BY <2>1 DEF IInv, TypeOK
    <3>2. \A w \in Vms : vcpu'[w] # NULL => vcpu[w] # vcpu[v]
      BY <3>1 DEF IInv, VcpuOK
    <3>3. \A w \in Vms : vcpu'[w] # NULL => vcpu'[w] \in Vcpus
      BY <3>1 DEF IInv, TypeOK
    <3>4. \A w \in Vms :
            vcpu'[w] # NULL => parts'[vcpu'[w]] = Parts /\ vmOf'[vcpu'[w]] = w
      BY <1>4, <2>1, <3>1, <3>2, <3>3 DEF IInv, VcpuOK
    <3>5. \A w \in Vms : w \notin vmLive' => vcpu'[w] = NULL
      BY <2>1 DEF IInv, TypeOK, VcpuOK
    <3>6. \A w \in Vms, t \in Threads :
            pc'[t] \in CreateVcpuSteps /\ vcpu'[w] = tvcpu'[t] =>
              pc'[t] \in {"get", "getfd", "clear"}
      BY <1>4, <3>1, ConstantsAssumption DEF IInv, TypeOK, CreatingOK, VcpuOK
    <3> QED BY <3>4, <3>5, <3>6 DEF VcpuOK
  <2>11. LockOK'
    BY <1>4 DEF IInv, LockOK
  <2>12. AsidOK'
    BY <1>4, <2>1 DEF IInv, TypeOK, AsidOK, Parts
  <2>13. OwnedOK'
    BY <1>4, <2>1 DEF IInv, TypeOK, OwnedOK, Creating
  <2>14. RefOK'
    BY <1>4, <1>6, <1>7, <2>1 DEF IInv, TypeOK, RefOK
  <2> QED
    BY <2>6, <2>7, <2>8, <2>9, <2>10, <2>11, <2>12, <2>13, <2>14 DEF IInv
<1>9. CASE refcount[v] # 1
  <2>1. UNCHANGED <<vmLive, vcpu, parts>>
    BY <1>9 DEF yakvm_vm_release, yakvm_put_vm
  <2>2. TypeOK'
    BY <1>4, <1>5, <2>1 DEF IInv, TypeOK
  <2>3. VmFilesOK'
    BY <1>2, <1>4, <2>1 DEF IInv, TypeOK, VmFilesOK, NoFile
  <2>4. CpuFilesOK' /\ CreatingOK' /\ VcpuOK' /\ LockOK' /\ AsidOK' /\ OwnedOK'
    BY <1>4, <2>1 DEF IInv, CpuFilesOK, CreatingOK, VcpuOK, LockOK, AsidOK,
       OwnedOK, Creating
  <2>5. ASSUME NEW w \in vmLive'
        PROVE  /\ refcount'[w] # 0
               /\ refcount'[w] = (IF FileHoldsVm(w)' THEN 1 ELSE 0)
                                 + Cardinality(Holders(w)')
    <3>1. refcount[w] \in Nat /\ Cardinality(Holders(w)) \in Nat
      BY HoldersCount, <2>1 DEF IInv, TypeOK
    <3>2. CASE w = v
      BY <3>1, <3>2, <1>1, <1>3, <1>4, <1>6, <1>7, <1>9, <2>1 DEF IInv, TypeOK,
         RefOK
    <3>3. CASE w # v
      BY <3>3, <1>4, <1>6, <1>7, <2>1 DEF IInv, TypeOK, RefOK
    <3> QED BY <3>2, <3>3
  <2>6. RefOK'
    BY <2>5 DEF RefOK
  <2> QED BY <2>2, <2>3, <2>4, <2>6 DEF IInv
<1> QED BY <1>8, <1>9

(* ->release of a vcpu file.  When it drops the last reference, the vm file *)
(* is gone and no other vcpu of the vm has an open file.                    *)
LEMMA VcpuReleaseStep ==
  ASSUME IInv, NEW c \in Vcpus,
         yakvm_vcpu_release(c)
  PROVE  IInv'
<1> DEFINE v == vmOf[c]
<1>1. v \in vmLive /\ v \in Vms /\ vcpu[v] = c /\ c \in Holders(v)
  BY DEF IInv, TypeOK, CpuFilesOK, Holders, HoldsVm, yakvm_vcpu_release
<1>2. \A t \in Threads :
        /\ ~Creating(t, c)
        /\ ~(pc[t] = "vcpu_ioctl" /\ tvcpu[t] = c)
  BY DEF IInv, CpuFilesOK, yakvm_vcpu_release, CpuFileInUse
<1>3. /\ refcount[v] = (IF FileHoldsVm(v) THEN 1 ELSE 0) + Cardinality(Holders(v))
      /\ Cardinality(Holders(v)) \in Nat \ {0}
      /\ Cardinality(Holders(v) \ {c}) = Cardinality(Holders(v)) - 1
  BY <1>1, HoldersCount DEF IInv, RefOK
<1>4. /\ refcount' = [refcount EXCEPT ![v] = @ - 1]
      /\ cpuFile' = [cpuFile EXCEPT ![c] = NoFile]
      /\ UNCHANGED <<lock, vmFile, vmOf, asidOf, asid, panicked, pc, tvm, tvcpu,
                     result>>
  BY DEF yakvm_vcpu_release, yakvm_put_vm, hostVars, threadVars
<1>5. refcount' \in [Vms -> Nat] /\ cpuFile' \in [Vcpus -> File]
  <2>1. refcount[v] \in Nat \ {0}
    BY <1>3 DEF IInv
  <2>2. refcount' \in [Vms -> Nat]
    BY <2>1, <1>1, <1>4 DEF IInv, TypeOK
  <2>3. cpuFile' \in [Vcpus -> File]
    BY <1>4 DEF IInv, TypeOK, File, NoFile
  <2> QED BY <2>2, <2>3
<1>6. \A d \in Vcpus : HoldsVm(d)' <=> HoldsVm(d) /\ d # c
  BY <1>2, <1>4 DEF IInv, TypeOK, HoldsVm, NoFile, Creating, CreateVcpuSteps
<1>7. /\ Holders(v)' = Holders(v) \ {c}
      /\ \A w \in Vms \ {v} : Holders(w)' = Holders(w)
  BY <1>4, <1>6 DEF Holders
<1>8. \A w : FileHoldsVm(w)' <=> FileHoldsVm(w)
  BY <1>4 DEF FileHoldsVm
<1>9. CASE refcount[v] = 1
  <2>1. /\ vmLive' = vmLive \ {v}
        /\ vcpu' = [vcpu EXCEPT ![v] = NULL]
        /\ parts' = [d \in Vcpus |-> IF d = c THEN {} ELSE parts[d]]
    BY <1>1, <1>9 DEF yakvm_vcpu_release, yakvm_put_vm, yakvm_destroy_vm,
       yakvm_destroy_vcpu
  <2>2. ~FileHoldsVm(v) /\ Holders(v)' = {}
    <3>1. ~FileHoldsVm(v) /\ Cardinality(Holders(v)) = 1
      BY <1>3, <1>9
    <3>2. Cardinality(Holders(v) \ {c}) = 0 /\ IsFiniteSet(Holders(v) \ {c})
      BY <3>1, <1>3, HoldersCount, FS_Subset
    <3>3. Holders(v) \ {c} = {}
      BY <3>2, FS_EmptySet
    <3> QED BY <3>1, <3>3, <1>7
  <2>3. \A t \in Threads : pc[t] \in VmSteps \union {"vm_getfd"} => tvm[t] # v
    BY <2>2 DEF IInv, VmFilesOK, FileHoldsVm
  <2>4. \A d \in Vcpus : cpuFile'[d].open => d # c /\ vmOf[d] # v /\ cpuFile[d].open
    <3>1. \A d \in Vcpus : cpuFile'[d].open => d # c /\ cpuFile[d].open
      BY <1>4 DEF IInv, TypeOK, NoFile
    <3>2. \A d \in Vcpus \ {c} : cpuFile[d].open => vmOf[d] # v
      BY <1>1 DEF IInv, CpuFilesOK
    <3> QED BY <3>1, <3>2
  <2>5. TypeOK'
    BY <1>4, <1>5, <2>1 DEF IInv, TypeOK
  <2>6. VmFilesOK'
    BY <1>4, <2>1, <2>2, <2>3 DEF IInv, TypeOK, VmFilesOK, FileHoldsVm
  <2>7. CpuFilesOK'
    <3>1. \A d \in Vcpus :
            /\ cpuFile'[d].fd \/ cpuFile'[d].mapped => cpuFile'[d].open
            /\ cpuFile'[d].open =>
                 parts'[d] = Parts /\ vmOf'[d] \in vmLive' /\ vcpu'[vmOf'[d]] = d
      BY <1>4, <2>1, <2>4 DEF IInv, TypeOK, CpuFilesOK, NoFile
    <3>2. \A t \in Threads :
            pc'[t] = "vcpu_ioctl" => tvcpu'[t] \in Vcpus /\ cpuFile'[tvcpu'[t]].open
      BY <1>2, <1>4 DEF IInv, TypeOK, CpuFilesOK
    <3>3. \A d \in Vcpus, t \in Threads : cpuFile'[d].open => ~Creating(t, d)'
      BY <1>4, <2>4 DEF IInv, CpuFilesOK, Creating
    <3> QED BY <3>1, <3>2, <3>3 DEF CpuFilesOK
  <2>8. CreatingOK'
    BY <1>2, <1>4, <2>1, <2>3 DEF IInv, TypeOK, CreatingOK, Creating,
       CreateVcpuSteps, VmSteps
  <2>9. VcpuOK'
    <3>1. \A w \in Vms : vcpu'[w] # NULL => w # v /\ vcpu'[w] = vcpu[w]
      BY <1>1, <2>1 DEF IInv, TypeOK
    <3>2. \A w \in Vms : vcpu'[w] # NULL => vcpu[w] # c /\ vcpu[w] \in Vcpus
      BY <3>1, <1>1 DEF IInv, TypeOK, VcpuOK
    <3>3. \A w \in Vms :
            vcpu'[w] # NULL => parts'[vcpu'[w]] = Parts /\ vmOf'[vcpu'[w]] = w
      BY <1>4, <2>1, <3>1, <3>2 DEF IInv, VcpuOK
    <3>4. \A w \in Vms : w \notin vmLive' => vcpu'[w] = NULL
      BY <1>1, <2>1 DEF IInv, TypeOK, VcpuOK
    <3>5. \A w \in Vms, t \in Threads :
            pc'[t] \in CreateVcpuSteps /\ vcpu'[w] = tvcpu'[t] =>
              pc'[t] \in {"get", "getfd", "clear"}
      BY <1>4, <3>1, ConstantsAssumption DEF IInv, TypeOK, CreatingOK, VcpuOK
    <3> QED BY <3>3, <3>4, <3>5 DEF VcpuOK
  <2>10. LockOK'
    BY <1>4 DEF IInv, LockOK
  <2>11. AsidOK'
    BY <1>4, <2>1, ZenonT(60) DEF IInv, TypeOK, AsidOK
  <2>12. OwnedOK'
    BY <1>1, <1>4, <2>1 DEF IInv, TypeOK, OwnedOK, Creating
  <2>13. RefOK'
    BY <1>1, <1>4, <1>7, <1>8, <2>1 DEF IInv, TypeOK, RefOK
  <2> QED
    BY <2>5, <2>6, <2>7, <2>8, <2>9, <2>10, <2>11, <2>12, <2>13 DEF IInv
<1>10. CASE refcount[v] # 1
  <2>1. UNCHANGED <<vmLive, vcpu, parts>>
    BY <1>10 DEF yakvm_vcpu_release, yakvm_put_vm
  <2>2. TypeOK'
    BY <1>4, <1>5, <2>1 DEF IInv, TypeOK
  <2>3. VmFilesOK' /\ CreatingOK' /\ VcpuOK' /\ LockOK' /\ AsidOK' /\ OwnedOK'
    BY <1>4, <2>1 DEF IInv, VmFilesOK, CreatingOK, VcpuOK, LockOK, AsidOK,
       OwnedOK, Creating
  <2>4. CpuFilesOK'
    BY <1>2, <1>4, <2>1 DEF IInv, TypeOK, CpuFilesOK, Creating, NoFile
  <2>5. ASSUME NEW w \in vmLive'
        PROVE  /\ refcount'[w] # 0
               /\ refcount'[w] = (IF FileHoldsVm(w)' THEN 1 ELSE 0)
                                 + Cardinality(Holders(w)')
    <3>1. refcount[w] \in Nat /\ Cardinality(Holders(w)) \in Nat
      BY HoldersCount, <2>1 DEF IInv, TypeOK
    <3>2. CASE w = v
      BY <3>1, <3>2, <1>1, <1>3, <1>4, <1>7, <1>8, <1>10, <2>1 DEF IInv, TypeOK,
         RefOK
    <3>3. CASE w # v
      BY <3>3, <1>1, <1>4, <1>7, <1>8, <2>1 DEF IInv, TypeOK, RefOK
    <3> QED BY <3>2, <3>3
  <2>6. RefOK'
    BY <2>5 DEF RefOK
  <2> QED BY <2>2, <2>3, <2>4, <2>6 DEF IInv
<1> QED BY <1>9, <1>10

-----------------------------------------------------------------------------
(* The initial state satisfies the invariant: nothing exists.               *)
LEMMA InitIInv == Init => IInv
<1> SUFFICES ASSUME Init PROVE IInv
  OBVIOUS
<1>1. TypeOK
  BY DEF Init, TypeOK, File, NoFile, Steps, VmSteps, CreateVcpuSteps, Results
<1>2. VmFilesOK /\ CpuFilesOK /\ CreatingOK /\ VcpuOK
  BY DEF Init, VmFilesOK, CpuFilesOK, CreatingOK, VcpuOK, NoFile, VmSteps,
     CreateVcpuSteps
<1>3. LockOK /\ RefOK /\ AsidOK /\ OwnedOK
  BY DEF Init, LockOK, RefOK, AsidOK, OwnedOK
<1> QED BY <1>1, <1>2, <1>3 DEF IInv

(* Every step of the driver, of user space and of the kernel keeps it.      *)
LEMMA NextIInv == IInv /\ [Next]_vars => IInv'
<1> SUFFICES ASSUME IInv, [Next]_vars PROVE IInv'
  OBVIOUS
<1>1. ASSUME NEW t \in Threads, HandlerStep(t) PROVE IInv'
  BY <1>1, VmGetfdStep, VmGetfdFailStep, KmallocStep, ReturnStep, AllocPageStep,
     AllocPageFailStep, InitVmcbStep, LockStep, ExistsStep, CheckStep, SetStep,
     GetVmStep, GetfdStep, ClearStep, PutStep, DestroyStep DEF HandlerStep
<1>2. ASSUME NEW t \in Threads, UserCall(t) PROVE IInv'
  BY <1>2, CreateVmStep, ReturnStep, EnterVmStep, VcpuIoctlStep DEF UserCall
<1>3. CASE UserFileOp
  BY <1>3, VmFileOpStep, VcpuFileOpStep DEF UserFileOp
<1>4. CASE Release
  BY <1>4, VmReleaseStep, VcpuReleaseStep DEF Release
<1>5. CASE Halted \/ UNCHANGED vars
  <2>1. UNCHANGED vars
    BY <1>5 DEF Halted
  <2>2. TypeOK' /\ VmFilesOK'
    BY <2>1 DEF vars, IInv, TypeOK, VmFilesOK
  <2>3. CpuFilesOK' /\ OwnedOK'
    BY <2>1 DEF vars, IInv, CpuFilesOK, OwnedOK, Creating
  <2>4. CreatingOK' /\ VcpuOK' /\ LockOK' /\ AsidOK'
    BY <2>1 DEF vars, IInv, CreatingOK, VcpuOK, LockOK, AsidOK
  <2>5. RefOK'
    BY <2>1 DEF vars, IInv, RefOK, Holders, HoldsVm, FileHoldsVm
  <2> QED BY <2>2, <2>3, <2>4, <2>5 DEF IInv
<1> QED BY <1>1, <1>2, <1>3, <1>4, <1>5 DEF Next

(* The invariant holds in every state of every execution.                   *)
THEOREM Invariance == Spec => []IInv
BY InitIInv, NextIInv, PTL DEF Spec

(* Every variable keeps its type; in particular no reference count drops    *)
(* below zero: yakvm_put_vm() is never called without a reference.          *)
THEOREM TypeCorrectness == Spec => []TypeOK
<1>1. IInv => TypeOK
  BY DEF IInv
<1> QED BY <1>1, Invariance, PTL

(* No handler, file or vcpu ever refers to a vm or a vcpu that is freed,    *)
(* for any number of threads.                                               *)
THEOREM NoUseAfterFreeTheorem == Spec => []NoUseAfterFree
<1>1. IInv => NoUseAfterFree
  BY DEF IInv, TypeOK, VmFilesOK, CpuFilesOK, CreatingOK, VcpuOK, NoUseAfterFree
<1> QED BY <1>1, Invariance, PTL

(* vm->refcount is exactly the number of the vm's holders.                  *)
THEOREM RefcountTheorem == Spec => []RefcountExact
<1>1. IInv => RefcountExact
  BY DEF IInv, RefOK, RefcountExact, Holders
<1> QED BY <1>1, Invariance, PTL

(* A vm has a holder, and an allocation of a vcpu an owner, that will free  *)
(* it.                                                                      *)
THEOREM NoLeakTheorem == Spec => []NoLeak
<1>1. ASSUME IInv, NEW v \in vmLive
      PROVE  FileHoldsVm(v) \/ \E c \in Vcpus : HoldsVm(c) /\ vmOf[c] = v
  <2>1. SUFFICES ASSUME ~FileHoldsVm(v) PROVE Holders(v) # {}
    BY DEF Holders
  <2>2. refcount[v] # 0 /\ refcount[v] = 0 + Cardinality(Holders(v))
    BY <1>1, <2>1 DEF IInv, RefOK
  <2> QED BY <2>2, HoldersCount
<1>2. ASSUME IInv, NEW c \in Vcpus, parts[c] # {}
      PROVE  (\E t \in Threads : Creating(t, c)) \/ \E v \in vmLive : vcpu[v] = c
  BY <1>2, ConstantsAssumption DEF IInv, OwnedOK, VcpuOK
<1>3. IInv => NoLeak
  BY <1>1, <1>2 DEF NoLeak
<1> QED BY <1>3, Invariance, PTL

(* A vm has at most one usable vcpu, the one in vm->vcpu.                   *)
THEOREM OneVcpuPerVmTheorem == Spec => []OneVcpuPerVm
<1>1. IInv => OneVcpuPerVm
  BY DEF IInv, CpuFilesOK, OneVcpuPerVm
<1> QED BY <1>1, Invariance, PTL

(* Vcpus that exist at the same time have different ASIDs, none of them 0.  *)
THEOREM AsidUniqueTheorem == Spec => []AsidUnique
<1>1. IInv => AsidUnique
  BY DEF IInv, AsidOK, AsidUnique
<1> QED BY <1>1, Invariance, PTL

(* A step that leaves the vm in place leaves alone a vcpu in vm->vcpu that  *)
(* nobody is creating.                                                      *)
LEMMA VcpuKept ==
  ASSUME IInv, [Next]_vars,
         NEW v \in vmLive, v \in vmLive',
         vcpu[v] # NULL, \A t \in Threads : ~Creating(t, vcpu[v])
  PROVE  vcpu'[v] = vcpu[v]
<1>1. v \in Vms /\ vcpu \in [Vms -> Vcpus \union {NULL}]
  BY DEF IInv, TypeOK
<1>2. ASSUME NEW t \in Threads, HandlerStep(t) PROVE vcpu'[v] = vcpu[v]
  <2>1. CASE vm_getfd_fail(t)
    BY <2>1, <1>1 DEF vm_getfd_fail, yakvm_destroy_vm
  <2>2. CASE create_vcpu_set(t)
    BY <2>2, <1>1 DEF IInv, CreatingOK, create_vcpu_set, At
  <2>3. CASE create_vcpu_clear(t)
    BY <2>3, <1>1 DEF IInv, CreatingOK, Creating, CreateVcpuSteps,
       create_vcpu_clear, At
  <2>4. CASE create_vcpu_put(t)
    BY <2>4, <1>1 DEF create_vcpu_put, yakvm_put_vm, yakvm_destroy_vm
  <2>5. CASE \/ vm_getfd(t)
             \/ \E c \in Vcpus : create_vcpu_kmalloc(t, c)
             \/ create_vcpu_kmalloc_fail(t)
             \/ create_vcpu_alloc_page(t)
             \/ create_vcpu_alloc_page_fail(t)
             \/ yakvm_vcpu_init_vmcb(t)
             \/ create_vcpu_lock(t)
             \/ create_vcpu_exists(t)
    BY <2>5 DEF vm_getfd, create_vcpu_kmalloc, create_vcpu_kmalloc_fail,
       create_vcpu_alloc_page, create_vcpu_alloc_page_fail,
       yakvm_vcpu_init_vmcb, create_vcpu_lock, create_vcpu_exists, vmVars
  <2>6. CASE \/ create_vcpu_check(t)
             \/ yakvm_get_vm(t)
             \/ create_vcpu_getfd(t)
             \/ create_vcpu_getfd_fail(t)
             \/ create_vcpu_destroy(t)
             \/ walk_return(t)
             \/ vcpu_ioctl_return(t)
    BY <2>6 DEF create_vcpu_check, yakvm_get_vm, create_vcpu_getfd,
       create_vcpu_getfd_fail, create_vcpu_destroy, walk_return,
       vcpu_ioctl_return, vmVars
  <2> QED BY <1>2, <2>1, <2>2, <2>3, <2>4, <2>5, <2>6 DEF HandlerStep
<1>3. ASSUME NEW t \in Threads, UserCall(t) PROVE vcpu'[v] = vcpu[v]
  BY <1>1, <1>3 DEF UserCall, yakvm_create_vm, yakvm_create_vm_fail,
     yakvm_vm_ioctl_create_vcpu, yakvm_vm_ioctl_mmap_page, yakvm_vm_vmm_fault,
     yakvm_vcpu_ioctl, vmVars
<1>4. CASE UserFileOp
  BY <1>4 DEF UserFileOp, yakvm_vm_mmap, vm_munmap, vm_close,
     yakvm_vcpu_state_mmap, vcpu_munmap, vcpu_close, vmVars
<1>5. CASE Release
  BY <1>1, <1>5, ZenonT(60) DEF Release, yakvm_vm_release, yakvm_vcpu_release,
     yakvm_put_vm, yakvm_destroy_vm
<1>6. CASE Halted \/ UNCHANGED vars
  BY <1>6 DEF Halted, vars
<1> QED BY <1>2, <1>3, <1>4, <1>5, <1>6 DEF Next

(* Once created, the vcpu stays in vm->vcpu as long as the vm exists: the   *)
(* test of vm->vcpu under vm->lock refuses every later YAKVM_CREATE_VCPU.   *)
THEOREM VcpuForGoodTheorem == Spec => VcpuForGood
<1>1. IInv /\ [Next]_vars =>
        [\A v \in vmLive \cap vmLive' :
           (vcpu[v] # NULL /\ ~ \E t \in Threads : Creating(t, vcpu[v]))
             => vcpu'[v] = vcpu[v]]_vars
  BY VcpuKept
<1> QED BY <1>1, Invariance, PTL DEF Spec, VcpuForGood
=============================================================================
