-------------------------- MODULE VmContractProofs --------------------------
(***************************************************************************)
(* VmLifetime implements VmContract, for any number of vms, vcpus and      *)
(* threads: the initial state is one of the contract, and every step is a  *)
(* step of the contract or leaves what it speaks about alone.              *)
(***************************************************************************)
EXTENDS VmLifetimeProofs

-----------------------------------------------------------------------------
(* The three variables of the contract.                                     *)
LiveVms == vmLive \ Private
OpenVms == {v \in Vms : vmFile[v].open}
VcpuFiles == [v \in Vms |-> VcpuFile(v)]

InCreation(c) == \E t \in Threads : Creating(t, c)

(* The state of the vcpu's file is a matter of vm->vcpu: no other vcpu of   *)
(* the vm has an open file.                                                 *)
FileStates ==
  \A v \in Vms :
    /\ vcpu[v] = NULL => VcpuFile(v) = "none"
    /\ vcpu[v] # NULL /\ cpuFile[vcpu[v]].open => VcpuFile(v) = "open"
    /\ vcpu[v] # NULL /\ ~cpuFile[vcpu[v]].open =>
         VcpuFile(v) = IF InCreation(vcpu[v]) THEN "none" ELSE "closed"
    /\ vcpu[v] # NULL /\ InCreation(vcpu[v]) => ~cpuFile[vcpu[v]].open

(* A published vcpu points back, so it is the one to look at.               *)
LEMMA FileStatesOK == IInv => FileStates
<1> SUFFICES ASSUME IInv, NEW v \in Vms
             PROVE  /\ vcpu[v] = NULL => VcpuFile(v) = "none"
                    /\ vcpu[v] # NULL /\ cpuFile[vcpu[v]].open =>
                         VcpuFile(v) = "open"
                    /\ vcpu[v] # NULL /\ ~cpuFile[vcpu[v]].open =>
                         VcpuFile(v) =
                           IF InCreation(vcpu[v]) THEN "none" ELSE "closed"
                    /\ vcpu[v] # NULL /\ InCreation(vcpu[v]) =>
                         ~cpuFile[vcpu[v]].open
  BY DEF FileStates
<1>1. vcpu[v] # NULL => vcpu[v] \in Vcpus /\ vmOf[vcpu[v]] = v
  BY DEF IInv, TypeOK, VcpuOK
<1>2. \A c \in Vcpus :
        cpuFile[c].open /\ vmOf[c] = v => vcpu[v] = c /\ c # NULL
  BY ConstantsAssumption DEF IInv, CpuFilesOK
<1>3. (\E c \in Vcpus : cpuFile[c].open /\ vmOf[c] = v)
        <=> vcpu[v] # NULL /\ cpuFile[vcpu[v]].open
  BY <1>1, <1>2
<1>4. vcpu[v] # NULL /\ InCreation(vcpu[v]) => ~cpuFile[vcpu[v]].open
  BY <1>1 DEF IInv, CpuFilesOK, InCreation
<1> QED BY <1>3, <1>4 DEF VcpuFile, InCreation

(* The same after a step.                                                   *)
LEMMA FileStatesNext == IInv' => FileStates'
BY FileStatesOK, PTL

(* A step that the contract does not see.                                   *)
Quiet == UNCHANGED <<LiveVms, OpenVms, VcpuFiles>>

(* Thread u does not move, or does nothing to vm->vcpu's creation.          *)
StillCreating(u) ==
  \/ pc'[u] = pc[u] /\ tvm'[u] = tvm[u] /\ tvcpu'[u] = tvcpu[u]
  \/ /\ pc[u] # "vm_getfd" /\ pc'[u] # "vm_getfd"
     /\ \A v \in Vms :
          vcpu[v] # NULL => (Creating(u, vcpu[v])' <=> Creating(u, vcpu[v]))

(* Where no file opens or closes and vm->vcpu stays, nothing is seen.       *)
LEMMA QuietStep ==
  ASSUME IInv, IInv', UNCHANGED <<vmLive, vcpu>>,
         \A v \in Vms : vmFile'[v].open = vmFile[v].open,
         \A c \in Vcpus : cpuFile'[c].open = cpuFile[c].open,
         \A u \in Threads : StillCreating(u)
  PROVE  Quiet
<1>1. Private' = Private
  <2>1. \A u \in Threads :
          /\ pc'[u] = "vm_getfd" <=> pc[u] = "vm_getfd"
          /\ pc[u] = "vm_getfd" => tvm'[u] = tvm[u]
    BY DEF StillCreating
  <2> QED BY <2>1 DEF Private
<1>2. ASSUME NEW v \in Vms
      PROVE  VcpuFile(v)' = VcpuFile(v)
  <2>1. vcpu[v] # NULL => vcpu[v] \in Vcpus
    BY DEF IInv, TypeOK
  <2>2. vcpu[v] # NULL => (InCreation(vcpu[v])' <=> InCreation(vcpu[v]))
    BY DEF StillCreating, InCreation, Creating
  <2> QED BY <2>1, <2>2, FileStatesOK, FileStatesNext DEF FileStates
<1>3. LiveVms' = LiveVms /\ OpenVms' = OpenVms
  BY <1>1 DEF LiveVms, OpenVms
<1>4. VcpuFiles' = VcpuFiles
  BY <1>2 DEF VcpuFiles
<1> QED BY <1>3, <1>4 DEF Quiet

-----------------------------------------------------------------------------
(* A thread enters a handler on a file, or returns from one that creates    *)
(* nothing.                                                                 *)
LEMMA QuietCall ==
  ASSUME IInv, IInv', NEW t \in Threads, UNCHANGED <<vmVars, vcpuVars>>,
         \A u \in Threads \ {t} :
           pc'[u] = pc[u] /\ tvm'[u] = tvm[u] /\ tvcpu'[u] = tvcpu[u],
         pc[t] \notin CreateVcpuSteps \union {"vm_getfd"},
         pc'[t] \notin CreateVcpuSteps \union {"vm_getfd"}
  PROVE  Quiet
<1>1. \A c : ~Creating(t, c) /\ ~Creating(t, c)'
  BY DEF Creating
<1>2. \A u \in Threads : StillCreating(u)
  BY <1>1 DEF StillCreating, Creating
<1> QED BY <1>2, QuietStep DEF vmVars, vcpuVars

(* A thread goes on creating a vcpu, whether it is published or not.        *)
LEMMA QuietCreating ==
  ASSUME IInv, IInv', NEW t \in Threads,
         UNCHANGED <<vmLive, vcpu, vmFile, cpuFile, tvm, tvcpu>>,
         NEW p \in CreateVcpuSteps,
         pc' = [pc EXCEPT ![t] = p], pc[t] \in CreateVcpuSteps
  PROVE  Quiet
<1>1. pc'[t] = p /\ \A u \in Threads \ {t} : pc'[u] = pc[u]
  BY DEF IInv, TypeOK
<1>2. \A v \in Vms : Creating(t, vcpu[v])' <=> Creating(t, vcpu[v])
  BY <1>1 DEF Creating
<1>3. pc[t] # "vm_getfd" /\ pc'[t] # "vm_getfd"
  BY <1>1 DEF CreateVcpuSteps
<1>4. \A u \in Threads : StillCreating(u)
  BY <1>1, <1>2, <1>3 DEF StillCreating
<1> QED BY <1>4, QuietStep

(* The steps of a creation between its allocations and its file.            *)
LEMMA CreationQuiet ==
  ASSUME IInv, IInv', NEW t \in Threads,
         \/ create_vcpu_alloc_page(t)
         \/ yakvm_vcpu_init_vmcb(t)
         \/ create_vcpu_lock(t)
         \/ create_vcpu_exists(t)
         \/ create_vcpu_check(t)
         \/ yakvm_get_vm(t)
         \/ create_vcpu_getfd_fail(t)
  PROVE  Quiet
<1> USE DEF At, Goto, CreateVcpuSteps, vmVars, vcpuVars
<1>1. CASE create_vcpu_alloc_page(t)
  <2>1. PICK k \in NextPart(tvcpu[t]) :
          Goto(t, IF k = 6 THEN "init" ELSE "alloc")
    BY <1>1 DEF create_vcpu_alloc_page
  <2> DEFINE p == IF k = 6 THEN "init" ELSE "alloc"
  <2>2. p \in CreateVcpuSteps /\ pc' = [pc EXCEPT ![t] = p]
    BY <2>1
  <2>3. /\ pc[t] \in CreateVcpuSteps
        /\ UNCHANGED <<vmLive, vcpu, vmFile, cpuFile, tvm, tvcpu>>
    BY <1>1 DEF create_vcpu_alloc_page
  <2> HIDE DEF p
  <2> QED BY <2>2, <2>3, QuietCreating
<1>2. CASE yakvm_vcpu_init_vmcb(t)
  BY <1>2, QuietCreating DEF yakvm_vcpu_init_vmcb
<1>3. CASE create_vcpu_lock(t)
  BY <1>3, QuietCreating DEF create_vcpu_lock
<1>4. CASE create_vcpu_exists(t)
  BY <1>4, QuietCreating DEF create_vcpu_exists
<1>5. CASE create_vcpu_check(t)
  BY <1>5, QuietCreating DEF create_vcpu_check
<1>6. CASE yakvm_get_vm(t)
  BY <1>6, QuietCreating DEF yakvm_get_vm
<1>7. CASE create_vcpu_getfd_fail(t)
  BY <1>7, QuietCreating DEF create_vcpu_getfd_fail
<1> QED BY <1>1, <1>2, <1>3, <1>4, <1>5, <1>6, <1>7

(* kmalloc() of a vcpu, and the end of a creation that never published or   *)
(* has withdrawn it: the vcpu is in no vm->vcpu.                            *)
LEMMA UnpublishedQuiet ==
  ASSUME IInv, IInv', NEW t \in Threads,
         UNCHANGED <<vmLive, vcpu, vmFile, cpuFile>>,
         \A u \in Threads \ {t} :
           pc'[u] = pc[u] /\ tvm'[u] = tvm[u] /\ tvcpu'[u] = tvcpu[u],
         pc[t] # "vm_getfd", pc'[t] # "vm_getfd",
         \A v \in Vms : vcpu[v] # NULL =>
           ~Creating(t, vcpu[v]) /\ ~Creating(t, vcpu[v])'
  PROVE  Quiet
<1>1. \A u \in Threads : StillCreating(u)
  BY DEF StillCreating
<1> QED BY <1>1, QuietStep

(* A new vcpu is in no vm->vcpu.                                            *)
LEMMA KmallocQuiet ==
  ASSUME IInv, IInv', NEW t \in Threads, NEW c \in Vcpus,
         create_vcpu_kmalloc(t, c)
  PROVE  Quiet
<1>1. /\ pc[t] = "create_vcpu" /\ parts[c] = {}
      /\ pc' = [pc EXCEPT ![t] = "alloc"] /\ tvcpu' = [tvcpu EXCEPT ![t] = c]
      /\ UNCHANGED <<vmLive, vcpu, vmFile, cpuFile, tvm>>
  BY DEF create_vcpu_kmalloc, At, Goto, vmVars
<1>2. /\ pc'[t] = "alloc" /\ tvcpu'[t] = c
      /\ \A u \in Threads \ {t} :
           pc'[u] = pc[u] /\ tvm'[u] = tvm[u] /\ tvcpu'[u] = tvcpu[u]
  BY <1>1 DEF IInv, TypeOK
<1>3. \A v \in Vms : vcpu[v] # NULL => vcpu[v] # c
  BY <1>1 DEF IInv, VcpuOK, Parts
<1>4. \A v \in Vms : vcpu[v] # NULL =>
        ~Creating(t, vcpu[v]) /\ ~Creating(t, vcpu[v])'
  BY <1>1, <1>2, <1>3 DEF Creating, CreateVcpuSteps
<1> QED BY <1>1, <1>2, <1>4, UnpublishedQuiet

(* A failed creation ends after its vcpu is withdrawn.                      *)
LEMMA EndQuiet ==
  ASSUME IInv, IInv', NEW t \in Threads,
         create_vcpu_alloc_page_fail(t) \/ create_vcpu_destroy(t)
  PROVE  Quiet
<1>1. /\ pc[t] \in {"alloc", "destroy"}
      /\ UNCHANGED <<vmLive, vcpu, vmFile, cpuFile>>
  BY DEF create_vcpu_alloc_page_fail, create_vcpu_destroy, At, vmVars
<1>2. PICK r : Return(t, r)
  BY DEF create_vcpu_alloc_page_fail, create_vcpu_destroy
<1>3. /\ pc'[t] = "idle"
      /\ \A u \in Threads \ {t} :
           pc'[u] = pc[u] /\ tvm'[u] = tvm[u] /\ tvcpu'[u] = tvcpu[u]
  BY <1>2 DEF Return, IInv, TypeOK
<1>4. \A v \in Vms : ~Creating(t, vcpu[v]) /\ ~Creating(t, vcpu[v])'
  BY <1>1, <1>3 DEF IInv, VcpuOK, Creating, CreateVcpuSteps
<1> QED BY <1>1, <1>3, <1>4, UnpublishedQuiet

-----------------------------------------------------------------------------
(* create_vcpu_set() publishes a vcpu that is in creation, and              *)
(* create_vcpu_clear() withdraws it: the contract sees no vcpu yet.         *)
LEMMA PublishQuiet ==
  ASSUME IInv, IInv', NEW t \in Threads, NEW c \in Vcpus \union {NULL},
         UNCHANGED <<vmLive, vmFile, cpuFile, tvm, tvcpu>>,
         vcpu' = [vcpu EXCEPT ![tvm[t]] = c],
         NEW p \in CreateVcpuSteps, pc[t] \in CreateVcpuSteps,
         pc' = [pc EXCEPT ![t] = p],
         vcpu[tvm[t]] \in {NULL, tvcpu[t]},
         c \in {NULL, tvcpu[t]}
  PROVE  Quiet
<1> DEFINE w == tvm[t]
<1>1. /\ pc'[t] = p /\ \A u \in Threads \ {t} : pc'[u] = pc[u]
      /\ pc[t] # "vm_getfd" /\ p # "vm_getfd"
  BY DEF IInv, TypeOK, CreateVcpuSteps
<1>2. w \in Vms /\ tvcpu[t] \in Vcpus /\ tvcpu[t] # NULL
  BY ConstantsAssumption DEF IInv, VmFilesOK, CreatingOK, VmSteps
<1>3. vcpu'[w] = c /\ \A v \in Vms \ {w} : vcpu'[v] = vcpu[v]
  BY <1>2 DEF IInv, TypeOK
<1>4. Private' = Private
  BY <1>1 DEF Private
<1>5. \A d : InCreation(d)' <=> InCreation(d)
  BY <1>1 DEF InCreation, Creating
<1>6. InCreation(tvcpu[t])
  BY DEF InCreation, Creating
<1>7. VcpuFile(w) = "none" /\ VcpuFile(w)' = "none"
  <2>1. VcpuFile(w) = "none"
    BY <1>2, <1>6, FileStatesOK DEF FileStates
  <2>2. VcpuFile(w)' = "none"
    <3>1. CASE c = NULL
      BY <1>2, <1>3, <3>1, FileStatesNext DEF FileStates
    <3>2. CASE c = tvcpu[t]
      <4>1. vcpu'[w] = tvcpu[t] /\ vcpu'[w] # NULL
        BY <1>2, <1>3, <3>2
      <4>2. InCreation(vcpu[w])'
        BY <1>1, <4>1 DEF InCreation, Creating
      <4> QED BY <1>2, <4>1, <4>2, FileStatesNext DEF FileStates
    <3> QED BY <3>1, <3>2
  <2> QED BY <2>1, <2>2
<1>8. ASSUME NEW v \in Vms, v # w
      PROVE  VcpuFile(v)' = VcpuFile(v)
  <2>1. vcpu'[v] = vcpu[v]
    BY <1>3, <1>8
  <2>2. InCreation(vcpu[v])' <=> InCreation(vcpu[v])
    BY <1>5, <2>1 DEF InCreation, Creating
  <2> QED BY <2>1, <2>2, FileStatesOK, FileStatesNext DEF FileStates
<1>9. LiveVms' = LiveVms /\ OpenVms' = OpenVms
  BY <1>4 DEF LiveVms, OpenVms
<1>10. VcpuFiles' = VcpuFiles
  BY <1>7, <1>8 DEF VcpuFiles
<1> QED BY <1>9, <1>10 DEF Quiet

(* The two steps that do so.                                                *)
LEMMA SetClearQuiet ==
  ASSUME IInv, IInv', NEW t \in Threads,
         create_vcpu_set(t) \/ create_vcpu_clear(t)
  PROVE  Quiet
<1>1. CASE create_vcpu_set(t)
  <2>1. /\ pc[t] = "set" /\ pc' = [pc EXCEPT ![t] = "get"]
        /\ vcpu' = [vcpu EXCEPT ![tvm[t]] = tvcpu[t]]
        /\ UNCHANGED <<vmLive, vmFile, cpuFile, tvm, tvcpu>>
    BY <1>1 DEF create_vcpu_set, At, Goto, vcpuVars
  <2>2. vcpu[tvm[t]] = NULL /\ tvcpu[t] \in Vcpus
    BY <2>1 DEF IInv, CreatingOK, CreateVcpuSteps
  <2>3. "get" \in CreateVcpuSteps /\ "set" \in CreateVcpuSteps
    BY DEF CreateVcpuSteps
  <2> QED BY <2>1, <2>2, <2>3, PublishQuiet
<1>2. CASE create_vcpu_clear(t)
  <2>1. /\ pc[t] = "clear" /\ pc' = [pc EXCEPT ![t] = "put"]
        /\ vcpu' = [vcpu EXCEPT ![tvm[t]] = NULL]
        /\ UNCHANGED <<vmLive, vmFile, cpuFile, tvm, tvcpu>>
    BY <1>2 DEF create_vcpu_clear, At, Goto, vcpuVars
  <2>2. vcpu[tvm[t]] = tvcpu[t]
    BY <2>1 DEF IInv, CreatingOK, CreateVcpuSteps
  <2>3. "clear" \in CreateVcpuSteps /\ "put" \in CreateVcpuSteps
    BY DEF CreateVcpuSteps
  <2> QED BY <2>1, <2>2, <2>3, PublishQuiet
<1> QED BY <1>1, <1>2

(* The reference a failed creation drops is never the last one: its handler *)
(* runs on the vm's file.                                                   *)
LEMMA PutQuiet ==
  ASSUME IInv, IInv', NEW t \in Threads, create_vcpu_put(t)
  PROVE  Quiet
<1> DEFINE v == tvm[t]
           c == tvcpu[t]
<1>1. /\ pc[t] = "put" /\ pc' = [pc EXCEPT ![t] = "destroy"]
      /\ UNCHANGED <<tvm, tvcpu, vmFile, cpuFile>>
  BY DEF create_vcpu_put, At, Goto
<1>2. v \in vmLive /\ vmFile[v].open
  BY <1>1 DEF IInv, VmFilesOK, CreateVcpuSteps, VmSteps
<1>3. c \in Holders(v)
  BY <1>1 DEF IInv, CreatingOK, CreateVcpuSteps, Holders, HoldsVm
<1>4. refcount[v] # 1
  BY <1>2, <1>3, HoldersCount DEF IInv, RefOK, FileHoldsVm
<1>5. UNCHANGED <<vmLive, vcpu>>
  BY <1>4 DEF create_vcpu_put, yakvm_put_vm
<1>6. "put" \in CreateVcpuSteps /\ "destroy" \in CreateVcpuSteps
  BY DEF CreateVcpuSteps
<1> QED BY <1>1, <1>5, <1>6, QuietCreating

(* A vm that nobody has seen yet comes and, when its file cannot be         *)
(* installed, goes.                                                         *)
LEMMA PrivateQuiet ==
  ASSUME IInv, IInv', NEW t \in Threads,
         (\E v \in Vms : yakvm_create_vm(t, v)) \/ vm_getfd_fail(t)
  PROVE  Quiet
<1>1. ASSUME NEW w \in Vms, UNCHANGED <<vmFile, cpuFile>>,
             vcpu[w] = NULL, vcpu' = [vcpu EXCEPT ![w] = NULL],
             LiveVms' = LiveVms,
             \A u \in Threads \ {t} :
               pc'[u] = pc[u] /\ tvm'[u] = tvm[u] /\ tvcpu'[u] = tvcpu[u],
             pc[t] \notin CreateVcpuSteps, pc'[t] \notin CreateVcpuSteps
      PROVE  Quiet
  <2>1. vcpu' = vcpu
    BY <1>1 DEF IInv, TypeOK
  <2>2. \A v \in Vms : InCreation(vcpu[v])' <=> InCreation(vcpu[v])
    BY <1>1, <2>1 DEF InCreation, Creating
  <2>3. \A v \in Vms : VcpuFile(v)' = VcpuFile(v)
    BY <1>1, <2>1, <2>2, FileStatesOK, FileStatesNext DEF FileStates
  <2>4. OpenVms' = OpenVms /\ VcpuFiles' = VcpuFiles
    BY <1>1, <2>3 DEF OpenVms, VcpuFiles
  <2> QED BY <1>1, <2>4 DEF Quiet
<1>2. ASSUME NEW v \in Vms, yakvm_create_vm(t, v)
      PROVE  Quiet
  <2>1. /\ v \notin vmLive /\ vmLive' = vmLive \union {v}
        /\ pc[t] = "idle"
        /\ pc' = [pc EXCEPT ![t] = "vm_getfd"]
        /\ tvm' = [tvm EXCEPT ![t] = v]
        /\ vcpu' = [vcpu EXCEPT ![v] = NULL]
        /\ UNCHANGED <<vmFile, cpuFile, tvcpu>>
    BY <1>2 DEF yakvm_create_vm, Enter, At, vcpuVars
  <2>2. /\ pc'[t] = "vm_getfd" /\ tvm'[t] = v
        /\ \A u \in Threads \ {t} :
             pc'[u] = pc[u] /\ tvm'[u] = tvm[u] /\ tvcpu'[u] = tvcpu[u]
    BY <2>1 DEF IInv, TypeOK
  <2>3. vcpu[v] = NULL
    BY <2>1 DEF IInv, VcpuOK
  <2>4. Private' = Private \union {v}
    BY <2>1, <2>2 DEF Private
  <2>5. LiveVms' = LiveVms
    BY <2>1, <2>4 DEF LiveVms
  <2> QED BY <1>1, <2>1, <2>2, <2>3, <2>5 DEF CreateVcpuSteps
<1>3. CASE vm_getfd_fail(t)
  <2> DEFINE v == tvm[t]
  <2>1. /\ pc[t] = "vm_getfd" /\ vmLive' = vmLive \ {v}
        /\ vcpu' = [vcpu EXCEPT ![v] = NULL]
        /\ Return(t, "error")
        /\ UNCHANGED <<vmFile, cpuFile>>
    BY <1>3 DEF vm_getfd_fail, At, yakvm_destroy_vm
  <2>2. /\ pc'[t] = "idle"
        /\ \A u \in Threads \ {t} :
             pc'[u] = pc[u] /\ tvm'[u] = tvm[u] /\ tvcpu'[u] = tvcpu[u]
    BY <2>1 DEF Return, IInv, TypeOK
  <2>3. v \in vmLive /\ v \in Vms /\ vcpu[v] = NULL
    BY <2>1 DEF IInv, TypeOK, VmFilesOK
  <2>4. Private' = Private \ {v} /\ v \in Private
    <3>1. \A u \in Threads \ {t} : pc[u] = "vm_getfd" => tvm[u] # v
      BY <2>1 DEF IInv, VmFilesOK
    <3> QED BY <2>1, <2>2, <3>1 DEF Private
  <2>5. LiveVms' = LiveVms
    BY <2>1, <2>4 DEF LiveVms
  <2> QED BY <1>1, <2>1, <2>2, <2>3, <2>5 DEF CreateVcpuSteps
<1> QED BY <1>2, <1>3

(* The calls that only enter or leave a handler.                            *)
LEMMA CallQuiet ==
  ASSUME IInv, IInv', NEW t \in Threads,
         \/ yakvm_create_vm_fail(t)
         \/ \E v \in Vms : yakvm_vm_ioctl_create_vcpu(t, v)
         \/ \E v \in Vms : yakvm_vm_ioctl_mmap_page(t, v)
         \/ \E v \in Vms : yakvm_vm_vmm_fault(t, v)
         \/ \E c \in Vcpus : yakvm_vcpu_ioctl(t, c)
         \/ create_vcpu_kmalloc_fail(t)
         \/ walk_return(t)
         \/ vcpu_ioctl_return(t)
  PROVE  Quiet
<1>1. UNCHANGED <<vmVars, vcpuVars>>
  BY DEF yakvm_create_vm_fail, yakvm_vm_ioctl_create_vcpu,
     yakvm_vm_ioctl_mmap_page, yakvm_vm_vmm_fault, yakvm_vcpu_ioctl,
     create_vcpu_kmalloc_fail, walk_return, vcpu_ioctl_return
<1>2. pc[t] \in {"idle", "create_vcpu", "mmap_page", "fault", "vcpu_ioctl"}
  BY DEF yakvm_create_vm_fail, yakvm_vm_ioctl_create_vcpu,
     yakvm_vm_ioctl_mmap_page, yakvm_vm_vmm_fault, yakvm_vcpu_ioctl,
     create_vcpu_kmalloc_fail, walk_return, vcpu_ioctl_return, Enter, At
<1>3. CASE yakvm_create_vm_fail(t)
  BY <1>1, <1>2, <1>3, QuietCall DEF yakvm_create_vm_fail, CreateVcpuSteps
<1>4. CASE \E v \in Vms : \/ yakvm_vm_ioctl_create_vcpu(t, v)
                          \/ yakvm_vm_ioctl_mmap_page(t, v)
                          \/ yakvm_vm_vmm_fault(t, v)
  <2>1. PICK v \in Vms, p \in {"create_vcpu", "mmap_page", "fault"} :
          Enter(t, v, p)
    BY <1>4 DEF yakvm_vm_ioctl_create_vcpu, yakvm_vm_ioctl_mmap_page,
       yakvm_vm_vmm_fault
  <2>2. /\ pc'[t] = p
        /\ \A u \in Threads \ {t} :
             pc'[u] = pc[u] /\ tvm'[u] = tvm[u] /\ tvcpu'[u] = tvcpu[u]
    BY <2>1 DEF Enter, IInv, TypeOK
  <2> QED BY <1>1, <1>2, <2>2, QuietCall DEF CreateVcpuSteps
<1>5. CASE \E c \in Vcpus : yakvm_vcpu_ioctl(t, c)
  <2>1. /\ pc'[t] = "vcpu_ioctl"
        /\ \A u \in Threads \ {t} :
             pc'[u] = pc[u] /\ tvm'[u] = tvm[u] /\ tvcpu'[u] = tvcpu[u]
    BY <1>5 DEF yakvm_vcpu_ioctl, IInv, TypeOK
  <2> QED BY <1>1, <1>2, <2>1, QuietCall DEF CreateVcpuSteps
<1>6. CASE create_vcpu_kmalloc_fail(t) \/ walk_return(t) \/ vcpu_ioctl_return(t)
  <2>1. PICK r : Return(t, r)
    BY <1>6 DEF create_vcpu_kmalloc_fail, walk_return, vcpu_ioctl_return
  <2>2. /\ pc'[t] = "idle"
        /\ \A u \in Threads \ {t} :
             pc'[u] = pc[u] /\ tvm'[u] = tvm[u] /\ tvcpu'[u] = tvcpu[u]
    BY <2>1 DEF Return, IInv, TypeOK
  <2> QED BY <1>1, <1>2, <2>2, QuietCall DEF CreateVcpuSteps
<1> QED BY <1>3, <1>4, <1>5, <1>6

(* A file stays open, or not, when a descriptor or a mapping of it changes. *)
LEMMA StaysOpen ==
  ASSUME NEW f \in File, NEW b \in BOOLEAN
  PROVE  /\ [f EXCEPT !.mapped = b].open = f.open
         /\ [f EXCEPT !.fd = b].open = f.open
BY DEF File

(* mmap(), munmap() and close() keep a file open until its release.         *)
LEMMA FileOpQuiet ==
  ASSUME IInv, IInv', UserFileOp \/ UNCHANGED vars
  PROVE  Quiet
<1>1. UNCHANGED <<vmLive, vcpu, pc, tvm, tvcpu>>
  BY DEF UserFileOp, yakvm_vm_mmap, vm_munmap, vm_close, yakvm_vcpu_state_mmap,
     vcpu_munmap, vcpu_close, vmVars, threadVars, vars
<1>2. \A v \in Vms : vmFile'[v].open = vmFile[v].open
  <2>1. ASSUME NEW w \in Vms, NEW b \in BOOLEAN,
               \/ vmFile' = [vmFile EXCEPT ![w].mapped = b]
               \/ vmFile' = [vmFile EXCEPT ![w].fd = b]
        PROVE  \A v \in Vms : vmFile'[v].open = vmFile[v].open
    <3>1. vmFile \in [Vms -> File] /\ vmFile[w] \in File
      BY DEF IInv, TypeOK
    <3>2. PICK f : /\ f.open = vmFile[w].open
                   /\ vmFile' = [vmFile EXCEPT ![w] = f]
      BY <2>1, <3>1, StaysOpen
    <3> QED BY <3>1, <3>2
  <2> QED BY <2>1 DEF UserFileOp, yakvm_vm_mmap, vm_munmap, vm_close,
          yakvm_vcpu_state_mmap, vcpu_munmap, vcpu_close, vmVars, vars
<1>3. \A c \in Vcpus : cpuFile'[c].open = cpuFile[c].open
  <2>1. ASSUME NEW d \in Vcpus, NEW b \in BOOLEAN,
               \/ cpuFile' = [cpuFile EXCEPT ![d].mapped = b]
               \/ cpuFile' = [cpuFile EXCEPT ![d].fd = b]
        PROVE  \A c \in Vcpus : cpuFile'[c].open = cpuFile[c].open
    <3>1. cpuFile \in [Vcpus -> File] /\ cpuFile[d] \in File
      BY DEF IInv, TypeOK
    <3>2. PICK f : /\ f.open = cpuFile[d].open
                   /\ cpuFile' = [cpuFile EXCEPT ![d] = f]
      BY <2>1, <3>1, StaysOpen
    <3> QED BY <3>1, <3>2
  <2> QED BY <2>1 DEF UserFileOp, yakvm_vm_mmap, vm_munmap, vm_close,
          yakvm_vcpu_state_mmap, vcpu_munmap, vcpu_close, vcpuVars, vars
<1>4. \A u \in Threads : StillCreating(u)
  BY <1>1 DEF StillCreating
<1> QED BY <1>1, <1>2, <1>3, <1>4, QuietStep

-----------------------------------------------------------------------------
(* What the contract says of each of its steps, in terms of its variables.  *)
LEMMA ContractSteps ==
  ASSUME NEW v \in Vms,
         \/ /\ v \notin LiveVms
            /\ LiveVms' = LiveVms \union {v}
            /\ OpenVms' = OpenVms \union {v}
            /\ VcpuFiles' = VcpuFiles
         \/ /\ v \in OpenVms /\ VcpuFiles[v] = "none"
            /\ VcpuFiles' = [VcpuFiles EXCEPT ![v] = "open"]
            /\ LiveVms' = LiveVms
            /\ OpenVms' = OpenVms
         \/ /\ v \in OpenVms /\ OpenVms' = OpenVms \ {v}
            /\ \/ /\ VcpuFiles[v] = "open"
                  /\ LiveVms' = LiveVms /\ VcpuFiles' = VcpuFiles
               \/ /\ VcpuFiles[v] # "open"
                  /\ LiveVms' = LiveVms \ {v}
                  /\ VcpuFiles' = [VcpuFiles EXCEPT ![v] = "none"]
         \/ /\ VcpuFiles[v] = "open" /\ OpenVms' = OpenVms
            /\ \/ /\ v \in OpenVms
                  /\ VcpuFiles' = [VcpuFiles EXCEPT ![v] = "closed"]
                  /\ LiveVms' = LiveVms
               \/ /\ v \notin OpenVms
                  /\ LiveVms' = LiveVms \ {v}
                  /\ VcpuFiles' = [VcpuFiles EXCEPT ![v] = "none"]
  PROVE  Contract!Next
<1>1. Contract!CreateVm(v) \/ Contract!CreateVcpu(v) \/ Contract!ReleaseVm(v)
      \/ Contract!ReleaseVcpu(v)
  BY DEF Contract!CreateVm, Contract!CreateVcpu, Contract!ReleaseVm,
     Contract!ReleaseVcpu, LiveVms, OpenVms, VcpuFiles
<1> QED BY <1>1 DEF Contract!Next

(* The file of the vm is installed: it exists.                              *)
LEMMA VmGetfdVisible ==
  ASSUME IInv, IInv', NEW t \in Threads, vm_getfd(t)
  PROVE  Contract!Next
<1> DEFINE v == tvm[t]
<1>1. /\ pc[t] = "vm_getfd" /\ vmFile' = [vmFile EXCEPT ![v] = NewFile]
      /\ Return(t, "fd")
      /\ UNCHANGED <<vmLive, vcpu, cpuFile>>
  BY DEF vm_getfd, At, vcpuVars
<1>2. /\ pc'[t] = "idle"
      /\ \A u \in Threads \ {t} :
           pc'[u] = pc[u] /\ tvm'[u] = tvm[u] /\ tvcpu'[u] = tvcpu[u]
  BY <1>1 DEF Return, IInv, TypeOK
<1>3. v \in vmLive /\ v \in Vms
  BY <1>1 DEF IInv, TypeOK, VmFilesOK
<1>4. v \in Private /\ Private' = Private \ {v}
  <2>1. \A u \in Threads \ {t} : pc[u] = "vm_getfd" => tvm[u] # v
    BY <1>1 DEF IInv, VmFilesOK
  <2> QED BY <1>1, <1>2, <2>1 DEF Private
<1>5. v \notin LiveVms /\ LiveVms' = LiveVms \union {v}
  BY <1>1, <1>3, <1>4 DEF LiveVms
<1>6. OpenVms' = OpenVms \union {v}
  BY <1>1, <1>3 DEF OpenVms, NewFile, IInv, TypeOK
<1>7. VcpuFiles' = VcpuFiles
  <2>1. \A w \in Vms : InCreation(vcpu[w])' <=> InCreation(vcpu[w])
    BY <1>1, <1>2 DEF InCreation, Creating, CreateVcpuSteps
  <2>2. \A w \in Vms : VcpuFile(w)' = VcpuFile(w)
    BY <1>1, <2>1, FileStatesOK, FileStatesNext DEF FileStates
  <2> QED BY <2>2 DEF VcpuFiles
<1> HIDE DEF v
<1> QED BY <1>3, <1>5, <1>6, <1>7, ContractSteps

(* The file of the vcpu is installed: it exists, and is the first one.      *)
LEMMA VcpuGetfdVisible ==
  ASSUME IInv, IInv', NEW t \in Threads, create_vcpu_getfd(t)
  PROVE  Contract!Next
<1>0. PICK v \in Vms, c \in Vcpus : v = tvm[t] /\ c = tvcpu[t]
  BY DEF create_vcpu_getfd, At, IInv, VmFilesOK, CreatingOK, CreateVcpuSteps,
     VmSteps
<1>1. /\ pc[t] = "getfd" /\ cpuFile' = [cpuFile EXCEPT ![c] = NewFile]
      /\ Return(t, "fd")
      /\ UNCHANGED <<vmLive, vcpu, vmFile>>
  BY <1>0 DEF create_vcpu_getfd, At, vmVars
<1>2. /\ pc'[t] = "idle"
      /\ \A u \in Threads \ {t} :
           pc'[u] = pc[u] /\ tvm'[u] = tvm[u] /\ tvcpu'[u] = tvcpu[u]
  BY <1>1 DEF Return, IInv, TypeOK
<1>3. v \in Vms /\ vmFile[v].open /\ c \in Vcpus /\ c # NULL /\ vcpu[v] = c
  BY <1>0, <1>1, ConstantsAssumption
  DEF IInv, VmFilesOK, CreatingOK, CreateVcpuSteps, VmSteps
<1>4. InCreation(c)
  BY <1>0, <1>1 DEF InCreation, Creating, CreateVcpuSteps
<1>5. VcpuFile(v) = "none" /\ VcpuFile(v)' = "open"
  <2>1. VcpuFile(v) = "none"
    BY <1>3, <1>4, FileStatesOK DEF FileStates
  <2>2. cpuFile'[c].open
    BY <1>1, <1>3 DEF NewFile, IInv, TypeOK
  <2> QED BY <1>1, <1>3, <2>1, <2>2, FileStatesNext DEF FileStates
<1>6. ASSUME NEW w \in Vms, w # v
      PROVE  VcpuFile(w)' = VcpuFile(w)
  <2>1. vcpu[w] # c
    <3>1. vcpu[w] # NULL => vmOf[vcpu[w]] = w
      BY DEF IInv, VcpuOK
    <3>2. vmOf[c] = v
      BY <1>3 DEF IInv, VcpuOK
    <3> QED BY <1>3, <1>6, <3>1, <3>2
  <2>2. vcpu[w] # NULL => cpuFile'[vcpu[w]] = cpuFile[vcpu[w]]
    BY <1>1, <2>1 DEF IInv, TypeOK
  <2>3. InCreation(vcpu[w])' <=> InCreation(vcpu[w])
    BY <1>0, <1>1, <1>2, <2>1 DEF InCreation, Creating, CreateVcpuSteps
  <2> QED BY <1>1, <2>2, <2>3, FileStatesOK, FileStatesNext DEF FileStates
<1>7. v \in OpenVms /\ OpenVms' = OpenVms
  BY <1>1, <1>3 DEF OpenVms
<1>8. LiveVms' = LiveVms
  <2>1. Private' = Private
    BY <1>1, <1>2 DEF Private
  <2> QED BY <1>1, <2>1 DEF LiveVms
<1>9. VcpuFiles[v] = "none" /\ VcpuFiles' = [VcpuFiles EXCEPT ![v] = "open"]
  BY <1>3, <1>5, <1>6 DEF VcpuFiles
<1> QED BY <1>3, <1>7, <1>8, <1>9, ContractSteps

(* The release of the vm's file drops the last reference exactly when the   *)
(* file of the vcpu is not open.                                            *)
LEMMA VmReleaseVisible ==
  ASSUME IInv, IInv', NEW v \in Vms, yakvm_vm_release(v)
  PROVE  Contract!Next
<1>1. /\ vmFile[v].open /\ v \in vmLive
      /\ vmFile' = [vmFile EXCEPT ![v] = NoFile]
      /\ UNCHANGED <<cpuFile, pc, tvm, tvcpu>>
  BY DEF yakvm_vm_release, threadVars, IInv, VmFilesOK
<1>2. \A t \in Threads : pc[t] \in VmSteps \union {"vm_getfd"} => tvm[t] # v
  BY <1>1 DEF IInv, VmFilesOK, yakvm_vm_release, VmFileInUse
<1>3. /\ refcount[v] = 1 + Cardinality(Holders(v))
      /\ Cardinality(Holders(v)) \in Nat
      /\ Cardinality(Holders(v)) = 0 <=> Holders(v) = {}
  BY <1>1, HoldersCount DEF IInv, RefOK, FileHoldsVm
<1>4. \A c \in Holders(v) : cpuFile[c].open /\ vcpu[v] = c
  <2> SUFFICES ASSUME NEW c \in Holders(v) PROVE cpuFile[c].open
    BY DEF IInv, CpuFilesOK, Holders
  <2>1. ASSUME NEW t \in Threads, pc[t] \in {"getfd", "clear", "put"},
               tvcpu[t] = c
        PROVE  FALSE
    BY <1>2, <2>1 DEF IInv, CreatingOK, CreateVcpuSteps, VmSteps, Holders
  <2> QED BY <2>1 DEF Holders, HoldsVm
<1>5. v \in OpenVms /\ OpenVms' = OpenVms \ {v}
  BY <1>1 DEF OpenVms, NoFile, IInv, TypeOK
<1>6. Private' = Private /\ v \notin Private
  BY <1>1, <1>2 DEF Private
<1>7. CASE refcount[v] = 1
  <2>1. vmLive' = vmLive \ {v} /\ vcpu' = [vcpu EXCEPT ![v] = NULL]
    BY <1>7 DEF yakvm_vm_release, yakvm_put_vm, yakvm_destroy_vm
  <2>2. Holders(v) = {}
    BY <1>3, <1>7
  <2>3. VcpuFile(v) # "open"
    BY <2>2 DEF VcpuFile, Holders, HoldsVm
  <2>4. VcpuFile(v)' = "none"
    BY <2>1, FileStatesNext DEF FileStates, IInv, TypeOK
  <2>5. ASSUME NEW w \in Vms, w # v
        PROVE  VcpuFile(w)' = VcpuFile(w)
    <3>1. vcpu'[w] = vcpu[w]
      BY <2>1, <2>5 DEF IInv, TypeOK
    <3>2. InCreation(vcpu[w])' <=> InCreation(vcpu[w])
      BY <1>1, <3>1 DEF InCreation, Creating
    <3> QED BY <1>1, <3>1, <3>2, FileStatesOK, FileStatesNext DEF FileStates
  <2>6. LiveVms' = LiveVms \ {v}
    BY <1>6, <2>1 DEF LiveVms
  <2>7. /\ VcpuFiles[v] # "open"
        /\ VcpuFiles' = [VcpuFiles EXCEPT ![v] = "none"]
    BY <2>3, <2>4, <2>5 DEF VcpuFiles
  <2> QED BY <1>5, <2>6, <2>7, ContractSteps
<1>8. CASE refcount[v] # 1
  <2>1. UNCHANGED <<vmLive, vcpu>>
    BY <1>8 DEF yakvm_vm_release, yakvm_put_vm
  <2>2. Holders(v) # {}
    BY <1>3, <1>8
  <2>3. VcpuFile(v) = "open"
    BY <1>4, <2>2 DEF VcpuFile, Holders
  <2>4. LiveVms' = LiveVms
    BY <1>6, <2>1 DEF LiveVms
  <2>5. ASSUME NEW w \in Vms
        PROVE  VcpuFile(w)' = VcpuFile(w)
    <3>1. InCreation(vcpu[w])' <=> InCreation(vcpu[w])
      BY <1>1, <2>1 DEF InCreation, Creating
    <3> QED BY <1>1, <2>1, <3>1, FileStatesOK, FileStatesNext DEF FileStates
  <2>6. VcpuFiles[v] = "open" /\ VcpuFiles' = VcpuFiles
    BY <2>3, <2>5 DEF VcpuFiles
  <2> QED BY <1>5, <2>4, <2>6, ContractSteps
<1> QED BY <1>7, <1>8

(* The release of the vcpu's file drops the last reference exactly when the *)
(* file of the vm is gone.                                                  *)
LEMMA VcpuReleaseVisible ==
  ASSUME IInv, IInv', NEW c \in Vcpus, yakvm_vcpu_release(c)
  PROVE  Contract!Next
<1>0. PICK v \in Vms : v = vmOf[c]
  BY DEF yakvm_vcpu_release, IInv, TypeOK, CpuFilesOK
<1>1. /\ cpuFile[c].open /\ v \in vmLive /\ v \in Vms /\ vcpu[v] = c
      /\ c # NULL
      /\ cpuFile' = [cpuFile EXCEPT ![c] = NoFile]
      /\ UNCHANGED <<vmFile, pc, tvm, tvcpu>>
  BY <1>0, ConstantsAssumption
  DEF yakvm_vcpu_release, threadVars, IInv, TypeOK, CpuFilesOK
<1>2. /\ refcount[v]
           = (IF FileHoldsVm(v) THEN 1 ELSE 0) + Cardinality(Holders(v))
      /\ Cardinality(Holders(v)) \in Nat
  BY <1>1, HoldersCount DEF IInv, RefOK
<1>3. c \in Holders(v)
  BY <1>0, <1>1 DEF Holders, HoldsVm
<1>4. FileHoldsVm(v) <=> vmFile[v].open
  BY <1>1 DEF IInv, VmFilesOK, FileHoldsVm
<1>5. v \notin Private /\ Private' = Private
  BY <1>1 DEF Private, IInv, VmFilesOK
<1>6. ~vmFile[v].open => Holders(v) = {c}
  <2> SUFFICES ASSUME ~vmFile[v].open, NEW d \in Holders(v)
               PROVE  d = c
    BY <1>3
  <2>1. d \in Vcpus /\ vmOf[d] = v /\ HoldsVm(d)
    BY DEF Holders
  <2>2. ASSUME NEW t \in Threads, pc[t] \in {"getfd", "clear", "put"},
               tvcpu[t] = d
        PROVE  FALSE
    BY <2>1, <2>2 DEF IInv, VmFilesOK, CreatingOK, CreateVcpuSteps, VmSteps
  <2>3. cpuFile[d].open
    BY <2>1, <2>2 DEF HoldsVm
  <2> QED BY <1>0, <1>1, <2>1, <2>3 DEF IInv, CpuFilesOK
<1>7. refcount[v] = 1 <=> ~vmFile[v].open
  <2>1. Cardinality({c}) = 1
    BY FS_Singleton
  <2>2. Cardinality(Holders(v)) # 0
    BY <1>3, HoldersCount
  <2>3. CASE vmFile[v].open
    BY <1>2, <1>4, <2>2, <2>3
  <2>4. CASE ~vmFile[v].open
    <3>1. Cardinality(Holders(v)) = 1 /\ ~FileHoldsVm(v)
      BY <1>4, <1>6, <2>1, <2>4
    <3> QED BY <1>2, <2>4, <3>1
  <2> QED BY <2>3, <2>4
<1>8. VcpuFile(v) = "open" /\ ~InCreation(c)
  BY <1>1, FileStatesOK DEF FileStates
<1>9. ~cpuFile'[c].open /\ \A d \in Vcpus \ {c} : cpuFile'[d] = cpuFile[d]
  BY <1>1 DEF NoFile, IInv, TypeOK
<1>10. ASSUME NEW w \in Vms, w # v, vcpu'[w] = vcpu[w]
       PROVE  VcpuFile(w)' = VcpuFile(w)
  <2>1. vcpu[w] # NULL => vcpu[w] \in Vcpus \ {c}
    BY <1>0, <1>10 DEF IInv, TypeOK, VcpuOK
  <2>2. InCreation(vcpu[w])' <=> InCreation(vcpu[w])
    BY <1>1, <1>10 DEF InCreation, Creating
  <2> QED BY <1>9, <1>10, <2>1, <2>2, FileStatesOK, FileStatesNext
          DEF FileStates
<1>11. OpenVms' = OpenVms /\ (v \in OpenVms <=> vmFile[v].open)
  BY <1>1 DEF OpenVms
<1>12. CASE refcount[v] = 1
  <2>1. vmLive' = vmLive \ {v} /\ vcpu' = [vcpu EXCEPT ![v] = NULL]
    BY <1>0, <1>12 DEF yakvm_vcpu_release, yakvm_put_vm, yakvm_destroy_vm
  <2>2. vcpu'[v] = NULL /\ \A w \in Vms \ {v} : vcpu'[w] = vcpu[w]
    BY <1>1, <2>1 DEF IInv, TypeOK
  <2>3. VcpuFile(v)' = "none"
    BY <1>1, <2>2, FileStatesNext DEF FileStates
  <2>4. LiveVms' = LiveVms \ {v}
    BY <1>5, <2>1 DEF LiveVms
  <2>5. /\ VcpuFiles[v] = "open"
        /\ VcpuFiles' = [VcpuFiles EXCEPT ![v] = "none"]
    <3>1. \A w \in Vms \ {v} : VcpuFile(w)' = VcpuFile(w)
      BY <1>10, <2>2
    <3> QED BY <1>8, <2>3, <3>1 DEF VcpuFiles
  <2>6. v \notin OpenVms
    BY <1>7, <1>11, <1>12
  <2> QED BY <1>1, <1>11, <2>4, <2>5, <2>6, ContractSteps
<1>13. CASE refcount[v] # 1
  <2>1. UNCHANGED <<vmLive, vcpu>>
    BY <1>0, <1>13 DEF yakvm_vcpu_release, yakvm_put_vm
  <2>2. ~InCreation(vcpu[v])'
    BY <1>1, <1>8, <2>1 DEF InCreation, Creating
  <2>3. VcpuFile(v)' = "closed"
    BY <1>1, <1>9, <2>1, <2>2, FileStatesNext DEF FileStates
  <2>4. LiveVms' = LiveVms
    BY <1>5, <2>1 DEF LiveVms
  <2>5. /\ VcpuFiles[v] = "open"
        /\ VcpuFiles' = [VcpuFiles EXCEPT ![v] = "closed"]
    BY <1>1, <1>8, <1>10, <2>1, <2>3 DEF VcpuFiles
  <2>6. v \in OpenVms
    BY <1>7, <1>11, <1>13
  <2> QED BY <1>1, <1>11, <2>4, <2>5, <2>6, ContractSteps
<1> QED BY <1>12, <1>13

-----------------------------------------------------------------------------
(* Every step is one of the contract or unseen by it.                       *)
LEMMA StepRefines ==
  IInv /\ IInv' /\ [Next]_vars => [Contract!Next]_(Contract!contractVars)
<1> SUFFICES ASSUME IInv, IInv', [Next]_vars
             PROVE  [Contract!Next]_(Contract!contractVars)
  OBVIOUS
<1>1. Quiet => [Contract!Next]_(Contract!contractVars)
  BY DEF Quiet, Contract!contractVars, LiveVms, OpenVms, VcpuFiles
<1> SUFFICES Quiet \/ Contract!Next
  BY <1>1
<1>2. ASSUME NEW t \in Threads, HandlerStep(t)
      PROVE  Quiet \/ Contract!Next
  BY <1>2, VmGetfdVisible, VcpuGetfdVisible, PrivateQuiet, KmallocQuiet,
     EndQuiet, CreationQuiet, SetClearQuiet, PutQuiet, CallQuiet
  DEF HandlerStep
<1>3. ASSUME NEW t \in Threads, UserCall(t)
      PROVE  Quiet
  BY <1>3, PrivateQuiet, CallQuiet DEF UserCall
<1>4. CASE UserFileOp \/ Halted \/ UNCHANGED vars
  <2>1. UserFileOp \/ UNCHANGED vars
    BY <1>4 DEF Halted
  <2> QED BY <2>1, FileOpQuiet
<1>5. CASE Release
  BY <1>5, VmReleaseVisible, VcpuReleaseVisible DEF Release
<1> QED BY <1>2, <1>3, <1>4, <1>5 DEF Next

(* Under every interleaving of creations, failures and closes the holders   *)
(* of files see the vms and vcpus of VmContract: nothing goes early,        *)
(* nothing stays after its last file, and no vm gets a second vcpu.         *)
THEOREM ContractTheorem == Spec => ImplementsContract
<1>1. Init => Contract!Init
  <2> SUFFICES ASSUME Init PROVE Contract!Init
    OBVIOUS
  <2>1. \A v \in Vms : VcpuFile(v) = "none"
    BY InitIInv, FileStatesOK DEF Init, FileStates
  <2> QED BY <2>1 DEF Init, NoFile, Contract!Init
<1>2. IInv /\ IInv' /\ [Next]_vars => [Contract!Next]_(Contract!contractVars)
  BY StepRefines
<1> QED BY <1>1, <1>2, Invariance, PTL
        DEF Spec, ImplementsContract, Contract!Spec
=============================================================================
