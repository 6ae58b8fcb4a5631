---------------------------- MODULE DriverProofs ----------------------------
(***************************************************************************)
(* The invariants of Driver, proved for any number of processes,           *)
(* processors, frames, pages, ASIDs and loads of the module.               *)
(***************************************************************************)
EXTENDS Driver, TLAPS

-----------------------------------------------------------------------------
(* The inductive invariant.                                                 *)

(* An ASID that does not exist is never handed out: the assertion comes     *)
(* first.                                                                   *)
CounterOK == crashed = "no" => asid < NASID

(* The device exists between misc_register() and misc_deregister().         *)
ModuleOK == registered => mod \in {"call", "enable", "live", "exit"}

(* Without the device, the files that are open are of an earlier load.      *)
FilesOK ==
  mod \in {"absent", "claim", "check", "register"} =>
    \A v \in Vms : Using(v) => v \in stale

(* As long as nobody opens the device too early and no processor comes      *)
(* online too late, there are no files of this load before the processors   *)
(* have EFER.SVME.                                                          *)
OrderlyOK ==
  orderly =>
    /\ mod \in {"call", "enable"} => \A v \in Vms : Using(v) => v \in stale
    /\ mod = "enable" => online \subseteq svme \union todo
    /\ mod \in {"live", "exit", "cleanup"} => online \subseteq svme
    /\ crashed # "invalid opcode"

(* Before the first load there is neither file, vcpu nor translation.       *)
FirstLoadOK ==
  loads = 0 =>
    /\ mod = "absent"
    /\ devFile = {} /\ vmFile = {}
    /\ \A v \in Vms : cpuFile[v] = "none"
    /\ \A k \in Pcpus, a \in Asids, g \in Gfns : tlb[k][a][g] = NULL

(* Within the first load the counter is ahead of every ASID that has        *)
(* translations or belongs to a vcpu, and no two vcpus share one.           *)
AsidOK ==
  loads <= 1 =>
    /\ \A v \in Vms : cpuFile[v] # "none" => asidOf[v] <= asid
    /\ \A v, w \in Vms :
         cpuFile[v] # "none" /\ cpuFile[w] # "none" /\ asidOf[v] = asidOf[w]
           => v = w
    /\ \A k \in Pcpus, a \in Asids, g \in Gfns :
         tlb[k][a][g] # NULL => a <= asid

IInv ==
  /\ TypeOK
  /\ CounterOK
  /\ ModuleOK
  /\ FilesOK
  /\ OrderlyOK
  /\ FirstLoadOK
  /\ AsidOK
  /\ TlbCoherentWithinLoad

-----------------------------------------------------------------------------
(* insmod starts the counter again, which the first load does not notice.   *)
LEMMA InsmodStep ==
  ASSUME IInv, insmod
  PROVE  IInv'
<1> USE DEF IInv, insmod, Run, cpuVars, fileVars
<1>1. TypeOK'
  BY ConstantsAssumption DEF TypeOK, CounterOK, InitSteps, Asids
<1>2. CounterOK'
  BY ConstantsAssumption DEF TypeOK, Asids, CounterOK
<1>3. ModuleOK'
  BY DEF ModuleOK
<1>4. FilesOK'
  BY DEF TypeOK, ModuleOK, FilesOK, Using
<1>5. OrderlyOK'
  BY DEF TypeOK, ModuleOK, FilesOK, OrderlyOK, Using
<1>6. FirstLoadOK'
  BY DEF TypeOK, ModuleOK, FirstLoadOK
<1>7. AsidOK'
  BY DEF TypeOK, Asids, FirstLoadOK, AsidOK
<1>8. TlbCoherentWithinLoad'
  BY DEF TypeOK, Asids, FirstLoadOK, AsidOK, TlbCoherentWithinLoad,
     TlbCoherent
<1> QED BY <1>1, <1>2, <1>3, <1>4, <1>5, <1>6, <1>7, <1>8

(* yakvm_init() claims the module.                                          *)
LEMMA ClaimStep ==
  ASSUME IInv, init_claim
  PROVE  IInv'
<1> USE DEF IInv, init_claim, Run, moduleVars, cpuVars, fileVars, asidVars
<1>1. TypeOK'
  BY ConstantsAssumption DEF TypeOK, CounterOK, InitSteps, Asids
<1>2. CounterOK'
  BY ConstantsAssumption DEF TypeOK, Asids, CounterOK
<1>3. ModuleOK'
  BY DEF ModuleOK
<1>4. FilesOK'
  BY DEF TypeOK, ModuleOK, FilesOK, Using
<1>5. OrderlyOK'
  BY DEF TypeOK, ModuleOK, FilesOK, OrderlyOK, Using
<1>6. FirstLoadOK'
  BY DEF TypeOK, ModuleOK, FirstLoadOK
<1>7. AsidOK'
  BY DEF TypeOK, Asids, FirstLoadOK, AsidOK
<1>8. TlbCoherentWithinLoad'
  BY DEF TypeOK, Asids, FirstLoadOK, AsidOK, TlbCoherentWithinLoad,
     TlbCoherent
<1> QED BY <1>1, <1>2, <1>3, <1>4, <1>5, <1>6, <1>7, <1>8

(* yakvm_init() asks for SVM.                                               *)
LEMMA SupportedStep ==
  ASSUME IInv, is_svm_supported
  PROVE  IInv'
<1> USE DEF IInv, is_svm_supported, Run, moduleVars, cpuVars, fileVars,
   asidVars
<1>1. TypeOK'
  BY ConstantsAssumption DEF TypeOK, CounterOK, InitSteps, Asids
<1>2. CounterOK'
  BY ConstantsAssumption DEF TypeOK, Asids, CounterOK
<1>3. ModuleOK'
  BY DEF ModuleOK
<1>4. FilesOK'
  BY DEF TypeOK, ModuleOK, FilesOK, Using
<1>5. OrderlyOK'
  BY DEF TypeOK, ModuleOK, FilesOK, OrderlyOK, Using
<1>6. FirstLoadOK'
  BY DEF TypeOK, ModuleOK, FirstLoadOK
<1>7. AsidOK'
  BY DEF TypeOK, Asids, FirstLoadOK, AsidOK
<1>8. TlbCoherentWithinLoad'
  BY DEF TypeOK, Asids, FirstLoadOK, AsidOK, TlbCoherentWithinLoad,
     TlbCoherent
<1> QED BY <1>1, <1>2, <1>3, <1>4, <1>5, <1>6, <1>7, <1>8

(* The device appears.                                                      *)
LEMMA RegisterStep ==
  ASSUME IInv, misc_register
  PROVE  IInv'
<1> USE DEF IInv, misc_register, Run, moduleVars, cpuVars, fileVars, asidVars
<1>1. TypeOK'
  BY ConstantsAssumption DEF TypeOK, CounterOK, InitSteps, Asids
<1>2. CounterOK'
  BY ConstantsAssumption DEF TypeOK, Asids, CounterOK
<1>3. ModuleOK'
  BY DEF ModuleOK
<1>4. FilesOK'
  BY DEF TypeOK, ModuleOK, FilesOK, Using
<1>5. OrderlyOK'
  BY DEF TypeOK, ModuleOK, FilesOK, OrderlyOK, Using
<1>6. FirstLoadOK'
  BY DEF TypeOK, ModuleOK, FirstLoadOK
<1>7. AsidOK'
  BY DEF TypeOK, Asids, FirstLoadOK, AsidOK
<1>8. TlbCoherentWithinLoad'
  BY DEF TypeOK, Asids, FirstLoadOK, AsidOK, TlbCoherentWithinLoad,
     TlbCoherent
<1> QED BY <1>1, <1>2, <1>3, <1>4, <1>5, <1>6, <1>7, <1>8

(* misc_register() fails.                                                   *)
LEMMA RegisterFailStep ==
  ASSUME IInv, misc_register_fail
  PROVE  IInv'
<1> USE DEF IInv, misc_register_fail, Run, moduleVars, cpuVars, fileVars,
   asidVars
<1>1. TypeOK'
  BY ConstantsAssumption DEF TypeOK, CounterOK, InitSteps, Asids
<1>2. CounterOK'
  BY ConstantsAssumption DEF TypeOK, Asids, CounterOK
<1>3. ModuleOK'
  BY DEF ModuleOK
<1>4. FilesOK'
  BY DEF TypeOK, ModuleOK, FilesOK, Using
<1>5. OrderlyOK'
  BY DEF TypeOK, ModuleOK, FilesOK, OrderlyOK, Using
<1>6. FirstLoadOK'
  BY DEF TypeOK, ModuleOK, FirstLoadOK
<1>7. AsidOK'
  BY DEF TypeOK, Asids, FirstLoadOK, AsidOK
<1>8. TlbCoherentWithinLoad'
  BY DEF TypeOK, Asids, FirstLoadOK, AsidOK, TlbCoherentWithinLoad,
     TlbCoherent
<1> QED BY <1>1, <1>2, <1>3, <1>4, <1>5, <1>6, <1>7, <1>8

(* All processors that are online are interrupted.                          *)
LEMMA OnEachCpuStep ==
  ASSUME IInv, on_each_cpu
  PROVE  IInv'
<1> USE DEF IInv, on_each_cpu, Run, moduleVars, cpuVars, fileVars, asidVars
<1>1. TypeOK'
  BY ConstantsAssumption DEF TypeOK, CounterOK, InitSteps, Asids
<1>2. CounterOK'
  BY ConstantsAssumption DEF TypeOK, Asids, CounterOK
<1>3. ModuleOK'
  BY DEF ModuleOK
<1>4. FilesOK'
  BY DEF TypeOK, ModuleOK, FilesOK, Using
<1>5. OrderlyOK'
  BY DEF TypeOK, ModuleOK, FilesOK, OrderlyOK, Using
<1>6. FirstLoadOK'
  BY DEF TypeOK, ModuleOK, FirstLoadOK
<1>7. AsidOK'
  BY DEF TypeOK, Asids, FirstLoadOK, AsidOK
<1>8. TlbCoherentWithinLoad'
  BY DEF TypeOK, Asids, FirstLoadOK, AsidOK, TlbCoherentWithinLoad,
     TlbCoherent
<1> QED BY <1>1, <1>2, <1>3, <1>4, <1>5, <1>6, <1>7, <1>8

(* A processor answers.                                                     *)
LEMMA EnableStep ==
  ASSUME IInv, NEW k \in Pcpus, yakvm_cpu_svm_enable(k)
  PROVE  IInv'
<1> USE DEF IInv, yakvm_cpu_svm_enable, Run, moduleVars, cpuVars, fileVars,
   asidVars
<1>1. TypeOK'
  BY ConstantsAssumption DEF TypeOK, CounterOK, InitSteps, Asids
<1>2. CounterOK'
  BY ConstantsAssumption DEF TypeOK, Asids, CounterOK
<1>3. ModuleOK'
  BY DEF ModuleOK
<1>4. FilesOK'
  BY DEF TypeOK, ModuleOK, FilesOK, Using
<1>5. OrderlyOK'
  BY DEF TypeOK, ModuleOK, FilesOK, OrderlyOK, Using
<1>6. FirstLoadOK'
  BY DEF TypeOK, ModuleOK, FirstLoadOK
<1>7. AsidOK'
  BY DEF TypeOK, Asids, FirstLoadOK, AsidOK
<1>8. TlbCoherentWithinLoad'
  BY DEF TypeOK, Asids, FirstLoadOK, AsidOK, TlbCoherentWithinLoad,
     TlbCoherent
<1> QED BY <1>1, <1>2, <1>3, <1>4, <1>5, <1>6, <1>7, <1>8

(* All processors have answered.                                            *)
LEMMA InitDoneStep ==
  ASSUME IInv, init_done
  PROVE  IInv'
<1> USE DEF IInv, init_done, Run, moduleVars, cpuVars, fileVars, asidVars
<1>1. TypeOK'
  BY ConstantsAssumption DEF TypeOK, CounterOK, InitSteps, Asids
<1>2. CounterOK'
  BY ConstantsAssumption DEF TypeOK, Asids, CounterOK
<1>3. ModuleOK'
  BY DEF ModuleOK
<1>4. FilesOK'
  BY DEF TypeOK, ModuleOK, FilesOK, Using
<1>5. OrderlyOK'
  BY DEF TypeOK, ModuleOK, FilesOK, OrderlyOK, Using
<1>6. FirstLoadOK'
  BY DEF TypeOK, ModuleOK, FirstLoadOK
<1>7. AsidOK'
  BY DEF TypeOK, Asids, FirstLoadOK, AsidOK
<1>8. TlbCoherentWithinLoad'
  BY DEF TypeOK, Asids, FirstLoadOK, AsidOK, TlbCoherentWithinLoad,
     TlbCoherent
<1> QED BY <1>1, <1>2, <1>3, <1>4, <1>5, <1>6, <1>7, <1>8

(* rmmod, whether everything was closed or not.                             *)
LEMMA RmmodStep ==
  ASSUME IInv, rmmod
  PROVE  IInv'
<1> USE DEF IInv, rmmod, Run, moduleVars, cpuVars, fileVars, asidVars
<1>1. TypeOK'
  BY ConstantsAssumption DEF TypeOK, CounterOK, InitSteps, Asids
<1>2. CounterOK'
  BY ConstantsAssumption DEF TypeOK, Asids, CounterOK
<1>3. ModuleOK'
  BY DEF ModuleOK
<1>4. FilesOK'
  BY DEF TypeOK, ModuleOK, FilesOK, Using
<1>5. OrderlyOK'
  BY DEF TypeOK, ModuleOK, FilesOK, OrderlyOK, Using
<1>6. FirstLoadOK'
  BY DEF TypeOK, ModuleOK, FirstLoadOK
<1>7. AsidOK'
  BY DEF TypeOK, Asids, FirstLoadOK, AsidOK
<1>8. TlbCoherentWithinLoad'
  BY DEF TypeOK, Asids, FirstLoadOK, AsidOK, TlbCoherentWithinLoad,
     TlbCoherent
<1> QED BY <1>1, <1>2, <1>3, <1>4, <1>5, <1>6, <1>7, <1>8

(* The device goes away.                                                    *)
LEMMA DeregisterStep ==
  ASSUME IInv, misc_deregister
  PROVE  IInv'
<1> USE DEF IInv, misc_deregister, Run, moduleVars, cpuVars, fileVars,
   asidVars
<1>1. TypeOK'
  BY ConstantsAssumption DEF TypeOK, CounterOK, InitSteps, Asids
<1>2. CounterOK'
  BY ConstantsAssumption DEF TypeOK, Asids, CounterOK
<1>3. ModuleOK'
  BY DEF ModuleOK
<1>4. FilesOK'
  BY DEF TypeOK, ModuleOK, FilesOK, Using
<1>5. OrderlyOK'
  BY DEF TypeOK, ModuleOK, FilesOK, OrderlyOK, Using
<1>6. FirstLoadOK'
  BY DEF TypeOK, ModuleOK, FirstLoadOK
<1>7. AsidOK'
  BY DEF TypeOK, Asids, FirstLoadOK, AsidOK
<1>8. TlbCoherentWithinLoad'
  BY DEF TypeOK, Asids, FirstLoadOK, AsidOK, TlbCoherentWithinLoad,
     TlbCoherent
<1> QED BY <1>1, <1>2, <1>3, <1>4, <1>5, <1>6, <1>7, <1>8

(* The end of yakvm_exit().                                                 *)
LEMMA CleanupStep ==
  ASSUME IInv, exit_cleanup
  PROVE  IInv'
<1> USE DEF IInv, exit_cleanup, Run, moduleVars, cpuVars, fileVars, asidVars
<1>1. TypeOK'
  BY ConstantsAssumption DEF TypeOK, CounterOK, InitSteps, Asids
<1>2. CounterOK'
  BY ConstantsAssumption DEF TypeOK, Asids, CounterOK
<1>3. ModuleOK'
  BY DEF ModuleOK
<1>4. FilesOK'
  BY DEF TypeOK, ModuleOK, FilesOK, Using
<1>5. OrderlyOK'
  BY DEF TypeOK, ModuleOK, FilesOK, OrderlyOK, Using
<1>6. FirstLoadOK'
  BY DEF TypeOK, ModuleOK, FirstLoadOK
<1>7. AsidOK'
  BY DEF TypeOK, Asids, FirstLoadOK, AsidOK
<1>8. TlbCoherentWithinLoad'
  BY DEF TypeOK, Asids, FirstLoadOK, AsidOK, TlbCoherentWithinLoad,
     TlbCoherent
<1> QED BY <1>1, <1>2, <1>3, <1>4, <1>5, <1>6, <1>7, <1>8

(* A processor comes online.                                                *)
LEMMA CpuUpStep ==
  ASSUME IInv, NEW k \in Pcpus, cpu_up(k)
  PROVE  IInv'
<1> USE DEF IInv, cpu_up, moduleVars, cpuVars, fileVars, asidVars
<1>1. TypeOK'
  BY ConstantsAssumption DEF TypeOK, CounterOK, InitSteps, Asids
<1>2. CounterOK'
  BY ConstantsAssumption DEF TypeOK, Asids, CounterOK
<1>3. ModuleOK'
  BY DEF ModuleOK
<1>4. FilesOK'
  BY DEF TypeOK, ModuleOK, FilesOK, Using
<1>5. OrderlyOK'
  BY DEF TypeOK, ModuleOK, FilesOK, OrderlyOK, Using
<1>6. FirstLoadOK'
  BY DEF TypeOK, ModuleOK, FirstLoadOK
<1>7. AsidOK'
  BY DEF TypeOK, Asids, FirstLoadOK, AsidOK
<1>8. TlbCoherentWithinLoad'
  BY DEF TypeOK, Asids, FirstLoadOK, AsidOK, TlbCoherentWithinLoad,
     TlbCoherent
<1> QED BY <1>1, <1>2, <1>3, <1>4, <1>5, <1>6, <1>7, <1>8

(* open() of the device.                                                    *)
LEMMA OpenStep ==
  ASSUME IInv, NEW v \in Vms, open_dev(v)
  PROVE  IInv'
<1> USE DEF IInv, open_dev, moduleVars, cpuVars, asidVars
<1>1. TypeOK'
  BY ConstantsAssumption DEF TypeOK, CounterOK, InitSteps, Asids
<1>2. CounterOK'
  BY ConstantsAssumption DEF TypeOK, Asids, CounterOK
<1>3. ModuleOK'
  BY DEF ModuleOK
<1>4. FilesOK'
  BY DEF TypeOK, ModuleOK, FilesOK, Using
<1>5. OrderlyOK'
  BY DEF TypeOK, ModuleOK, FilesOK, OrderlyOK, Using
<1>6. FirstLoadOK'
  BY DEF TypeOK, ModuleOK, FirstLoadOK
<1>7. AsidOK'
  BY DEF TypeOK, Asids, FirstLoadOK, AsidOK
<1>8. TlbCoherentWithinLoad'
  BY DEF TypeOK, Asids, FirstLoadOK, AsidOK, TlbCoherentWithinLoad,
     TlbCoherent
<1> QED BY <1>1, <1>2, <1>3, <1>4, <1>5, <1>6, <1>7, <1>8

(* A call on a file whose load of the module is gone.                       *)
LEMMA UnloadedStep ==
  ASSUME IInv, NEW v \in Vms, call_unloaded(v)
  PROVE  IInv'
<1> USE DEF IInv, call_unloaded, moduleVars, cpuVars, fileVars, asidVars
<1>1. TypeOK'
  BY ConstantsAssumption DEF TypeOK, CounterOK, InitSteps, Asids
<1>2. CounterOK'
  BY ConstantsAssumption DEF TypeOK, Asids, CounterOK
<1>3. ModuleOK'
  BY DEF ModuleOK
<1>4. FilesOK'
  BY DEF TypeOK, ModuleOK, FilesOK, Using
<1>5. OrderlyOK'
  BY DEF TypeOK, ModuleOK, FilesOK, OrderlyOK, Using
<1>6. FirstLoadOK'
  BY DEF TypeOK, ModuleOK, FirstLoadOK
<1>7. AsidOK'
  BY DEF TypeOK, Asids, FirstLoadOK, AsidOK
<1>8. TlbCoherentWithinLoad'
  BY DEF TypeOK, Asids, FirstLoadOK, AsidOK, TlbCoherentWithinLoad,
     TlbCoherent
<1> QED BY <1>1, <1>2, <1>3, <1>4, <1>5, <1>6, <1>7, <1>8

(* YAKVM_CREATE_VM.                                                         *)
LEMMA CreateVmStep ==
  ASSUME IInv, NEW v \in Vms, yakvm_dev_ioctl_create_vm(v)
  PROVE  IInv'
<1> USE DEF IInv, yakvm_dev_ioctl_create_vm, Loaded, moduleVars, cpuVars,
   asidVars, Vm!CreateVm, Mem!Create
<1>1. TypeOK'
  BY ConstantsAssumption DEF TypeOK, CounterOK, InitSteps, Asids
<1>2. CounterOK'
  BY ConstantsAssumption DEF TypeOK, Asids, CounterOK
<1>3. ModuleOK'
  BY DEF ModuleOK
<1>4. FilesOK'
  BY DEF TypeOK, ModuleOK, FilesOK, Using
<1>5. OrderlyOK'
  BY DEF TypeOK, ModuleOK, FilesOK, OrderlyOK, Using
<1>6. FirstLoadOK'
  BY DEF TypeOK, ModuleOK, FirstLoadOK
<1>7. AsidOK'
  BY DEF TypeOK, Asids, FirstLoadOK, AsidOK
<1>8. TlbCoherentWithinLoad'
  BY DEF TypeOK, Asids, FirstLoadOK, AsidOK, TlbCoherentWithinLoad,
     TlbCoherent
<1> QED BY <1>1, <1>2, <1>3, <1>4, <1>5, <1>6, <1>7, <1>8

(* YAKVM_CREATE_VCPU: nothing is cached under a new ASID.                   *)
LEMMA CreateVcpuStep ==
  ASSUME IInv, NEW v \in Vms, yakvm_vm_ioctl_create_vcpu(v)
  PROVE  IInv'
<1> USE DEF IInv, yakvm_vm_ioctl_create_vcpu, Loaded, moduleVars, cpuVars,
   Vm!CreateVcpu
<1>1. TypeOK'
  BY ConstantsAssumption DEF TypeOK, CounterOK, InitSteps, Asids
<1>2. CounterOK'
  BY ConstantsAssumption DEF TypeOK, Asids, CounterOK
<1>3. ModuleOK'
  BY DEF ModuleOK
<1>4. FilesOK'
  BY DEF TypeOK, ModuleOK, FilesOK, Using
<1>5. OrderlyOK'
  BY DEF TypeOK, ModuleOK, FilesOK, OrderlyOK, Using
<1>6. FirstLoadOK'
  BY DEF TypeOK, ModuleOK, FirstLoadOK
<1>7. AsidOK'
  BY DEF TypeOK, Asids, FirstLoadOK, AsidOK
<1>8. TlbCoherentWithinLoad'
  <2> SUFFICES ASSUME loads <= 1,
                      NEW w \in Vms, NEW k \in Pcpus, NEW g \in Gfns,
                      cpuFile'[w] # "none"
               PROVE  tlb[k][asidOf'[w]][g] \in {NULL, mem[w][g]}
    BY DEF TlbCoherentWithinLoad, TlbCoherent
  <2>1. CASE w = v
    <3>1. asidOf'[v] = asid + 1 /\ asid + 1 \in Asids /\ ~(asid + 1 <= asid)
      BY ConstantsAssumption DEF TypeOK, Asids, CounterOK
    <3> QED BY <2>1, <3>1 DEF AsidOK
  <2>2. CASE w # v
    <3>1. asidOf'[w] = asidOf[w] /\ cpuFile'[w] = cpuFile[w]
      BY <2>2 DEF TypeOK
    <3> QED BY <3>1 DEF TlbCoherentWithinLoad, TlbCoherent
  <2> QED BY <2>1, <2>2
<1> QED BY <1>1, <1>2, <1>3, <1>4, <1>5, <1>6, <1>7, <1>8

(* A creation that fails after it has counted.                              *)
LEMMA CreateVcpuFailsStep ==
  ASSUME IInv, NEW v \in Vms, create_vcpu_fails(v)
  PROVE  IInv'
<1> USE DEF IInv, create_vcpu_fails, Loaded, moduleVars, cpuVars, fileVars,
   asidVars
<1>1. TypeOK'
  BY ConstantsAssumption DEF TypeOK, CounterOK, InitSteps, Asids
<1>2. CounterOK'
  BY ConstantsAssumption DEF TypeOK, Asids, CounterOK
<1>3. ModuleOK'
  BY DEF ModuleOK
<1>4. FilesOK'
  BY DEF TypeOK, ModuleOK, FilesOK, Using
<1>5. OrderlyOK'
  BY DEF TypeOK, ModuleOK, FilesOK, OrderlyOK, Using
<1>6. FirstLoadOK'
  BY DEF TypeOK, ModuleOK, FirstLoadOK
<1>7. AsidOK'
  BY DEF TypeOK, Asids, FirstLoadOK, AsidOK
<1>8. TlbCoherentWithinLoad'
  BY DEF TypeOK, Asids, FirstLoadOK, AsidOK, TlbCoherentWithinLoad,
     TlbCoherent
<1> QED BY <1>1, <1>2, <1>3, <1>4, <1>5, <1>6, <1>7, <1>8

(* YAKVM_MMAP_PAGE: what was not there was not cached either.               *)
LEMMA MmapPageStep ==
  ASSUME IInv, NEW v \in Vms, NEW g \in Gfns, yakvm_vm_ioctl_mmap_page(v, g)
  PROVE  IInv'
<1> USE DEF IInv, yakvm_vm_ioctl_mmap_page, Loaded, moduleVars, cpuVars,
   asidVars, Mem!Map
<1>1. TypeOK'
  BY ConstantsAssumption DEF TypeOK, CounterOK, InitSteps, Asids
<1>2. CounterOK'
  BY ConstantsAssumption DEF TypeOK, Asids, CounterOK
<1>3. ModuleOK'
  BY DEF ModuleOK
<1>4. FilesOK'
  BY DEF TypeOK, ModuleOK, FilesOK, Using
<1>5. OrderlyOK'
  BY DEF TypeOK, ModuleOK, FilesOK, OrderlyOK, Using
<1>6. FirstLoadOK'
  BY DEF TypeOK, ModuleOK, FirstLoadOK
<1>7. AsidOK'
  BY DEF TypeOK, Asids, FirstLoadOK, AsidOK
<1>8. TlbCoherentWithinLoad'
  BY DEF TypeOK, Asids, FirstLoadOK, AsidOK, TlbCoherentWithinLoad,
     TlbCoherent
<1> QED BY <1>1, <1>2, <1>3, <1>4, <1>5, <1>6, <1>7, <1>8

(* YAKVM_RUN caches the memory of the vm under its own ASID.                *)
LEMMA RunStep ==
  ASSUME IInv, NEW v \in Vms, NEW k \in Pcpus, NEW g \in Gfns,
         yakvm_vcpu_run(v, k, g)
  PROVE  IInv'
<1> USE DEF IInv, yakvm_vcpu_run, Loaded, moduleVars, cpuVars, fileVars,
   asidVars
<1>1. TypeOK'
  BY ConstantsAssumption DEF TypeOK, CounterOK, InitSteps, Asids
<1>2. CounterOK'
  BY ConstantsAssumption DEF TypeOK, Asids, CounterOK
<1>3. ModuleOK'
  BY DEF ModuleOK
<1>4. FilesOK'
  BY DEF TypeOK, ModuleOK, FilesOK, Using
<1>5. OrderlyOK'
  BY DEF TypeOK, ModuleOK, FilesOK, OrderlyOK, Using
<1>6. FirstLoadOK'
  BY DEF TypeOK, ModuleOK, FirstLoadOK
<1>7. AsidOK'
  BY DEF TypeOK, Asids, FirstLoadOK, AsidOK
<1>8. TlbCoherentWithinLoad'
  <2> SUFFICES ASSUME loads <= 1,
                      NEW w \in Vms, NEW j \in Pcpus, NEW h \in Gfns,
                      cpuFile[w] # "none"
               PROVE  tlb'[j][asidOf[w]][h] \in {NULL, mem[w][h]}
    BY DEF TlbCoherentWithinLoad, TlbCoherent
  <2>1. tlb[j][asidOf[w]][h] \in {NULL, mem[w][h]}
    BY DEF TlbCoherentWithinLoad, TlbCoherent
  <2>2. asidOf[w] = asidOf[v] => w = v
    BY DEF AsidOK
  <2>3. tlb'[j] = IF j = k THEN [tlb[j] EXCEPT ![asidOf[v]][g] = mem[v][g]]
                           ELSE tlb[j]
    BY DEF TypeOK
  <2>4. /\ asidOf[w] \in Asids
        /\ tlb[j] \in [Asids -> [Gfns -> Pages \union {NULL}]]
    BY DEF TypeOK
  <2>5. CASE j = k /\ w = v
    BY <2>1, <2>3, <2>4, <2>5
  <2>6. CASE j = k /\ w # v
    BY <2>1, <2>2, <2>3, <2>4, <2>6
  <2>7. CASE j # k
    BY <2>1, <2>3, <2>7
  <2> QED BY <2>5, <2>6, <2>7
<1> QED BY <1>1, <1>2, <1>3, <1>4, <1>5, <1>6, <1>7, <1>8

(* clgi without EFER.SVME; nobody orderly gets there.                       *)
LEMMA NoSvmeStep ==
  ASSUME IInv, NEW v \in Vms, NEW k \in Pcpus, run_without_svme(v, k)
  PROVE  IInv'
<1> USE DEF IInv, run_without_svme, Loaded, moduleVars, cpuVars, fileVars,
   asidVars
<1>1. TypeOK'
  BY ConstantsAssumption DEF TypeOK, CounterOK, InitSteps, Asids
<1>2. CounterOK'
  BY ConstantsAssumption DEF TypeOK, Asids, CounterOK
<1>3. ModuleOK'
  BY DEF ModuleOK
<1>4. FilesOK'
  BY DEF TypeOK, ModuleOK, FilesOK, Using
<1>5. OrderlyOK'
  <2>1. Using(v) /\ v \notin stale
    BY DEF Using
  <2>2. ~(online \subseteq svme)
    OBVIOUS
  <2>3. orderly => mod \in {"live", "exit", "cleanup"}
    BY <2>1 DEF TypeOK, InitSteps, FilesOK, OrderlyOK
  <2> QED
    BY <2>2, <2>3 DEF OrderlyOK
<1>6. FirstLoadOK'
  BY DEF TypeOK, ModuleOK, FirstLoadOK
<1>7. AsidOK'
  BY DEF TypeOK, Asids, FirstLoadOK, AsidOK
<1>8. TlbCoherentWithinLoad'
  BY DEF TypeOK, Asids, FirstLoadOK, AsidOK, TlbCoherentWithinLoad,
     TlbCoherent
<1> QED BY <1>1, <1>2, <1>3, <1>4, <1>5, <1>6, <1>7, <1>8

(* close() of the device.                                                   *)
LEMMA CloseStep ==
  ASSUME IInv, NEW v \in Vms, close_dev(v)
  PROVE  IInv'
<1> USE DEF IInv, close_dev, Loaded, moduleVars, cpuVars, asidVars
<1>1. TypeOK'
  BY ConstantsAssumption DEF TypeOK, CounterOK, InitSteps, Asids
<1>2. CounterOK'
  BY ConstantsAssumption DEF TypeOK, Asids, CounterOK
<1>3. ModuleOK'
  BY DEF ModuleOK
<1>4. FilesOK'
  BY DEF TypeOK, ModuleOK, FilesOK, Using
<1>5. OrderlyOK'
  BY DEF TypeOK, ModuleOK, FilesOK, OrderlyOK, Using
<1>6. FirstLoadOK'
  BY DEF TypeOK, ModuleOK, FirstLoadOK
<1>7. AsidOK'
  BY DEF TypeOK, Asids, FirstLoadOK, AsidOK
<1>8. TlbCoherentWithinLoad'
  BY DEF TypeOK, Asids, FirstLoadOK, AsidOK, TlbCoherentWithinLoad,
     TlbCoherent
<1> QED BY <1>1, <1>2, <1>3, <1>4, <1>5, <1>6, <1>7, <1>8

(* close() of a vm or a vcpu: the memory goes when the vcpu does.           *)
LEMMA ReleaseStep ==
  ASSUME IInv, NEW v \in Vms, release(v)
  PROVE  IInv'
<1> USE DEF IInv, release, Loaded, moduleVars, cpuVars, asidVars,
   Vm!ReleaseVm, Vm!ReleaseVcpu, Mem!Destroy
<1>1. TypeOK'
  <2>1. mem' \in [Vms -> [Gfns -> Pages \union {NULL}]]
    <3>1. mem \in [Vms -> [Gfns -> Pages \union {NULL}]]
      BY DEF TypeOK
    <3>2. [g \in Gfns |-> NULL] \in [Gfns -> Pages \union {NULL}]
      OBVIOUS
    <3>3. mem' = mem \/ mem' = [mem EXCEPT ![v] = [g \in Gfns |-> NULL]]
      OBVIOUS
    <3> QED BY <3>1, <3>2, <3>3
  <2>2. cpuFile' \in [Vms -> {"none", "open", "closed"}]
    BY DEF TypeOK
  <2>3. asidOf' \in [Vms -> Asids]
    <3>1. 0 \in Asids
      BY ConstantsAssumption DEF Asids
    <3>2. asidOf' = asidOf \/ asidOf' = [asidOf EXCEPT ![v] = 0]
      OBVIOUS
    <3> QED BY <3>1, <3>2 DEF TypeOK
  <2> QED BY <2>1, <2>2, <2>3 DEF TypeOK
<1>2. CounterOK'
  BY ConstantsAssumption DEF TypeOK, Asids, CounterOK
<1>3. ModuleOK'
  BY DEF ModuleOK
<1>4. FilesOK'
  BY DEF TypeOK, ModuleOK, FilesOK, Using
<1>5. OrderlyOK'
  BY DEF TypeOK, ModuleOK, FilesOK, OrderlyOK, Using
<1>6. FirstLoadOK'
  BY DEF TypeOK, ModuleOK, FirstLoadOK
<1>7. ASSUME NEW w \in Vms, cpuFile'[w] # "none"
      PROVE  /\ cpuFile[w] # "none"
             /\ asidOf'[w] = asidOf[w] /\ mem'[w] = mem[w]
  BY <1>7 DEF TypeOK
<1>8. AsidOK'
  BY <1>7 DEF AsidOK
<1>9. TlbCoherentWithinLoad'
  BY <1>7 DEF TlbCoherentWithinLoad, TlbCoherent
<1> QED BY <1>1, <1>2, <1>3, <1>4, <1>5, <1>6, <1>8, <1>9

-----------------------------------------------------------------------------
(* Nothing is loaded, open or cached at the start.                          *)
LEMMA InitIInv == Init => IInv
<1> SUFFICES ASSUME Init PROVE IInv
  OBVIOUS
<1> USE DEF Init, Vm!Init, Mem!Init
<1>1. TypeOK
  <2>1. mem \in [Vms -> [Gfns -> Pages \union {NULL}]]
    OBVIOUS
  <2>2. tlb \in [Pcpus -> [Asids -> [Gfns -> Pages \union {NULL}]]]
    OBVIOUS
  <2>3. asid \in Asids /\ asidOf \in [Vms -> Asids]
    BY ConstantsAssumption DEF Asids
  <2>4. loads \in 0 .. MaxLoads /\ online \subseteq Pcpus
    BY ConstantsAssumption
  <2> QED BY <2>1, <2>2, <2>3, <2>4 DEF TypeOK
<1>2. CounterOK /\ ModuleOK /\ FilesOK /\ OrderlyOK /\ FirstLoadOK
  BY ConstantsAssumption DEF CounterOK, ModuleOK, FilesOK, OrderlyOK,
     FirstLoadOK, Using
<1>3. AsidOK /\ TlbCoherentWithinLoad
  BY DEF AsidOK, TlbCoherentWithinLoad, TlbCoherent
<1> QED BY <1>1, <1>2, <1>3 DEF IInv

(* Every step keeps the invariant.                                          *)
LEMMA NextIInv == IInv /\ [Next]_vars => IInv'
<1> SUFFICES ASSUME IInv, [Next]_vars PROVE IInv'
  OBVIOUS
<1>1. CASE UNCHANGED vars
  <2> USE <1>1 DEF vars, moduleVars, cpuVars, fileVars, asidVars, IInv
  <2>1. TypeOK'
    BY DEF TypeOK
  <2>2. CounterOK' /\ ModuleOK'
    BY DEF CounterOK, ModuleOK
  <2>3. FilesOK' /\ OrderlyOK'
    BY DEF FilesOK, OrderlyOK, Using
  <2>4. FirstLoadOK'
    BY DEF FirstLoadOK
  <2>5. AsidOK'
    BY DEF AsidOK
  <2>6. TlbCoherentWithinLoad'
    BY DEF TlbCoherentWithinLoad, TlbCoherent
  <2> QED BY <2>1, <2>2, <2>3, <2>4, <2>5, <2>6
<1>2. CASE ModuleStep
  BY <1>2, InsmodStep, ClaimStep, SupportedStep, RegisterStep,
     RegisterFailStep,
     OnEachCpuStep, EnableStep, InitDoneStep, RmmodStep, DeregisterStep,
     CleanupStep DEF ModuleStep
<1>3. ASSUME NEW v \in Vms, ProcessStep(v)
      PROVE  IInv'
  BY <1>3, OpenStep, UnloadedStep, CreateVmStep, CreateVcpuStep,
     CreateVcpuFailsStep, MmapPageStep, RunStep, NoSvmeStep, CloseStep, ReleaseStep DEF ProcessStep
<1> QED
  BY <1>1, <1>2, <1>3, CpuUpStep DEF Next

(* The inductive invariant holds in every reachable state of the module and *)
(* the processes that use it.                                               *)
THEOREM Invariance == Spec => []IInv
BY InitIInv, NextIInv, PTL DEF Spec

(* The counter never hands out an ASID the processor does not have, and     *)
(* every other variable keeps its type.                                     *)
THEOREM TypeCorrectness == Spec => []TypeOK
<1>1. IInv => TypeOK
  BY DEF IInv
<1> QED BY <1>1, Invariance, PTL

(* EFER.SVME is set on every processor that ever runs a vcpu, however often *)
(* the module is loaded and whatever is open when it is unloaded, as long   *)
(* as nobody opens the device during yakvm_init() and processors come       *)
(* online outside the time from its on_each_cpu() to the end of rmmod.      *)
THEOREM SvmeBeforeSvmTheorem == Spec => []SvmeBeforeSvm
<1>1. IInv => SvmeBeforeSvm
  BY DEF IInv, OrderlyOK, SvmeBeforeSvm, SvmeSet
<1> QED BY <1>1, Invariance, PTL

(* The guests of one load never meet in a TLB, although no run flushes it.  *)
THEOREM TlbTheorem == Spec => []TlbCoherentWithinLoad
<1>1. IInv => TlbCoherentWithinLoad
  BY DEF IInv
<1> QED BY <1>1, Invariance, PTL
=============================================================================
