------------------------------- MODULE Driver -------------------------------
(***************************************************************************)
(* Loading and unloading of the module (driver/main.c) under the processes *)
(* that use it, and the translations that processors cache for its guests. *)
(*                                                                         *)
(* The vms and vcpus are those of VmContract and their memory is that of   *)
(* GuestMemory; this module adds what the two leave out: whether the code  *)
(* behind a file is loaded, on which processors SVM instructions work, and *)
(* the ASIDs that tag the entries of the TLBs.  Each vm belongs to a       *)
(* process of its own, which has the same name; a process that opens the   *)
(* device once more, beside the files it has, counts as another one.       *)
(***************************************************************************)
EXTENDS Naturals

CONSTANTS
  Vms,        \* vms, and the processes that create them
  Pcpus,      \* processors
  Booted,     \* the processors that are online from the start
  SvmCpus,    \* the processors is_svm_supported() accepts
  Gfns, MmioGfn, Pages,
  NASID,      \* cpuid_ebx(0x8000000a)
  MaxLoads,   \* bound: how often the module is loaded
  NULL

ASSUME ConstantsAssumption ==
  /\ NULL \notin Pages
  /\ Booted \subseteq Pcpus
  /\ Booted # {}
  /\ SvmCpus \subseteq Pcpus
  /\ NASID \in Nat \ {0, 1}
  /\ MaxLoads \in Nat

VARIABLES
  orderly,     \* history: the device was only opened after yakvm_init(), and no
               \* processor came online between its on_each_cpu() and rmmod
  mod,         \* where the module is between insmod and the end of rmmod
  loads,       \* how often it was loaded
  status,      \* yakvm_status
  registered,  \* whether /dev/yakvm exists
  online,      \* the processors that are online
  svme,        \* the processors whose EFER.SVME is set
  todo,        \* the processors that have yet to run yakvm_cpu_svm_enable()
  crashed,     \* "no", or how the kernel came to its end
  devFile,     \* the processes that have /dev/yakvm open
  stale,       \* the processes whose files are of a load that is gone
  live, vmFile, cpuFile,     \* VmContract
  mem,                       \* GuestMemory
  asid,        \* the ASID counter, in the data of the module
  asidOf,      \* vmcb->control.asid of each vm's vcpu
  tlb          \* for each processor, ASID and frame: the cached page

moduleVars == <<mod, loads, status, registered>>
cpuVars == <<online, svme, todo>>
fileVars == <<devFile, stale, live, vmFile, cpuFile>>
asidVars == <<asid, asidOf>>
vars == <<orderly, moduleVars, cpuVars, crashed, fileVars, mem, asidVars, tlb>>

Vm == INSTANCE VmContract
Mem == INSTANCE GuestMemory WITH Vmms <- Vms, exists <- live

Asids == 0 .. NASID
InitSteps == {"claim", "check", "register", "call", "enable"}

TypeOK ==
  /\ orderly \in BOOLEAN
  /\ mod \in InitSteps \union {"absent", "live", "exit", "cleanup"}
  /\ loads \in 0 .. MaxLoads
  /\ status \in {"unuse", "inuse"}
  /\ registered \in BOOLEAN
  /\ online \subseteq Pcpus /\ svme \subseteq Pcpus /\ todo \subseteq Pcpus
  /\ crashed \in {"no", "assert", "invalid opcode", "unloaded"}
  /\ devFile \subseteq Vms /\ stale \subseteq Vms
  /\ live \subseteq Vms /\ vmFile \subseteq Vms
  /\ cpuFile \in [Vms -> {"none", "open", "closed"}]
  /\ mem \in [Vms -> [Gfns -> Pages \union {NULL}]]
  /\ asid \in Asids
  /\ asidOf \in [Vms -> Asids]
  /\ tlb \in [Pcpus -> [Asids -> [Gfns -> Pages \union {NULL}]]]

Init ==
  /\ orderly = TRUE
  /\ mod = "absent"
  /\ loads = 0
  /\ status = "unuse"
  /\ registered = FALSE
  /\ online = Booted
  /\ svme = {}
  /\ todo = {}
  /\ crashed = "no"
  /\ devFile = {}
  /\ stale = {}
  /\ Vm!Init
  /\ Mem!Init
  /\ asid = 1
  /\ asidOf = [v \in Vms |-> 0]
  /\ tlb = [k \in Pcpus |-> [a \in Asids |-> [g \in Gfns |-> NULL]]]

-----------------------------------------------------------------------------
Run(from, to) == crashed = "no" /\ mod = from /\ mod' = to

(* insmod: the kernel loads the module with the initial values of its data. *)
insmod ==
  /\ Run("absent", "claim")
  /\ loads < MaxLoads
  /\ loads' = loads + 1
  /\ status' = "unuse"
  /\ asid' = 1
  /\ UNCHANGED <<orderly, registered, cpuVars, crashed, fileVars, mem, asidOf,
                 tlb>>

(* yakvm_init(), step by step.  When it fails, the kernel frees the module. *)
init_claim ==
  /\ Run("claim", IF status = "inuse" THEN "absent" ELSE "check")
  /\ status' = "inuse"
  /\ UNCHANGED <<orderly, loads, registered, cpuVars, crashed, fileVars, mem,
                 asidVars, tlb>>

is_svm_supported ==
  /\ \E k \in online :
       Run("check", IF k \in SvmCpus THEN "register" ELSE "absent")
  /\ UNCHANGED <<orderly, loads, status, registered, cpuVars, crashed,
                 fileVars, mem, asidVars, tlb>>

misc_register ==
  /\ Run("register", "call")
  /\ registered' = TRUE
  /\ UNCHANGED <<orderly, loads, status, cpuVars, crashed, fileVars, mem,
                 asidVars, tlb>>

misc_register_fail ==
  /\ Run("register", "absent")
  /\ UNCHANGED <<orderly, loads, status, registered, cpuVars, crashed,
                 fileVars, mem, asidVars, tlb>>

(* on_each_cpu() interrupts the processors that are online, which answer in *)
(* any order, and waits for them.                                           *)
on_each_cpu ==
  /\ Run("call", "enable")
  /\ todo' = online
  /\ UNCHANGED <<orderly, loads, status, registered, online, svme, crashed,
                 fileVars, mem, asidVars, tlb>>

(* Mutant: one processor stands for all, as if smp_call_function_single().  *)
yakvm_cpu_svm_enable_one(k) ==
  /\ Run("enable", "enable")
  /\ k \in todo
  /\ svme' = svme \union {k}
  /\ todo' = {}
  /\ UNCHANGED <<orderly, loads, status, registered, online, crashed,
                 fileVars, mem, asidVars, tlb>>

yakvm_cpu_svm_enable(k) ==
  /\ Run("enable", "enable")
  /\ k \in todo
  /\ svme' = svme \union {k}
  /\ todo' = todo \ {k}
  /\ UNCHANGED <<orderly, loads, status, registered, online, crashed,
                 fileVars, mem, asidVars, tlb>>

init_done ==
  /\ Run("enable", "live")
  /\ todo = {}
  /\ UNCHANGED <<orderly, loads, status, registered, cpuVars, crashed,
                 fileVars, mem, asidVars, tlb>>

(* rmmod: the file_operations have no owner, so open files do not keep the  *)
(* module.                                                                  *)
rmmod ==
  /\ Run("live", "exit")
  /\ UNCHANGED <<orderly, loads, status, registered, cpuVars, crashed,
                 fileVars, mem, asidVars, tlb>>

(* yakvm_exit(): the device goes first, and yakvm_status is asserted.       *)
(* EFER.SVME and MSR_VM_HSAVE_PA stay as they are.  Then the kernel frees   *)
(* the module, with the functions of the files that are still open.         *)
misc_deregister ==
  /\ Run("exit", "cleanup")
  /\ registered' = FALSE
  /\ UNCHANGED <<orderly, loads, status, cpuVars, crashed, fileVars, mem,
                 asidVars, tlb>>

Using(v) == v \in devFile \union vmFile \/ cpuFile[v] = "open"

exit_cleanup ==
  /\ Run("cleanup", "absent")
  /\ status' = "unuse"
  /\ crashed' = IF status = "inuse" THEN "no" ELSE "assert"
  /\ stale' = {v \in Vms : Using(v)}
  /\ UNCHANGED <<orderly, loads, registered, cpuVars, devFile, live, vmFile,
                 cpuFile, mem, asidVars, tlb>>

(* A processor comes online later: its EFER is the kernel's.                *)
cpu_up(k) ==
  /\ crashed = "no"
  /\ k \notin online
  /\ online' = online \union {k}
  /\ orderly' = (orderly /\ mod \notin {"enable", "live", "exit", "cleanup"})
  /\ UNCHANGED <<moduleVars, svme, todo, crashed, fileVars, mem, asidVars, tlb>>

-----------------------------------------------------------------------------
(* What processes do with the files.  Their functions are in the load of    *)
(* the module they were opened in.                                          *)
Loaded(v) == crashed = "no" /\ v \notin stale

open_dev(v) ==
  /\ crashed = "no"
  /\ registered
  /\ v \notin devFile \union stale
  /\ devFile' = devFile \union {v}
  /\ orderly' = (orderly /\ mod \notin {"call", "enable"})
  /\ UNCHANGED <<moduleVars, cpuVars, crashed, stale, live, vmFile, cpuFile,
                 mem, asidVars, tlb>>

(* Any call on a file of a load that is gone, close() included, jumps into  *)
(* memory the kernel has freed, also when the module was loaded again.      *)
call_unloaded(v) ==
  /\ crashed = "no"
  /\ v \in stale
  /\ crashed' = "unloaded"
  /\ UNCHANGED <<orderly, moduleVars, cpuVars, fileVars, mem, asidVars, tlb>>

yakvm_dev_ioctl_create_vm(v) ==
  /\ Loaded(v)
  /\ v \in devFile
  /\ Vm!CreateVm(v)
  /\ Mem!Create(v)
  /\ UNCHANGED <<orderly, moduleVars, cpuVars, crashed, devFile, stale,
                 asidVars, tlb>>

(* Mutant: the ASID is handed out without counting.                         *)
create_vcpu_same_asid(v) ==
  /\ Loaded(v)
  /\ Vm!CreateVcpu(v)
  /\ asidOf' = [asidOf EXCEPT ![v] = asid + 1]
  /\ UNCHANGED <<orderly, moduleVars, cpuVars, crashed, devFile, stale, mem,
                 asid, tlb>>

(* Mutant: the number of ASIDs is not checked.                              *)
create_vcpu_no_assert(v) ==
  /\ Loaded(v)
  /\ Vm!CreateVcpu(v)
  /\ asid' = asid + 1
  /\ asidOf' = [asidOf EXCEPT ![v] = asid']
  /\ UNCHANGED <<orderly, moduleVars, cpuVars, crashed, devFile, stale, mem,
                 tlb>>

(* YAKVM_CREATE_VCPU: the vcpu's ASID is the next one, and tlb_ctl is zero: *)
(* vmrun flushes nothing.                                                   *)
yakvm_vm_ioctl_create_vcpu(v) ==
  /\ Loaded(v)
  /\ Vm!CreateVcpu(v)
  /\ asid' = asid + 1
  /\ asidOf' = [asidOf EXCEPT ![v] = asid']
  /\ crashed' = IF asid' < NASID THEN "no" ELSE "assert"
  /\ UNCHANGED <<orderly, moduleVars, cpuVars, devFile, stale, mem, tlb>>

(* A creation that is refused, as there is a vcpu, or that fails in         *)
(* anon_inode_getfd() has taken an ASID, which does not come back.          *)
create_vcpu_fails(v) ==
  /\ Loaded(v)
  /\ v \in vmFile
  /\ asid' = asid + 1
  /\ crashed' = IF asid' < NASID THEN "no" ELSE "assert"
  /\ UNCHANGED <<orderly, moduleVars, cpuVars, fileVars, mem, asidOf, tlb>>

(* YAKVM_MMAP_PAGE, or a fault on the mapping.                              *)
yakvm_vm_ioctl_mmap_page(v, g) ==
  /\ Loaded(v)
  /\ v \in vmFile
  /\ \E p \in Pages : Mem!Map(v, g, p)
  /\ UNCHANGED <<orderly, moduleVars, cpuVars, crashed, devFile, stale,
                 vmFile, cpuFile, asidVars, tlb>>

(* YAKVM_RUN on processor k, whose guest touches frame g: a translation the *)
(* TLB does not have for its ASID comes from the page table and stays.  (A  *)
(* translation it has is used as it is; one nobody has ends in an exit.)    *)
yakvm_vcpu_run(v, k, g) ==
  /\ Loaded(v)
  /\ cpuFile[v] = "open"
  /\ k \in online \cap svme
  /\ tlb[k][asidOf[v]][g] = NULL
  /\ mem[v][g] # NULL
  /\ tlb' = [tlb EXCEPT ![k][asidOf[v]][g] = mem[v][g]]
  /\ UNCHANGED <<orderly, moduleVars, cpuVars, crashed, fileVars, mem,
                 asidVars>>

(* YAKVM_RUN where EFER.SVME is clear: clgi is an invalid opcode.           *)
run_without_svme(v, k) ==
  /\ Loaded(v)
  /\ cpuFile[v] = "open"
  /\ k \in online \ svme
  /\ crashed' = "invalid opcode"
  /\ UNCHANGED <<orderly, moduleVars, cpuVars, fileVars, mem, asidVars, tlb>>

(* close(): the last file of a vm takes its memory and its vmcb along.      *)
close_dev(v) ==
  /\ Loaded(v)
  /\ v \in devFile
  /\ devFile' = devFile \ {v}
  /\ UNCHANGED <<orderly, moduleVars, cpuVars, crashed, stale, live, vmFile,
                 cpuFile, mem, asidVars, tlb>>

release(v) ==
  /\ Loaded(v)
  /\ Vm!ReleaseVm(v) \/ Vm!ReleaseVcpu(v)
  /\ IF v \in live'
     THEN UNCHANGED <<mem, asidOf>>
     ELSE Mem!Destroy(v) /\ asidOf' = [asidOf EXCEPT ![v] = 0]
  /\ UNCHANGED <<orderly, moduleVars, cpuVars, crashed, devFile, stale, asid,
                 tlb>>

-----------------------------------------------------------------------------
ModuleStep ==
  \/ insmod
  \/ init_claim
  \/ is_svm_supported
  \/ misc_register
  \/ misc_register_fail
  \/ on_each_cpu
  \/ \E k \in Pcpus : yakvm_cpu_svm_enable(k)
  \/ init_done
  \/ rmmod
  \/ misc_deregister
  \/ exit_cleanup

ProcessStep(v) ==
  \/ open_dev(v)
  \/ call_unloaded(v)
  \/ yakvm_dev_ioctl_create_vm(v)
  \/ yakvm_vm_ioctl_create_vcpu(v)
  \/ create_vcpu_fails(v)
  \/ \E g \in Gfns : yakvm_vm_ioctl_mmap_page(v, g)
  \/ \E k \in Pcpus, g \in Gfns : yakvm_vcpu_run(v, k, g)
  \/ \E k \in Pcpus : run_without_svme(v, k)
  \/ close_dev(v)
  \/ release(v)

Next ==
  \/ \E v \in Vms : ProcessStep(v)
  \/ ModuleStep
  \/ \E k \in Pcpus : cpu_up(k)

Spec == Init /\ [][Next]_vars

-----------------------------------------------------------------------------
(* The comment at driver/main.c:107 says: "Before any SVM instruction can   *)
(* be used, EFER.SVME must be set to 1": no vcpu is ever run on a processor *)
(* where it is clear.                                                       *)
SvmeSet == crashed # "invalid opcode"

(* It is so as long as nobody opens the device while yakvm_init() is still  *)
(* at work and no processor comes online behind its on_each_cpu(): whatever *)
(* else happens, processors that come online between two loads and files    *)
(* left open over rmmod included, EFER.SVME is set before it is needed.     *)
SvmeBeforeSvm == orderly => SvmeSet

(* The comment at driver/cpu.c:395 says that ASIDs "ensure different guests *)
(* can coexist in the TLB": what any processor has cached under the ASID of *)
(* a vcpu is the memory of that vcpu's vm, not of one that had the ASID     *)
(* before.                                                                  *)
TlbCoherent ==
  \A v \in Vms, k \in Pcpus, g \in Gfns :
    cpuFile[v] # "none" => tlb[k][asidOf[v]][g] \in {NULL, mem[v][g]}

(* It is so as long as the module has been loaded once: the guests of one   *)
(* load, however many come and go and in whatever order, never meet.        *)
TlbCoherentWithinLoad == loads <= 1 => TlbCoherent

(* The same of a module that is loaded again, when every file is closed     *)
(* before it goes and the device is opened again once it is back.           *)
TlbCoherentOverReload == orderly /\ stale = {} => TlbCoherent
=============================================================================
