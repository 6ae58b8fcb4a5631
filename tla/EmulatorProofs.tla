--------------------------- MODULE EmulatorProofs ---------------------------
(***************************************************************************)
(* Proofs about Emulator, for every set of images: what main() has open    *)
(* and returns, which guests it can run, and that the exits and handlers   *)
(* add up to the machine of GuestMachine.                                  *)
(***************************************************************************)
EXTENDS Emulator, TLAPS

(* The loop of yakvm_cpu_run(), and the steps of main() before it.          *)
Loop == {"run", "handle", "set_regs"}
BeforeVcpu ==
  {"open", "create_vm", "mmap_memory", "open_bin", "fstat", "read", "close_bin",
   "create_vcpu"}

(* The control block yakvm_vcpu_init_vmcb() makes of a zeroed page.         *)
InitialVmcb == yakvm_vcpu_init_vmcb(ZeroVmcb, YAKVM_PIO_HAWK, 2)

(* What the prover has to know of the shape of the state.                   *)
ShapeOK ==
  /\ image \in Images
  /\ vcpu = [rax |-> vcpu.rax, rip |-> vcpu.rip]
  /\ cpuFile \in [{"vm"} -> {"none", "open", "closed"}]

(* For each descriptor and mapping, where main() does not have it.          *)
OpenOK ==
  /\ pc \in {"open", "return"} => "dev" \notin fds
  /\ pc \in {"open", "create_vm", "close_yakvmfd", "return"} => "vm" \notin fds
  /\ pc \in Steps \ {"fstat", "read", "close_bin"} => "bin" \notin fds
  /\ pc \in Steps \ ({"create_again", "mmap_state", "init_regs", "close_cpufd",
                      "destroy_cpu"} \union Loop) => "vcpu" \notin fds
  /\ pc \in {"open", "create_vm", "mmap_memory", "close_vmfd", "close_yakvmfd",
             "return"} => "memory" \notin maps
  /\ pc \in Steps \ ({"init_regs", "destroy_cpu"} \union Loop) =>
       "state" \notin maps

(* What ret and mode say of how far main() has come.                        *)
StatusOK ==
  /\ pc \in BeforeVcpu \union {"create_again", "mmap_state", "init_regs",
                               "munmap_memory", "close_cpufd"} => mode = "unset"
  /\ pc \in Loop => mode = "RUNNING"
  /\ pc = "destroy_cpu" => mode = "HLT"
  /\ pc \in {"read", "create_vcpu", "create_again", "mmap_state", "init_regs",
             "destroy_cpu"} \union Loop => ret = "zero"
  /\ pc = "close_bin" => ret # "unset"
  /\ pc \in {"munmap_memory", "close_cpufd"} => ret = "error"
  /\ pc \in {"destroy_memory", "close_vmfd", "close_yakvmfd", "return"} =>
       (ret = "zero" /\ mode = "HLT") \/ (ret = "error" /\ mode = "unset")

(* The control block is filled in by the time the vcpu runs.                *)
VmcbOK ==
  /\ pc \in BeforeVcpu => vmcb = ZeroVmcb
  /\ cpuFile["vm"] # "none" \/ pc \in {"mmap_state", "init_regs"} \union Loop
       => vmcb = InitialVmcb

(* A struct registers is pending between a handler and YAKVM_SET_REGS only. *)
RegsOK ==
  /\ pc \in Steps \ {"set_regs"} => regs = NoRegs
  /\ pc = "set_regs" =>
       /\ regs = [rax |-> regs.rax, rip |-> regs.rip]
       /\ regs.rip >= 0

(* How the exit that is being handled came about.                           *)
ExitOK ==
  pc = "handle" =>
    /\ state.rip = vcpu.rip
    /\ \/ /\ state.exit = SVM_EXIT_NPF
          /\ state.info2 \in Operand \union {YAKVM_ENTRY + vcpu.rip}
       \/ state.exit = SVM_EXIT_EXCP_BASE + DB_VECTOR
       \/ /\ state.exit = SVM_EXIT_IOIO
          /\ \/ Fetch.op = "in" /\ state.info1 = 17
             \/ Fetch.op = "out" /\ state.info1 = 16
             \/ Fetch.op = "in16" /\ state.info1 = 33
          /\ state.info2 = NextRip
       \/ state.exit = SVM_EXIT_HLT /\ Fetch.op = "hlt"
       \/ /\ state.exit \in {SVM_EXIT_VMRUN, SVM_EXIT_SHUTDOWN}
          /\ Fetch.op \in {"vmrun", "triple"}

(* A guest of the supported kind stays within its instructions, and a vcpu  *)
(* that could be created is there when main() asks for a second one.        *)
GuestOK ==
  Supported(image) /\ "oom" \notin faults =>
    /\ pc \notin Failed
    /\ pc = "create_again" => cpuFile["vm"] = "open" /\ "vcpu" \in fds
    /\ pc \in {"run", "handle"} => vcpu.rip \in DOMAIN image.code
    /\ pc = "set_regs" => regs.rip \in DOMAIN image.code

IInv ==
  /\ TypeOK /\ ShapeOK /\ OpenOK /\ StatusOK /\ VmcbOK /\ RegsOK /\ ExitOK
  /\ GuestOK

-----------------------------------------------------------------------------
(* The numbers that the model writes as powers of two.                      *)
LEMMA Powers ==
  U8 = 256 /\ U16 = 65536 /\ 2^4 = 16 /\ 2^5 = 32 /\ 2^16 = 65536
  BY DEF U8, U16

(* The same as bounds only.                                                 *)
LEMMA Widths == U8 \in Nat \ {0} /\ U16 \in Nat /\ U8 <= U16
  BY DEF U8, U16

(* A remainder is below the modulus, also that of a negative number.        *)
LEMMA Remainder ==
  ASSUME NEW x \in Int, NEW b \in Nat \ {0}
  PROVE  x % b \in 0 .. b - 1
  OBVIOUS

Vmcbs ==
  [intercepts : [0 .. MAX_INTERCEPT - 1 -> SUBSET (0 .. 31)],
   iopm : SUBSET Int, nested_ctl : SUBSET {"NP_ENABLE"}, asid : Int,
   cr0 : SUBSET {"NW", "CD", "ET"}, rflags : SUBSET {"FIXED", "TF"},
   efer : SUBSET {"SVME"}]

(* The rest of the control block is the same, and no intercept is lost.     *)
Keeps(v, w) ==
  /\ w.iopm = v.iopm /\ w.nested_ctl = v.nested_ctl /\ w.asid = v.asid
  /\ w.cr0 = v.cr0 /\ w.rflags = v.rflags /\ w.efer = v.efer
  /\ \A b \in 0 .. 191 : Intercepted(v, b) => Intercepted(w, b)

(* Setting an intercept sets that one and keeps everything else.            *)
LEMMA SetIntercept ==
  ASSUME NEW v \in Vmcbs, NEW bit \in 0 .. 191,
         NEW w, w = yakvm_vmcb_set_intercept(v, bit)
  PROVE  w \in Vmcbs /\ Keeps(v, w) /\ Intercepted(w, bit)
<1> DEFINE i == bit \div 32
           r == bit % 32
<1>1. i \in 0 .. 5 /\ r \in 0 .. 31 /\ MAX_INTERCEPT - 1 = 5
  BY DEF MAX_INTERCEPT
<1>2. v.intercepts \in [0 .. 5 -> SUBSET (0 .. 31)]
  BY <1>1 DEF Vmcbs
<1> DEFINE I == [v.intercepts EXCEPT ![i] = @ \union {r}]
<1>3. I \in [0 .. 5 -> SUBSET (0 .. 31)] /\ r \in I[i]
      /\ \A k \in 0 .. 5 : v.intercepts[k] \subseteq I[k]
  <2> HIDE DEF i, r
  <2> QED
    BY <1>1, <1>2
<1>4. w = [v EXCEPT !.intercepts = I]
  BY DEF yakvm_vmcb_set_intercept
<1> HIDE DEF I, i, r
<1>5. \A b \in 0 .. 191 : b \div 32 \in 0 .. 5
  OBVIOUS
<1> QED
  BY <1>1, <1>3, <1>4, <1>5 DEF Vmcbs, Keeps, Intercepted, i, r

(* What yakvm_vcpu_init_vmcb() has switched on: the vmcb passes the checks  *)
(* of vmrun, nested paging is on, the guest is single-stepped, and #DB, hlt *)
(* and accesses to the port of the device are intercepted.                  *)
LEMMA InitialVmcbFacts ==
  /\ Consistent(InitialVmcb)
  /\ "NP_ENABLE" \in InitialVmcb.nested_ctl
  /\ "TF" \in InitialVmcb.rflags
  /\ YAKVM_PIO_HAWK \in InitialVmcb.iopm
  /\ Intercepted(InitialVmcb, INTERCEPT_EXCEPTION_OFFSET + DB_VECTOR)
  /\ Intercepted(InitialVmcb, INTERCEPT_HLT)
  /\ Intercepted(InitialVmcb, INTERCEPT_IOIO_PROT)
<1> DEFINE save == [intercepts |-> ZeroVmcb.intercepts,
                    iopm |-> ZeroVmcb.iopm \union {YAKVM_PIO_HAWK},
                    nested_ctl |-> ZeroVmcb.nested_ctl \union {"NP_ENABLE"},
                    asid |-> 2,
                    cr0 |-> {"NW", "CD", "ET"},
                    rflags |-> {"FIXED", "TF"},
                    efer |-> ZeroVmcb.efer \union {"SVME"}]
           db == yakvm_vmcb_set_intercept(save, 65)
           halt == yakvm_vmcb_set_intercept(db, 120)
           ioio == yakvm_vmcb_set_intercept(halt, 123)
           all == yakvm_vmcb_set_intercept(ioio, 128)
<1>1. /\ ZeroVmcb.intercepts \in [0 .. MAX_INTERCEPT - 1 -> SUBSET (0 .. 31)]
      /\ ZeroVmcb.iopm = {} /\ ZeroVmcb.nested_ctl = {} /\ ZeroVmcb.efer = {}
  BY DEF ZeroVmcb, MAX_INTERCEPT
<1>2. /\ save.iopm = {YAKVM_PIO_HAWK} /\ save.nested_ctl = {"NP_ENABLE"}
      /\ save.asid = 2 /\ save.cr0 = {"NW", "CD", "ET"}
      /\ save.rflags = {"FIXED", "TF"} /\ save.efer = {"SVME"}
  BY <1>1
<1>3. save \in Vmcbs
  <2>1. {YAKVM_PIO_HAWK} \in SUBSET Int
    BY DEF YAKVM_PIO_HAWK
  <2>2. /\ {"NP_ENABLE"} \in SUBSET {"NP_ENABLE"}
        /\ {"NW", "CD", "ET"} \in SUBSET {"NW", "CD", "ET"}
        /\ {"FIXED", "TF"} \in SUBSET {"FIXED", "TF"}
        /\ {"SVME"} \in SUBSET {"SVME"}
        /\ 2 \in Int
    OBVIOUS
  <2>3. /\ {} \union {YAKVM_PIO_HAWK} = {YAKVM_PIO_HAWK}
        /\ {} \union {"NP_ENABLE"} = {"NP_ENABLE"}
        /\ {} \union {"SVME"} = {"SVME"}
    OBVIOUS
  <2> QED
    BY <1>1, <2>1, <2>2, <2>3, Zenon DEF Vmcbs
<1>4. INTERCEPT_EXCEPTION_OFFSET + DB_VECTOR = 65
  BY DEF INTERCEPT_EXCEPTION_OFFSET, DB_VECTOR
<1>5. InitialVmcb = all
  BY <1>4 DEF InitialVmcb, yakvm_vcpu_init_vmcb,
     yakvm_vmcb_set_exception_intercept, INTERCEPT_HLT, INTERCEPT_IOIO_PROT,
     INTERCEPT_VMRUN
<1>6. /\ 65 \in 0 .. 191 /\ 120 \in 0 .. 191
      /\ 123 \in 0 .. 191 /\ 128 \in 0 .. 191
  OBVIOUS
<1> HIDE DEF save
<1>7. db \in Vmcbs /\ Keeps(save, db) /\ Intercepted(db, 65)
  BY <1>3, <1>6, SetIntercept, Zenon
<1> HIDE DEF db
<1>8. halt \in Vmcbs /\ Keeps(db, halt) /\ Intercepted(halt, 120)
  BY <1>6, <1>7, SetIntercept, Zenon
<1> HIDE DEF halt
<1>9. ioio \in Vmcbs /\ Keeps(halt, ioio) /\ Intercepted(ioio, 123)
  BY <1>6, <1>8, SetIntercept, Zenon
<1> HIDE DEF ioio
<1>10. Keeps(ioio, all) /\ Intercepted(all, 128)
  BY <1>6, <1>9, SetIntercept, Zenon
<1> HIDE DEF all
<1>11. Intercepted(all, 65) /\ Intercepted(all, 120) /\ Intercepted(all, 123)
  <2>1. Intercepted(halt, 65)
    BY <1>6, <1>7, <1>8, Zenon DEF Keeps
  <2>2. Intercepted(ioio, 65) /\ Intercepted(ioio, 120)
    BY <1>6, <1>8, <1>9, <2>1, ZenonT(30) DEF Keeps
  <2>3. \A b \in 0 .. 191 : Intercepted(ioio, b) => Intercepted(all, b)
    BY <1>10 DEF Keeps
  <2> QED
    BY <1>6, <1>9, <2>2, <2>3, ZenonT(30)
<1>12. /\ all.iopm = save.iopm /\ all.nested_ctl = save.nested_ctl
       /\ all.asid = save.asid /\ all.cr0 = save.cr0
       /\ all.rflags = save.rflags /\ all.efer = save.efer
  BY <1>7, <1>8, <1>9, <1>10, ZenonT(30) DEF Keeps
<1> QED
  BY <1>2, <1>4, <1>5, <1>10, <1>11, <1>12 DEF Consistent, INTERCEPT_VMRUN,
     INTERCEPT_HLT, INTERCEPT_IOIO_PROT

-----------------------------------------------------------------------------
(* The page an address is in; only the first one is the device's.           *)
LEMMA PageFacts ==
  ASSUME NEW x \in Nat
  PROVE  /\ yakvm_page(x) \in Nat
         /\ yakvm_page(x) % PAGE_SIZE = 0
         /\ yakvm_page(x) = 0 <=> x < PAGE_SIZE
  BY DEF yakvm_page, PAGE_SIZE

(* The pages an image is loaded to are whole ones, and not the device's.    *)
LEMMA LoadedFacts ==
  ASSUME NEW size \in Nat, NEW p \in Loaded(size)
  PROVE  p \in Nat \ {0} /\ p % PAGE_SIZE = 0
<1>1. PICK i \in 0 .. (size \div PAGE_SIZE) :
        p = yakvm_page(YAKVM_ENTRY + i * PAGE_SIZE)
  BY DEF Loaded
<1>2. YAKVM_ENTRY + i * PAGE_SIZE \in Nat
      /\ ~(YAKVM_ENTRY + i * PAGE_SIZE < PAGE_SIZE)
  BY DEF YAKVM_ENTRY, PAGE_SIZE
<1> QED
  BY <1>1, <1>2, PageFacts

(* What the guests the emulator supports have in common.                    *)
LEMMA SupportedFacts ==
  ASSUME NEW img, img.size \in Nat, Supported(img)
  PROVE  /\ ~(YAKVM_ENTRY + img.size > YAKVM_MEMORY)
         /\ 0 \in DOMAIN img.code
         /\ \A a \in DOMAIN img.code :
              LET insn == img.code[a]
              IN /\ insn.op \in {"mov", "touch", "jne", "in", "out", "mmio_in",
                                 "mmio_out", "hlt"}
                 /\ insn.op = "touch" => insn.val >= PAGE_SIZE
                 /\ insn.op = "jne" => a - insn.back \in DOMAIN img.code
                 /\ insn.op # "hlt" => a + insn.len \in DOMAIN img.code
<1>1. img.size \in 1 .. YAKVM_MEMORY - YAKVM_ENTRY
  BY Zenon DEF Supported
<1>2. YAKVM_MEMORY \in Int /\ YAKVM_ENTRY \in Int
  BY SMT DEF YAKVM_MEMORY, YAKVM_ENTRY
<1>3. ~(YAKVM_ENTRY + img.size > YAKVM_MEMORY)
  BY <1>1, <1>2, SMT
<1> QED
  BY <1>3, Zenon DEF Supported

(* The instruction at rip is one of the image, or zeroes.                   *)
LEMMA FetchFacts ==
  ASSUME ShapeOK, TypeOK
  PROVE  /\ vcpu.rip \in DOMAIN image.code =>
              /\ Fetch = image.code[vcpu.rip]
              /\ Fetch.val \in Nat
              /\ Fetch.len \in Nat /\ vcpu.rip + Fetch.len < U16
              /\ Fetch.back \in 0 .. vcpu.rip
              /\ Fetch.op = "mov" => Fetch.val < U16
              /\ Fetch.op \in {"mmio_in", "mmio_out"} => Fetch.len = 3
         /\ vcpu.rip \notin DOMAIN image.code =>
              Fetch.op = "touch" /\ Fetch.val = 0
         /\ \A gpa \in Operand : gpa \in Nat
  BY ConstantsAssumption DEF ShapeOK, TypeOK, Fetch, Insn, Operand,
     YAKVM_MMIO_HAWK

(* Zeroes are not executed: they access the page of the device, which is    *)
(* never in the nested page table.                                          *)
LEMMA ExecutesFacts ==
  ASSUME ShapeOK, TypeOK, VmcbOK, pc \in Loop, NEW ops, Executes(ops)
  PROVE  vcpu.rip \in DOMAIN image.code /\ Fetch.op \in ops
<1>1. "NP_ENABLE" \in vmcb.nested_ctl
  BY InitialVmcbFacts DEF VmcbOK
<1>2. yakvm_page(0) \notin mapped
  BY PageFacts DEF TypeOK, PAGE_SIZE
<1>3. Missing(0)
  BY <1>1, <1>2 DEF Missing
<1> QED
  BY <1>3, FetchFacts DEF Executes, Operand

(* The steps that set up the vm, load the image and create the vcpu.        *)
LEMMA SetUpStep == IInv /\ SetUp => IInv'
<1> SUFFICES ASSUME IInv, SetUp PROVE IInv'
  OBVIOUS
<1> USE DEF IInv, TypeOK, ShapeOK, OpenOK, StatusOK, VmcbOK,
     RegsOK, ExitOK, GuestOK, Loop, BeforeVcpu, Steps, Ended, Failed,
     procVars, emulatorVars, guestVars, contractVars
<1>1. CASE open
  BY <1>1 DEF open, Goto, Success, Error
<1>2. CASE create_vm
  BY <1>2 DEF create_vm, Goto, Success, Error, Vm!CreateVm
<1>3. CASE mmap_memory
  BY <1>3 DEF mmap_memory, Goto, Success, Error
<1>4. CASE open_bin
  BY <1>4 DEF open_bin, Goto, Success, Error
<1>5. CASE fstat
  BY <1>5 DEF fstat, Goto, Success, Error
<1>6. CASE read
  <2>1. image.size \in Nat
    BY ConstantsAssumption DEF IInv, ShapeOK
  <2>2. Supported(image) => ~(YAKVM_ENTRY + image.size > YAKVM_MEMORY)
    BY <2>1, SupportedFacts
  <2>3. TypeOK'
    BY <1>6, <2>1, LoadedFacts DEF TypeOK, Steps, Ended, Failed, read, Goto,
       Abort, Error, OutOfMemory, procVars, emulatorVars, contractVars
  <2> QED
    BY <1>6, <2>2, <2>3 DEF ShapeOK, OpenOK, StatusOK, VmcbOK, RegsOK,
       ExitOK, GuestOK, TypeOK, read, Goto, Abort, Error, OutOfMemory, procVars,
       emulatorVars, contractVars
<1>7. CASE close_bin
  BY <1>7 DEF close_bin, Goto
<1>8. CASE munmap_memory
  BY <1>8 DEF munmap_memory, Goto
<1>9. CASE create_vcpu
  BY <1>9 DEF create_vcpu, Goto, Success, Error,
     OutOfMemory, Abort, Vm!CreateVcpu, InitialVmcb, ResetRip, U16
<1>10. CASE create_again
  BY <1>10 DEF create_again, Goto, OutOfMemory, Abort
<1>11. CASE mmap_state
  BY <1>11 DEF mmap_state, Goto, Success, Error
<1>12. CASE init_regs
  BY <1>12, SupportedFacts DEF init_regs, Goto, U16
<1>13. CASE close_cpufd
  BY <1>13 DEF close_cpufd, Goto
<1> QED
  BY <1>1, <1>2, <1>3, <1>4, <1>5, <1>6, <1>7, <1>8, <1>9, <1>10, <1>11,
     <1>12, <1>13 DEF SetUp

(* The steps that take everything down again.                               *)
LEMMA TakeDownStep == IInv /\ TakeDown => IInv'
<1> SUFFICES ASSUME IInv, TakeDown PROVE IInv'
  OBVIOUS
<1> USE DEF IInv, TypeOK, ShapeOK, OpenOK, StatusOK, VmcbOK,
     RegsOK, ExitOK, GuestOK, Loop, BeforeVcpu, Steps, Ended, Failed,
     procVars, emulatorVars, guestVars, contractVars
<1>1. CASE yakvm_destroy_cpu
  BY <1>1 DEF yakvm_destroy_cpu, Goto
<1>2. CASE yakvm_destroy_memory
  BY <1>2 DEF yakvm_destroy_memory, Goto
<1>3. CASE close_vmfd
  BY <1>3 DEF close_vmfd, Goto
<1>4. CASE close_yakvmfd
  BY <1>4 DEF close_yakvmfd, Goto
<1>5. CASE exit
  BY <1>5 DEF exit, Goto
<1> QED
  BY <1>1, <1>2, <1>3, <1>4, <1>5 DEF TakeDown

(* The process is killed.                                                   *)
LEMMA KillStep == IInv /\ kill => IInv'
  BY DEF IInv, TypeOK, ShapeOK, OpenOK, StatusOK, VmcbOK,
     RegsOK, ExitOK, GuestOK, Loop, BeforeVcpu, Steps, Ended, Failed,
     emulatorVars, guestVars, contractVars, kill

(* A file is released.  The vcpu's is not while main() has its descriptor.  *)
LEMMA ReleaseStep == IInv /\ release => IInv'
<1> SUFFICES ASSUME IInv, release PROVE IInv'
  OBVIOUS
<1>1. UNCHANGED <<pc, procVars, emulatorVars, guestVars>>
  BY DEF release
<1>2. /\ cpuFile' \in [{"vm"} -> {"none", "open", "closed"}]
      /\ cpuFile'["vm"] # "none" => cpuFile["vm"] # "none"
      /\ cpuFile["vm"] = "open" /\ "vcpu" \in fds => cpuFile'["vm"] = "open"
      /\ live' \subseteq live /\ vmFile' \subseteq vmFile
  BY DEF IInv, ShapeOK, release, Vm!ReleaseVm, Vm!ReleaseVcpu
<1>3. Fetch' = Fetch /\ Operand' = Operand /\ NextRip' = NextRip
  BY <1>1 DEF Fetch, Operand, NextRip, guestVars
<1> QED
  BY <1>1, <1>2, <1>3 DEF IInv, TypeOK, ShapeOK, OpenOK, StatusOK, VmcbOK,
     RegsOK, ExitOK, GuestOK, procVars, emulatorVars, guestVars

(* The exits of the guest.  Each leaves the reason for the exit in the      *)
(* state page, together with the registers it was taken with.               *)
LEMMA ExitFacts ==
  ASSUME NEW code, NEW info1, NEW info2, Exit(code, info1, info2), IInv
  PROVE  /\ pc = "run" /\ pc' = "handle"
         /\ vmcb = InitialVmcb /\ regs = NoRegs
         /\ state'.exit = code /\ state'.info1 = info1 /\ state'.info2 = info2
         /\ state'.rip = vcpu'.rip
         /\ UNCHANGED <<procVars, emulatorVars, image, mapped, vmcb,
                        contractVars>>
  BY DEF Exit, Goto, IInv, VmcbOK, RegsOK, Steps, Loop

(* An exit keeps the invariant if its reason is a good one, and the guest   *)
(* goes on at an instruction.                                               *)
LEMMA ExitStep ==
  ASSUME IInv, NEW code \in Int, NEW info1, NEW info2,
         Exit(code, info1, info2), ExitOK',
         vcpu' = [rax |-> vcpu'.rax, rip |-> vcpu'.rip],
         vcpu'.rax \in 0 .. U16 - 1, vcpu'.rip \in 0 .. U16 - 1,
         Supported(image) /\ vcpu.rip \in DOMAIN image.code =>
           vcpu'.rip \in DOMAIN image.code
  PROVE  IInv'
<1> USE ExitFacts
<1>1. TypeOK' /\ ShapeOK'
  BY DEF IInv, TypeOK, ShapeOK, Steps, procVars, emulatorVars, contractVars
<1>2. OpenOK' /\ StatusOK' /\ VmcbOK'
  BY DEF IInv, OpenOK, StatusOK, VmcbOK, BeforeVcpu, Loop, Steps, procVars,
     emulatorVars, contractVars
<1>3. RegsOK' /\ GuestOK'
  BY DEF IInv, RegsOK, GuestOK, Failed, procVars, emulatorVars
<1> QED
  BY <1>1, <1>2, <1>3 DEF IInv

(* Every exit of the guest keeps the invariant.                             *)
LEMMA RunStep ==
  ASSUME IInv, exit_npf \/ exit_db \/ exit_ioio \/ exit_hlt \/ exit_other
  PROVE  IInv'
<1> USE DEF IInv
<1>1. ASSUME UNCHANGED <<vcpu, image>>
      PROVE  /\ Fetch' = Fetch /\ Operand' = Operand /\ NextRip' = NextRip
             /\ vcpu' = [rax |-> vcpu'.rax, rip |-> vcpu'.rip]
             /\ vcpu'.rax \in 0 .. U16 - 1 /\ vcpu'.rip \in 0 .. U16 - 1
             /\ vcpu.rip \in DOMAIN image.code =>
                  vcpu'.rip \in DOMAIN image.code
  BY <1>1 DEF Fetch, Operand, NextRip, TypeOK, ShapeOK
<1>2. CASE exit_npf
  <2>1. PICK gpa \in Operand \union {YAKVM_ENTRY + vcpu.rip} :
          Exit(SVM_EXIT_NPF, 0, gpa)
    BY <1>2 DEF exit_npf
  <2>2. UNCHANGED <<vcpu, image>>
    BY <1>2, <2>1, ExitFacts DEF exit_npf
  <2>3. ExitOK'
    BY <1>1, <2>1, <2>2, ExitFacts DEF ExitOK
  <2>4. SVM_EXIT_NPF \in Int
    BY SMT DEF SVM_EXIT_NPF
  <2> QED
    BY <1>1, <2>1, <2>2, <2>3, <2>4, ExitStep
<1>3. CASE exit_db
  <2>1. Exit(SVM_EXIT_EXCP_BASE + DB_VECTOR, 0, 0)
        /\ Executes({"mov", "touch", "jne"})
    BY <1>3 DEF exit_db
  <2>2. vcpu.rip \in DOMAIN image.code /\ Fetch.op \in {"mov", "touch", "jne"}
    BY <2>1, ExitFacts, ExecutesFacts DEF Loop
  <2>3. ExitOK'
    BY <2>1, ExitFacts DEF ExitOK
  <2>4. vcpu.rip \in 0 .. U16 - 1 /\ vcpu.rax \in 0 .. U16 - 1 /\ U16 \in Nat
    <3>1. U16 \in Nat
      BY Powers, SMT
    <3> QED
      BY <3>1 DEF TypeOK
  <2>5. /\ vcpu' = [rax |-> vcpu'.rax, rip |-> vcpu'.rip]
        /\ vcpu'.rax \in 0 .. U16 - 1 /\ vcpu'.rip \in 0 .. U16 - 1
    BY <1>3, <2>2, <2>4, FetchFacts DEF exit_db, NextRip
  <2>6. Supported(image) => vcpu'.rip \in DOMAIN image.code
    BY <1>3, <2>2, FetchFacts, SupportedFacts, ConstantsAssumption
    DEF exit_db, NextRip, ShapeOK
  <2> QED
    BY <2>1, <2>3, <2>5, <2>6, ExitStep DEF SVM_EXIT_EXCP_BASE, DB_VECTOR
<1>4. CASE exit_ioio
  <2> DEFINE info1 ==
         (IF Fetch.op = "out" THEN SVM_IOIO_TYPE_OUT ELSE SVM_IOIO_TYPE_IN)
            + (IF Fetch.op = "in16" THEN 2^5 ELSE 2^4)
            + YAKVM_PIO_HAWK * 2^16
  <2>1. Exit(SVM_EXIT_IOIO, info1, NextRip) /\ Executes({"in", "out", "in16"})
    BY <1>4 DEF exit_ioio
  <2>2. Fetch.op \in {"in", "out", "in16"}
    BY <2>1, ExitFacts, ExecutesFacts DEF Loop
  <2>3. \/ Fetch.op = "in" /\ info1 = 17
        \/ Fetch.op = "out" /\ info1 = 16
        \/ Fetch.op = "in16" /\ info1 = 33
    BY <2>2, Powers DEF SVM_IOIO_TYPE_OUT, SVM_IOIO_TYPE_IN, YAKVM_PIO_HAWK
  <2> HIDE DEF info1
  <2>4. UNCHANGED <<vcpu, image>>
    BY <1>4, <2>1, ExitFacts DEF exit_ioio
  <2>5. ExitOK'
    BY <1>1, <2>1, <2>3, <2>4, ExitFacts DEF ExitOK
  <2> QED
    BY <1>1, <2>1, <2>4, <2>5, ExitStep DEF SVM_EXIT_IOIO
<1>5. CASE exit_hlt
  <2>1. Exit(SVM_EXIT_HLT, 0, 0) /\ Executes({"hlt"})
    BY <1>5 DEF exit_hlt
  <2>2. Fetch.op = "hlt"
    BY <2>1, ExitFacts, ExecutesFacts DEF Loop
  <2>3. UNCHANGED <<vcpu, image>>
    BY <1>5, <2>1, ExitFacts DEF exit_hlt
  <2>4. ExitOK'
    BY <1>1, <2>1, <2>2, <2>3, ExitFacts DEF ExitOK
  <2> QED
    BY <1>1, <2>1, <2>3, <2>4, ExitStep DEF SVM_EXIT_HLT
<1>6. CASE exit_other
  <2>1. vmcb = InitialVmcb
    BY <1>6, ExitFacts DEF exit_other
  <2>2. Exit(OtherExit, 0, 0) /\ Executes({"vmrun", "triple"})
    BY <1>6, <2>1, InitialVmcbFacts DEF exit_other
  <2>3. Fetch.op \in {"vmrun", "triple"}
    BY <2>2, ExitFacts, ExecutesFacts DEF Loop
  <2>4. UNCHANGED <<vcpu, image>>
    BY <1>6, <2>2, ExitFacts DEF exit_other
  <2>5. OtherExit \in {SVM_EXIT_VMRUN, SVM_EXIT_SHUTDOWN}
    BY Zenon DEF OtherExit
  <2>6. OtherExit \in Int
    BY <2>5, SMT DEF SVM_EXIT_SHUTDOWN, SVM_EXIT_VMRUN
  <2> HIDE DEF OtherExit
  <2>7. state'.exit \in {SVM_EXIT_VMRUN, SVM_EXIT_SHUTDOWN}
        /\ state'.rip = vcpu'.rip
    BY <2>2, <2>5, <2>6, ExitFacts
  <2>8. ExitOK'
    BY <1>1, <2>3, <2>4, <2>7 DEF ExitOK
  <2> QED
    BY <1>1, <2>2, <2>4, <2>6, <2>8, ExitStep
<1> QED
  BY <1>2, <1>3, <1>4, <1>5, <1>6

(* Only a guest with an instruction that is not supported shuts the         *)
(* processor down.                                                          *)
LEMMA ShutdownStep == IInv /\ shutdown => IInv'
<1> SUFFICES ASSUME IInv, shutdown PROVE IInv'
  OBVIOUS
<1>1. /\ pc = "run" /\ pc' = "shutdown" /\ Executes({"triple"})
      /\ UNCHANGED <<procVars, emulatorVars, guestVars, contractVars>>
  BY DEF shutdown, Goto
<1>2. vcpu.rip \in DOMAIN image.code /\ Fetch.op = "triple"
  BY <1>1, ExecutesFacts DEF IInv, Loop
<1>3. ~Supported(image)
  BY <1>2, FetchFacts, SupportedFacts, ConstantsAssumption DEF IInv, ShapeOK
<1> QED
  BY <1>1, <1>3 DEF IInv, TypeOK, ShapeOK, OpenOK, StatusOK, VmcbOK, RegsOK,
     ExitOK, GuestOK, Loop, BeforeVcpu, Steps, Ended, Failed, procVars,
     emulatorVars, guestVars, contractVars

(* Which instruction an exit that is handled belongs to.                    *)
LEMMA HandleFacts ==
  ASSUME IInv, pc = "handle"
  PROVE  /\ state.exit = SVM_EXIT_NPF =>
              /\ state.info2 \in Nat
              /\ state.info2 < PAGE_SIZE => state.info2 \in Operand
         /\ state.exit = SVM_EXIT_IOIO =>
              /\ \/ Fetch.op = "in" /\ state.info1 = 17
                 \/ Fetch.op = "out" /\ state.info1 = 16
                 \/ Fetch.op = "in16" /\ state.info1 = 33
              /\ vcpu.rip \in DOMAIN image.code
              /\ state.info2 = vcpu.rip + Fetch.len
         /\ state.exit = SVM_EXIT_HLT =>
              Fetch.op = "hlt" /\ vcpu.rip \in DOMAIN image.code
         /\ state.exit \in {SVM_EXIT_NPF, SVM_EXIT_EXCP_BASE + DB_VECTOR,
                            SVM_EXIT_HLT, SVM_EXIT_IOIO}
              \/ /\ Fetch.op \in {"vmrun", "triple"}
                 /\ vcpu.rip \in DOMAIN image.code
         /\ state.rip = vcpu.rip
         /\ Opcode = IF vcpu.rip \in DOMAIN image.code THEN Fetch.op ELSE "zero"
         /\ vmcb = InitialVmcb /\ mode = "RUNNING" /\ regs = NoRegs
<1> USE DEF IInv
<1>1. state.rip = vcpu.rip /\ vcpu.rip \in Nat
  BY DEF ExitOK, TypeOK
<1>2. vmcb = InitialVmcb /\ mode = "RUNNING" /\ regs = NoRegs
  BY DEF VmcbOK, StatusOK, RegsOK, Loop, Steps
<1>3. Opcode = IF vcpu.rip \in DOMAIN image.code THEN Fetch.op ELSE "zero"
  BY <1>1, FetchFacts DEF Opcode
<1>4. /\ SVM_EXIT_NPF = 1024 /\ SVM_EXIT_EXCP_BASE + DB_VECTOR = 65
      /\ SVM_EXIT_IOIO = 123 /\ SVM_EXIT_HLT = 120
      /\ SVM_EXIT_SHUTDOWN = 127 /\ SVM_EXIT_VMRUN = 128
  BY SMT DEF SVM_EXIT_NPF, SVM_EXIT_EXCP_BASE, DB_VECTOR, SVM_EXIT_IOIO,
     SVM_EXIT_HLT, SVM_EXIT_SHUTDOWN, SVM_EXIT_VMRUN
<1>5. YAKVM_ENTRY + vcpu.rip \in Nat /\ ~(YAKVM_ENTRY + vcpu.rip < PAGE_SIZE)
  BY <1>1, SMT DEF YAKVM_ENTRY, PAGE_SIZE
<1>6. state.exit = SVM_EXIT_NPF =>
        /\ state.info2 \in Nat
        /\ state.info2 < PAGE_SIZE => state.info2 \in Operand
  BY <1>4, <1>5, FetchFacts, SMT DEF ExitOK
<1>7. state.exit = SVM_EXIT_IOIO =>
        /\ \/ Fetch.op = "in" /\ state.info1 = 17
           \/ Fetch.op = "out" /\ state.info1 = 16
           \/ Fetch.op = "in16" /\ state.info1 = 33
        /\ vcpu.rip \in DOMAIN image.code
        /\ state.info2 = vcpu.rip + Fetch.len
  BY <1>4, FetchFacts, SMT DEF ExitOK, NextRip
<1>8. state.exit = SVM_EXIT_HLT =>
        Fetch.op = "hlt" /\ vcpu.rip \in DOMAIN image.code
  BY <1>4, FetchFacts, SMT DEF ExitOK
<1>9. state.exit \in {SVM_EXIT_NPF, SVM_EXIT_EXCP_BASE + DB_VECTOR,
                      SVM_EXIT_HLT, SVM_EXIT_IOIO}
        \/ /\ Fetch.op \in {"vmrun", "triple"}
           /\ vcpu.rip \in DOMAIN image.code
  <2>1. \/ state.exit = SVM_EXIT_NPF
        \/ state.exit = SVM_EXIT_EXCP_BASE + DB_VECTOR
        \/ state.exit = SVM_EXIT_IOIO
        \/ state.exit = SVM_EXIT_HLT
        \/ Fetch.op \in {"vmrun", "triple"}
    BY Zenon DEF ExitOK
  <2>2. Fetch.op \in {"vmrun", "triple"} => vcpu.rip \in DOMAIN image.code
    BY FetchFacts
  <2> QED
    BY <2>1, <2>2, Zenon
<1> QED
  BY <1>1, <1>2, <1>3, <1>6, <1>7, <1>8, <1>9

(* The functions that take EXITINFO1 apart, for the three values it has.    *)
LEMMA IoFacts ==
  ASSUME state.info1 \in {16, 17, 33}
  PROVE  /\ ValidIo <=> state.info1 # 33
         /\ svm_ioio_type(state.info1) = SVM_IOIO_TYPE_IN <=> state.info1 # 16
<1>1. /\ (17 \div 16) % 2 = 1 /\ (16 \div 16) % 2 = 1 /\ (33 \div 16) % 2 = 0
      /\ (17 \div 65536) % 65536 = 0 /\ (16 \div 65536) % 65536 = 0
      /\ 17 % 2 = 1 /\ 16 % 2 = 0 /\ 33 % 2 = 1
  BY SMT
<1> QED
  BY <1>1, Powers, SMT DEF ValidIo, svm_ioio_is_size8, svm_ioio_port,
     svm_ioio_type, SVM_IOIO_TYPE_IN, YAKVM_PIO_HAWK

(* A handler that fails an assertion is not that of a supported guest.      *)
LEMMA AbortStep ==
  ASSUME IInv, Abort("handle"), faults' \in {faults, faults \union {"oom"}},
         UNCHANGED <<emulatorVars, guestVars, contractVars>>,
         Supported(image) => "oom" \in faults'
  PROVE  IInv'
  BY DEF IInv, TypeOK, ShapeOK, OpenOK, StatusOK, VmcbOK,
     RegsOK, ExitOK, GuestOK, Loop, BeforeVcpu, Steps, Ended, Failed,
     Abort, Goto, emulatorVars, guestVars, contractVars

(* A handler that does without the registers.                               *)
LEMMA ResumeStep ==
  ASSUME IInv, Goto("handle", "run"),
         NEW page \in Nat \ {0}, page % PAGE_SIZE = 0,
         mapped' = mapped \union {page},
         UNCHANGED <<procVars, emulatorVars, image, vcpu, vmcb, state,
                     contractVars>>
  PROVE  IInv'
  BY DEF IInv, TypeOK, ShapeOK, OpenOK, StatusOK, VmcbOK,
     RegsOK, ExitOK, GuestOK, Loop, BeforeVcpu, Steps, Failed,
     Goto, procVars, emulatorVars, contractVars

(* A handler that leaves registers to be set: the guest goes on behind the  *)
(* instruction.                                                             *)
LEMMA EmulateStep ==
  ASSUME IInv, Goto("handle", "set_regs"),
         vcpu.rip \in DOMAIN image.code, Fetch.op # "hlt",
         NEW rax \in 0 .. U16 - 1,
         regs' = [rax |-> rax, rip |-> vcpu.rip + Fetch.len],
         pio' \in 0 .. U8 - 1, mmio' \in 0 .. U8 - 1,
         UNCHANGED <<procVars, mode, image, mapped, vcpu, vmcb, state,
                     contractVars>>
  PROVE  IInv'
<1>1. /\ Fetch = image.code[vcpu.rip]
      /\ vcpu.rip + Fetch.len \in Nat /\ vcpu.rip + Fetch.len < U16
  BY FetchFacts, SMT DEF IInv, TypeOK
<1>2. U16 \in Nat
  BY Widths
<1>3. Supported(image) => vcpu.rip + Fetch.len \in DOMAIN image.code
  BY <1>1, SupportedFacts, ConstantsAssumption DEF IInv, ShapeOK
<1>4. /\ regs'.rax = rax /\ regs'.rip = vcpu.rip + Fetch.len
      /\ regs' = [rax |-> regs'.rax, rip |-> regs'.rip]
      /\ regs'.rax \in 0 .. U16 - 1 /\ regs'.rip \in 0 .. U16 - 1
      /\ regs'.rip \in -1 .. U16 - 1
  BY <1>1, <1>2
<1> HIDE DEF Fetch
<1> QED
  BY <1>3, <1>4 DEF IInv, TypeOK, ShapeOK, OpenOK, StatusOK, VmcbOK,
     RegsOK, ExitOK, GuestOK, Loop, BeforeVcpu, Steps, Failed,
     Goto, procVars, contractVars

(* What is cut to a byte is a byte, and what a device answers fits in rax.  *)
LEMMA ByteFacts ==
  /\ \A x \in 0 .. U16 - 1 : x % U8 \in 0 .. U8 - 1
  /\ pio \in 0 .. U8 - 1 => yakvm_device_pio_get \in 0 .. U16 - 1
  /\ mmio \in 0 .. U8 - 1 => yakvm_device_mmio_get \in 0 .. U16 - 1
<1>1. \A x \in Int : x % U8 \in 0 .. U8 - 1
  BY Widths, Remainder
<1>2. \A x \in 0 .. U16 - 1 : x % U8 \in 0 .. U8 - 1
  BY <1>1
<1>3. ASSUME pio \in 0 .. U8 - 1
      PROVE  yakvm_device_pio_get \in 0 .. U16 - 1
  <2>1. pio + 1 \in Int
    BY <1>3
  <2>2. yakvm_device_pio_get \in 0 .. U8 - 1
    BY <1>1, <2>1 DEF yakvm_device_pio_get
  <2> QED BY <2>2, Widths
<1>4. ASSUME mmio \in 0 .. U8 - 1
      PROVE  yakvm_device_mmio_get \in 0 .. U16 - 1
  <2>1. mmio - 1 \in Int
    BY <1>4
  <2>2. yakvm_device_mmio_get \in 0 .. U8 - 1
    BY <1>1, <2>1 DEF yakvm_device_mmio_get
  <2> QED BY <2>2, Widths
<1> QED
  BY <1>2, <1>3, <1>4

(* Handling an exit.                                                        *)
LEMMA HandleStep ==
  ASSUME IInv,
         \/ yakvm_vcpu_handle_mmio \/ handle_mmio_abort
         \/ yakvm_cpu_handle_npf \/ handle_npf_abort
         \/ handle_db \/ handle_hlt \/ yakvm_cpu_handle_ioio \/ handle_abort
  PROVE  IInv'
<1> USE DEF IInv
<1>1. pc = "handle"
  BY DEF yakvm_vcpu_handle_mmio, handle_mmio_abort, yakvm_cpu_handle_npf,
     handle_npf_abort, handle_db, handle_hlt, yakvm_cpu_handle_ioio,
     handle_abort, Handle, HandleAborts, Abort, Goto
<1>2. /\ vcpu.rax \in 0 .. U16 - 1 /\ vcpu.rip \in 0 .. U16 - 1
      /\ pio \in 0 .. U8 - 1 /\ mmio \in 0 .. U8 - 1
  BY DEF TypeOK
<1>3. CASE yakvm_vcpu_handle_mmio
  <2>1. /\ Opcode \in {"mmio_in", "mmio_out"}
        /\ Goto("handle", "set_regs")
        /\ UNCHANGED <<procVars, mode, pio, image, mapped, vcpu, vmcb, state,
                       contractVars>>
    BY <1>3 DEF yakvm_vcpu_handle_mmio, Handle
  <2>2. /\ vcpu.rip \in DOMAIN image.code /\ Fetch.op # "hlt" /\ Fetch.len = 3
    BY <1>1, <2>1, HandleFacts, FetchFacts
  <2>3. CASE Opcode = "mmio_out"
    <3>1. /\ mmio' = vcpu.rax % U8
          /\ regs' = [rax |-> vcpu.rax, rip |-> vcpu.rip + 3]
      BY <1>3, <2>3 DEF yakvm_vcpu_handle_mmio, yakvm_device_mmio_set
    <3>2. mmio' \in 0 .. U8 - 1 /\ pio' \in 0 .. U8 - 1
      BY <1>2, <2>1, <3>1, ByteFacts
    <3>3. regs' = [rax |-> vcpu.rax, rip |-> vcpu.rip + Fetch.len]
      BY <2>2, <3>1
    <3> QED
      BY <1>2, <2>1, <2>2, <3>2, <3>3, EmulateStep, SMT
  <2>4. CASE Opcode = "mmio_in"
    <3>1. /\ regs' = [rax |-> yakvm_device_mmio_get, rip |-> vcpu.rip + 3]
          /\ mmio' = mmio
      BY <1>3, <2>4 DEF yakvm_vcpu_handle_mmio
    <3>2. /\ yakvm_device_mmio_get \in 0 .. U16 - 1
          /\ mmio' \in 0 .. U8 - 1 /\ pio' \in 0 .. U8 - 1
      BY <1>2, <2>1, <3>1, ByteFacts
    <3>3. regs' = [rax |-> yakvm_device_mmio_get, rip |-> vcpu.rip + Fetch.len]
      BY <2>2, <3>1
    <3> QED
      BY <2>1, <2>2, <3>2, <3>3, EmulateStep, SMT
  <2> QED
    BY <2>1, <2>3, <2>4
<1>4. CASE handle_mmio_abort
  <2>1. /\ state.exit = SVM_EXIT_NPF /\ state.info2 = 0
        /\ Opcode \notin {"mmio_in", "mmio_out"}
        /\ Abort("handle") /\ faults' = faults
        /\ UNCHANGED <<emulatorVars, guestVars, contractVars>>
    BY <1>4 DEF handle_mmio_abort, HandleAborts, YAKVM_MMIO_HAWK
  <2>2. 0 \in Operand
    BY <1>1, <2>1, HandleFacts DEF PAGE_SIZE
  <2>3. ~(Fetch.op \in {"mmio_in", "mmio_out"})
    BY <1>1, <2>1, HandleFacts, FetchFacts
  <2>4. Fetch.op = "touch" /\ Fetch.val = 0
    BY <2>2, <2>3 DEF Operand
  <2>5. Supported(image) => vcpu.rip \notin DOMAIN image.code
    BY <2>4, FetchFacts, SupportedFacts, ConstantsAssumption
    DEF ShapeOK, PAGE_SIZE
  <2>6. Supported(image) => "oom" \in faults'
    BY <1>1, <2>1, <2>5 DEF GuestOK
  <2> QED
    BY <2>1, <2>6, AbortStep
<1>5. CASE yakvm_cpu_handle_npf
  <2> DEFINE page == yakvm_page(state.info2)
  <2>1. /\ state.exit = SVM_EXIT_NPF /\ state.info2 # 0
        /\ UNCHANGED <<procVars, emulatorVars, image, vcpu, vmcb, state,
                       contractVars>>
    BY <1>5 DEF yakvm_cpu_handle_npf, Handle, YAKVM_MMIO_HAWK
  <2>2. state.info2 \in Nat
    BY <1>1, <2>1, HandleFacts
  <2>3. yakvm_page(YAKVM_MMIO_HAWK) = 0
    BY PageFacts DEF YAKVM_MMIO_HAWK, PAGE_SIZE
  <2>4. /\ page \in Nat /\ page % PAGE_SIZE = 0
        /\ page = 0 <=> state.info2 < PAGE_SIZE
    BY <2>2, PageFacts
  <2>5. CASE page # 0
    <3>1. Goto("handle", "run") /\ mapped' = mapped \union {page}
      BY <1>5, <2>3, <2>5 DEF yakvm_cpu_handle_npf, Handle
    <3> HIDE DEF page
    <3> QED
      BY <2>1, <2>4, <2>5, <3>1, ResumeStep
  <2>6. CASE page = 0
    <3>1. Goto("handle", "panicked") /\ mapped' = mapped
      BY <1>5, <2>3, <2>6 DEF yakvm_cpu_handle_npf, Handle
    <3>2. state.info2 \in Operand /\ state.info2 < PAGE_SIZE
      BY <1>1, <2>1, <2>4, <2>6, HandleFacts
    <3>3. Fetch.op = "touch" /\ Fetch.val = state.info2
      BY <2>1, <3>2 DEF Operand, YAKVM_MMIO_HAWK
    <3>4. Supported(image) => vcpu.rip \notin DOMAIN image.code
      BY <2>2, <3>2, <3>3, FetchFacts, SupportedFacts, ConstantsAssumption
      DEF ShapeOK, PAGE_SIZE
    <3>5. Supported(image) => "oom" \in faults
      BY <1>1, <3>4 DEF GuestOK
    <3> QED
      BY <2>1, <3>1, <3>5 DEF TypeOK, ShapeOK, OpenOK, StatusOK, VmcbOK,
         RegsOK, ExitOK, GuestOK, Loop, BeforeVcpu, Steps, Ended, Failed,
         Goto, procVars, emulatorVars, contractVars
  <2> QED
    BY <2>5, <2>6
<1>6. CASE handle_npf_abort
  <2>1. /\ Abort("handle") /\ faults' = faults \union {"oom"}
        /\ UNCHANGED <<emulatorVars, guestVars, contractVars>>
    BY <1>6 DEF handle_npf_abort, HandleAborts, OutOfMemory
  <2> QED
    BY <2>1, AbortStep
<1>7. CASE handle_db
  <2> DEFINE page == yakvm_page(YAKVM_ENTRY + state.rip)
  <2>1. /\ Goto("handle", "run") /\ mapped' = mapped \union {page}
        /\ UNCHANGED <<procVars, emulatorVars, image, vcpu, vmcb, state,
                       contractVars>>
    BY <1>7 DEF handle_db, Handle
  <2>2. /\ YAKVM_ENTRY + state.rip \in Nat
        /\ ~(YAKVM_ENTRY + state.rip < PAGE_SIZE)
    <3>1. state.rip \in Nat
      BY <1>1, <1>2, HandleFacts, SMT
    <3> QED
      BY <3>1, SMT DEF YAKVM_ENTRY, PAGE_SIZE
  <2>3. page \in Nat \ {0} /\ page % PAGE_SIZE = 0
    BY <2>2, PageFacts
  <2> HIDE DEF page
  <2> QED
    BY <2>1, <2>3, ResumeStep
<1>8. CASE handle_hlt
  BY <1>8 DEF handle_hlt, Handle, Goto, TypeOK, ShapeOK, OpenOK, StatusOK,
     VmcbOK, RegsOK, ExitOK, GuestOK, Loop, BeforeVcpu, Steps, Failed,
     procVars, contractVars
<1>9. CASE yakvm_cpu_handle_ioio
  <2>1. /\ state.exit = SVM_EXIT_IOIO /\ Goto("handle", "set_regs") /\ ValidIo
        /\ UNCHANGED <<procVars, mode, mmio, image, mapped, vcpu, vmcb, state,
                       contractVars>>
    BY <1>9 DEF yakvm_cpu_handle_ioio, Handle
  <2>2. /\ state.info2 = vcpu.rip + Fetch.len
        /\ vcpu.rip \in DOMAIN image.code /\ Fetch.op # "hlt"
    BY <1>1, <2>1, HandleFacts
  <2>3. CASE svm_ioio_type(state.info1) = SVM_IOIO_TYPE_IN
    <3>1. /\ regs' = [rax |-> yakvm_device_pio_get, rip |-> state.info2]
          /\ pio' = pio
      BY <1>9, <2>3 DEF yakvm_cpu_handle_ioio
    <3>2. /\ yakvm_device_pio_get \in 0 .. U16 - 1
          /\ mmio' \in 0 .. U8 - 1 /\ pio' \in 0 .. U8 - 1
      BY <1>2, <2>1, <3>1, ByteFacts
    <3>3. regs' = [rax |-> yakvm_device_pio_get, rip |-> vcpu.rip + Fetch.len]
      BY <2>2, <3>1
    <3> QED
      BY <2>1, <2>2, <3>2, <3>3, EmulateStep, SMT
  <2>4. CASE svm_ioio_type(state.info1) # SVM_IOIO_TYPE_IN
    <3>1. /\ regs' = [rax |-> vcpu.rax, rip |-> state.info2]
          /\ pio' = vcpu.rax % U8
      BY <1>9, <2>4 DEF yakvm_cpu_handle_ioio, yakvm_device_pio_set
    <3>2. mmio' \in 0 .. U8 - 1 /\ pio' \in 0 .. U8 - 1
      BY <1>2, <2>1, <3>1, ByteFacts
    <3>3. regs' = [rax |-> vcpu.rax, rip |-> vcpu.rip + Fetch.len]
      BY <2>2, <3>1
    <3> QED
      BY <1>2, <2>1, <2>2, <3>2, <3>3, EmulateStep, SMT
  <2> QED
    BY <2>3, <2>4
<1>10. CASE handle_abort
  <2>1. /\ Abort("handle") /\ faults' = faults
        /\ UNCHANGED <<emulatorVars, guestVars, contractVars>>
        /\ \/ state.exit = SVM_EXIT_IOIO /\ ~ValidIo
           \/ state.exit \notin {SVM_EXIT_NPF, SVM_EXIT_EXCP_BASE + DB_VECTOR,
                                 SVM_EXIT_HLT, SVM_EXIT_IOIO}
    BY <1>10 DEF handle_abort, HandleAborts
  <2>2. /\ vcpu.rip \in DOMAIN image.code
        /\ Fetch.op \in {"in16", "vmrun", "triple"}
    <3>1. CASE state.exit = SVM_EXIT_IOIO /\ ~ValidIo
      BY <1>1, <3>1, HandleFacts, IoFacts
    <3>2. CASE state.exit \notin {SVM_EXIT_NPF, SVM_EXIT_EXCP_BASE + DB_VECTOR,
                                  SVM_EXIT_HLT, SVM_EXIT_IOIO}
      BY <1>1, <3>2, HandleFacts
    <3> QED
      BY <2>1, <3>1, <3>2
  <2>3. ~Supported(image)
    BY <2>2, FetchFacts, SupportedFacts, ConstantsAssumption DEF ShapeOK
  <2> QED
    BY <2>1, <2>3, AbortStep
<1> QED
  BY <1>3, <1>4, <1>5, <1>6, <1>7, <1>8, <1>9, <1>10

(* YAKVM_SET_REGS at the end of a handler.                                  *)
LEMMA SetRegsStep == IInv /\ set_regs => IInv'
<1>1. NoRegs.rax = 0 /\ NoRegs.rip = -1 /\ U16 \in Nat /\ U16 > 0
  BY Powers, SMT DEF NoRegs
<1> QED
  BY <1>1 DEF set_regs, Goto, IInv, TypeOK, ShapeOK, OpenOK, StatusOK, VmcbOK,
     RegsOK, ExitOK, GuestOK, Loop, BeforeVcpu, Steps, Failed, procVars,
     contractVars

-----------------------------------------------------------------------------
(* The invariant holds at the start, and every step keeps it.               *)
LEMMA InitIInv == Init => IInv
<1>1. U8 \in Nat /\ U16 \in Nat /\ U8 > 0 /\ U16 > 0
  BY Powers, SMT
<1>2. \A i \in Images : i.size \in Nat
  BY ConstantsAssumption
<1> QED
  BY <1>1, <1>2 DEF Init, Vm!Init, NoRegs, IInv, TypeOK, ShapeOK, OpenOK,
     StatusOK, VmcbOK, RegsOK, ExitOK, GuestOK, Loop, BeforeVcpu, Steps, Failed

(* Every step of the process and of the kernel keeps the invariant.         *)
LEMMA NextIInv == IInv /\ [Next]_vars => IInv'
<1>1. IInv /\ UNCHANGED vars => IInv'
  <2>1. UNCHANGED vars =>
          Fetch' = Fetch /\ Operand' = Operand /\ NextRip' = NextRip
    BY DEF vars, Fetch, Operand, NextRip, guestVars
  <2> QED
    BY <2>1 DEF vars, procVars, emulatorVars, guestVars, contractVars, IInv,
       TypeOK, ShapeOK, OpenOK, StatusOK, VmcbOK, RegsOK, ExitOK, GuestOK
<1>2. IInv /\ yakvm_cpu_run => IInv'
  BY RunStep, ShutdownStep, HandleStep, SetRegsStep, Zenon DEF yakvm_cpu_run
<1> QED
  BY <1>1, <1>2, SetUpStep, TakeDownStep, KillStep, ReleaseStep, Zenon
  DEF Next, main

(* The inductive invariant.                                                 *)
THEOREM Invariance == Spec => []IInv
  BY InitIInv, NextIInv, PTL DEF Spec

(* Every variable keeps its type: the registers of the guest stay within    *)
(* 16 bits and those of the devices within 8, and the page of the mmio      *)
(* device is never entered in the nested page table.                        *)
THEOREM TypeCorrectness == Spec => []TypeOK
<1>1. IInv => TypeOK
  BY DEF IInv
<1> QED
  BY <1>1, Invariance, PTL

(* Whichever step of main() fails, it returns with nothing left open.       *)
THEOREM NothingLeftOpenTheorem == Spec => []NothingLeftOpen
<1>1. IInv => NothingLeftOpen
  BY DEF IInv, TypeOK, OpenOK, NothingLeftOpen, Steps, Loop
<1> QED
  BY <1>1, Invariance, PTL

(* main() returns zero exactly when the guest ran until it halted.          *)
THEOREM ExitStatusTheorem == Spec => []ExitStatus
<1>1. IInv => ExitStatus
  BY DEF IInv, StatusOK, ExitStatus
<1> QED
  BY <1>1, Invariance, PTL

(* No assertion fails for a guest of the supported kind, whatever its size  *)
(* and its instructions, nor does it shut the processor down, unless memory *)
(* runs out.                                                                *)
THEOREM SupportedGuestsTheorem == Spec => []SupportedGuestsRun
<1>1. IInv => SupportedGuestsRun
  BY DEF IInv, GuestOK, SupportedGuestsRun
<1> QED
  BY <1>1, Invariance, PTL

-----------------------------------------------------------------------------
(* The emulator implements the machine.                                     *)

(* The registers of the machine: those of the vcpu, or those a handler is   *)
(* about to set.                                                            *)
Al == (IF regs # NoRegs THEN regs.rax ELSE vcpu.rax) % U8
Rip == IF mode = "unset" THEN 0
       ELSE IF regs # NoRegs THEN regs.rip ELSE vcpu.rip

machine == <<image.code, Al, Rip, pio, mmio, mode = "HLT">>

(* The variables of the machine are functions of Al and Rip.                *)
LEMMA MachineVars ==
  ASSUME UNCHANGED machine
  PROVE  UNCHANGED Machine!machineVars
  BY DEF Machine!machineVars, machine, Al, Rip

(* A byte is a byte in both, and NoRegs is told by its rip.                 *)
LEMMA MachineNumbers ==
  /\ U8 = Machine!U8
  /\ \A x \in Int : (x % U8) % U8 = x % U8
  /\ NoRegs.rip = -1
<1>1. U8 = 256
  BY Powers
<1>2. \A x \in Int : (x % 256) % 256 = x % 256
  BY SMT
<1> QED
  BY <1>1, <1>2, SMT DEF Machine!U8, NoRegs

(* A step that leaves the vcpu and the devices alone is a stutter.          *)
LEMMA Quiet ==
  ASSUME UNCHANGED <<mode, pio, mmio, regs, image, vcpu>>
  PROVE  UNCHANGED machine
  BY DEF machine, Al, Rip

(* main() outside of the loop: only the creation of the vcpu and the first  *)
(* YAKVM_SET_REGS touch the registers, and the machine has not started.     *)
LEMMA SetUpMachine ==
  ASSUME IInv, SetUp
  PROVE  UNCHANGED machine
<1>1. CASE create_vcpu
  <2>1. /\ UNCHANGED <<emulatorVars, image>>
        /\ vcpu' = vcpu \/ vcpu' = [vcpu EXCEPT !.rip = ResetRip]
        /\ pc = "create_vcpu"
    BY <1>1 DEF create_vcpu, Goto, Abort
  <2>2. mode = "unset" /\ vcpu'.rax = vcpu.rax
    BY <2>1 DEF IInv, StatusOK, ShapeOK, BeforeVcpu
  <2> QED
    BY <2>1, <2>2 DEF machine, Al, Rip, emulatorVars
<1>2. CASE init_regs
  <2>1. /\ UNCHANGED <<pio, mmio, regs, image>>
        /\ vcpu' = [vcpu EXCEPT !.rip = 0] /\ mode' = "RUNNING"
        /\ pc = "init_regs"
    BY <1>2 DEF init_regs, Goto
  <2>2. /\ mode = "unset" /\ regs = NoRegs
        /\ vcpu'.rax = vcpu.rax /\ vcpu'.rip = 0
    BY <2>1 DEF IInv, StatusOK, ShapeOK, RegsOK, Steps
  <2> QED
    BY <2>1, <2>2 DEF machine, Al, Rip
<1>3. CASE \/ open \/ create_vm \/ mmap_memory \/ open_bin \/ fstat \/ read
           \/ close_bin \/ munmap_memory \/ create_again \/ mmap_state
           \/ close_cpufd
  <2>1. UNCHANGED <<emulatorVars, image, vcpu>>
    BY <1>3 DEF open, create_vm, mmap_memory, open_bin, fstat, read, close_bin,
       munmap_memory, create_again, mmap_state, close_cpufd, guestVars
  <2> QED
    BY <2>1, Quiet DEF emulatorVars
<1> QED
  BY <1>1, <1>2, <1>3 DEF SetUp

(* The way down, a kill and a release do not show in the machine.           *)
LEMMA OtherMachine ==
  ASSUME TakeDown \/ kill \/ release \/ UNCHANGED vars
  PROVE  UNCHANGED machine
<1>1. UNCHANGED <<emulatorVars, image, vcpu>>
  BY DEF TakeDown, yakvm_destroy_cpu, yakvm_destroy_memory, close_vmfd,
     close_yakvmfd, exit, kill, release, vars, guestVars
<1> QED
  BY <1>1, Quiet DEF emulatorVars

(* In the loop, before a handler has left registers to be set, the machine  *)
(* is about to execute the instruction the vcpu is at.                      *)
LEMMA AtInstruction ==
  ASSUME IInv, pc \in {"run", "handle"}, vcpu.rip \in DOMAIN image.code
  PROVE  /\ mode = "RUNNING" /\ regs = NoRegs
         /\ Al = vcpu.rax % U8 /\ Rip = vcpu.rip
         /\ Rip \in DOMAIN image.code /\ image.code[Rip] = Fetch
  BY FetchFacts DEF IInv, StatusOK, RegsOK, Al, Rip, Loop, Steps

(* An instruction that completes, and is followed by #DB.                   *)
LEMMA DbMachine ==
  ASSUME IInv, exit_db
  PROVE  Machine!Mov \/ Machine!Touch \/ Machine!Jne
<1>1. Exit(SVM_EXIT_EXCP_BASE + DB_VECTOR, 0, 0)
      /\ Executes({"mov", "touch", "jne"})
  BY DEF exit_db
<1>2. /\ pc = "run" /\ vcpu.rip \in DOMAIN image.code
      /\ Fetch.op \in {"mov", "touch", "jne"}
      /\ UNCHANGED <<emulatorVars, image>>
  BY <1>1, ExitFacts, ExecutesFacts DEF Loop, IInv
<1>3. /\ mode = "RUNNING" /\ mode' = mode /\ mode # "HLT" /\ mode # "unset"
      /\ regs = NoRegs /\ regs' = NoRegs
      /\ Al = vcpu.rax % U8 /\ Rip = vcpu.rip
      /\ Rip \in DOMAIN image.code /\ image.code[Rip] = Fetch
      /\ UNCHANGED <<image.code, pio, mmio>>
  BY <1>2, AtInstruction DEF emulatorVars
<1>4. /\ Al' = (IF Fetch.op = "mov" THEN Fetch.val ELSE vcpu.rax) % U8
      /\ Rip' = IF Fetch.op = "jne" /\ Al # Fetch.val
                THEN vcpu.rip - Fetch.back ELSE vcpu.rip + Fetch.len
  BY <1>3 DEF exit_db, NextRip, Al, Rip
<1>5. U8 = Machine!U8
  BY MachineNumbers
<1>6. CASE Fetch.op = "mov"
  BY <1>3, <1>4, <1>5, <1>6, Zenon
  DEF Machine!Mov, Machine!Execute, Machine!Advance, Al, Rip
<1>7. CASE Fetch.op = "touch"
  BY <1>3, <1>4, <1>5, <1>7, Zenon
  DEF Machine!Touch, Machine!Execute, Machine!Advance, Al, Rip
<1>8. CASE Fetch.op = "jne"
  BY <1>3, <1>4, <1>5, <1>8, Zenon
  DEF Machine!Jne, Machine!Execute, Machine!Advance, Al, Rip
<1> QED
  BY <1>2, <1>6, <1>7, <1>8

(* An exit whose handler emulates the instruction.                          *)
LEMMA MmioMachine ==
  ASSUME IInv, yakvm_vcpu_handle_mmio
  PROVE  Machine!MmioOut \/ Machine!MmioIn
<1>1. /\ pc = "handle" /\ Opcode \in {"mmio_in", "mmio_out"}
      /\ UNCHANGED <<mode, pio, image, vcpu>>
  BY DEF yakvm_vcpu_handle_mmio, Handle, Goto
<1>2. vcpu.rip \in DOMAIN image.code /\ Opcode = Fetch.op /\ Fetch.len = 3
  BY <1>1, HandleFacts, FetchFacts DEF IInv
<1>3. /\ mode = "RUNNING" /\ mode' = mode /\ mode # "HLT" /\ mode # "unset"
      /\ Al = vcpu.rax % U8 /\ Rip = vcpu.rip
      /\ Rip \in DOMAIN image.code /\ image.code[Rip] = Fetch
      /\ UNCHANGED <<image.code, pio>>
  BY <1>1, <1>2, AtInstruction
<1>4. U8 = Machine!U8 /\ NoRegs.rip = -1 /\ vcpu.rip \in Nat
  BY MachineNumbers, SMT DEF IInv, TypeOK
<1>5. CASE Opcode = "mmio_out"
  <2>1. /\ mmio' = vcpu.rax % U8
        /\ regs' = [rax |-> vcpu.rax, rip |-> vcpu.rip + 3]
    BY <1>5 DEF yakvm_vcpu_handle_mmio, yakvm_device_mmio_set
  <2>2. regs'.rax = vcpu.rax /\ regs'.rip = vcpu.rip + 3 /\ regs' # NoRegs
    BY <1>4, <2>1
  <2>3. Al' = Al /\ Rip' = Rip + image.code[Rip].len /\ mmio' = Al
    BY <1>2, <1>3, <2>1, <2>2 DEF Al, Rip
  <2> QED
    BY <1>2, <1>3, <1>5, <2>3, Zenon
    DEF Machine!MmioOut, Machine!Execute, Machine!Advance, Al, Rip
<1>6. CASE Opcode = "mmio_in"
  <2>1. /\ regs' = [rax |-> (mmio - 1) % U8, rip |-> vcpu.rip + 3]
        /\ mmio' = mmio
    BY <1>6 DEF yakvm_vcpu_handle_mmio, yakvm_device_mmio_get
  <2>2. /\ regs'.rax = (mmio - 1) % U8 /\ regs'.rip = vcpu.rip + 3
        /\ regs' # NoRegs
    BY <1>4, <2>1
  <2>3. ((mmio - 1) % U8) % U8 = (mmio - 1) % U8
    BY MachineNumbers, SMT DEF IInv, TypeOK
  <2>4. Al' = (mmio - 1) % U8 /\ Rip' = Rip + image.code[Rip].len
    BY <1>2, <1>3, <2>1, <2>2, <2>3 DEF Al, Rip
  <2> QED
    BY <1>2, <1>3, <1>4, <1>6, <2>1, <2>4, Zenon
    DEF Machine!MmioIn, Machine!Execute, Machine!Advance, Al, Rip
<1> QED
  BY <1>1, <1>5, <1>6

(* An access to the port: its handler is the step of the machine.           *)
LEMMA IoMachine ==
  ASSUME IInv, yakvm_cpu_handle_ioio
  PROVE  Machine!Out \/ Machine!In
<1>1. /\ pc = "handle" /\ state.exit = SVM_EXIT_IOIO /\ ValidIo
      /\ UNCHANGED <<mode, mmio, image, vcpu>>
  BY DEF yakvm_cpu_handle_ioio, Handle, Goto
<1>2. /\ vcpu.rip \in DOMAIN image.code /\ state.info2 = vcpu.rip + Fetch.len
      /\ \/ Fetch.op = "in" /\ state.info1 = 17
         \/ Fetch.op = "out" /\ state.info1 = 16
  BY <1>1, HandleFacts, IoFacts
<1>3. /\ mode = "RUNNING" /\ mode' = mode /\ mode # "HLT" /\ mode # "unset"
      /\ Al = vcpu.rax % U8 /\ Rip = vcpu.rip
      /\ Rip \in DOMAIN image.code /\ image.code[Rip] = Fetch
      /\ UNCHANGED <<image.code, mmio>>
  BY <1>1, <1>2, AtInstruction
<1>4. U8 = Machine!U8 /\ NoRegs.rip = -1 /\ vcpu.rip + Fetch.len \in Nat
  BY <1>2, MachineNumbers, FetchFacts, SMT DEF IInv, TypeOK
<1>5. CASE Fetch.op = "out"
  <2>1. /\ pio' = vcpu.rax % U8
        /\ regs' = [rax |-> vcpu.rax, rip |-> vcpu.rip + Fetch.len]
    BY <1>2, <1>5, IoFacts DEF yakvm_cpu_handle_ioio, yakvm_device_pio_set
  <2>2. /\ regs'.rax = vcpu.rax /\ regs'.rip = vcpu.rip + Fetch.len
        /\ regs' # NoRegs
    BY <1>4, <2>1
  <2>3. Al' = Al /\ Rip' = Rip + image.code[Rip].len /\ pio' = Al
    BY <1>1, <1>3, <2>1, <2>2 DEF Al, Rip
  <2> QED
    BY <1>3, <1>5, <2>3, Zenon
    DEF Machine!Out, Machine!Execute, Machine!Advance, Al, Rip
<1>6. CASE Fetch.op = "in"
  <2>1. /\ regs' = [rax |-> (pio + 1) % U8, rip |-> vcpu.rip + Fetch.len]
        /\ pio' = pio
    BY <1>2, <1>6, IoFacts DEF yakvm_cpu_handle_ioio, yakvm_device_pio_get
  <2>2. /\ regs'.rax = (pio + 1) % U8 /\ regs'.rip = vcpu.rip + Fetch.len
        /\ regs' # NoRegs
    BY <1>4, <2>1
  <2>3. ((pio + 1) % U8) % U8 = (pio + 1) % U8
    BY MachineNumbers, SMT DEF IInv, TypeOK
  <2>4. Al' = (pio + 1) % U8 /\ Rip' = Rip + image.code[Rip].len
    BY <1>1, <1>3, <2>1, <2>2, <2>3 DEF Al, Rip
  <2> QED
    BY <1>3, <1>4, <1>6, <2>1, <2>4, Zenon
    DEF Machine!In, Machine!Execute, Machine!Advance, Al, Rip
<1> QED
  BY <1>2, <1>5, <1>6

(* The machine halts when the handler notes it.                             *)
LEMMA HltMachine ==
  ASSUME IInv, handle_hlt
  PROVE  Machine!Hlt
<1>1. /\ pc = "handle" /\ state.exit = SVM_EXIT_HLT /\ mode' = "HLT"
      /\ UNCHANGED <<pio, mmio, regs, image, vcpu>>
  BY DEF handle_hlt, Handle, Goto
<1>2. vcpu.rip \in DOMAIN image.code /\ Fetch.op = "hlt"
  BY <1>1, HandleFacts
<1>3. /\ mode = "RUNNING" /\ mode # "HLT" /\ mode # "unset" /\ mode' # "unset"
      /\ Rip \in DOMAIN image.code /\ image.code[Rip] = Fetch
      /\ UNCHANGED image.code
  BY <1>1, <1>2, AtInstruction
<1>4. Al' = Al /\ Rip' = Rip
  BY <1>1, <1>3 DEF Al, Rip
<1> QED
  BY <1>1, <1>2, <1>3, <1>4, Zenon DEF Machine!Hlt, Machine!Execute, Al, Rip

(* The other steps of the loop: an exit before the instruction has taken    *)
(* effect, a shutdown, a page that is added, and YAKVM_SET_REGS.            *)
LEMMA LoopMachine ==
  ASSUME IInv, yakvm_cpu_run
  PROVE  Machine!Next \/ UNCHANGED machine
<1>1. CASE exit_npf \/ exit_ioio \/ exit_hlt \/ exit_other \/ shutdown
  <2>1. UNCHANGED <<emulatorVars, image, vcpu>>
    BY <1>1 DEF exit_npf, exit_ioio, exit_hlt, exit_other, shutdown, Exit,
       guestVars
  <2> QED
    BY <2>1, Quiet DEF emulatorVars
<1>2. CASE \/ handle_mmio_abort \/ yakvm_cpu_handle_npf \/ handle_npf_abort
           \/ handle_db \/ handle_abort
  <2>1. UNCHANGED <<emulatorVars, image, vcpu>>
    BY <1>2 DEF handle_mmio_abort, yakvm_cpu_handle_npf, handle_npf_abort,
       handle_db, handle_abort, Handle, HandleAborts, guestVars
  <2> QED
    BY <2>1, Quiet DEF emulatorVars
<1>3. CASE set_regs
  <2>1. /\ pc = "set_regs" /\ vcpu' = regs /\ regs' = NoRegs
        /\ UNCHANGED <<mode, pio, mmio, image>>
    BY <1>3 DEF set_regs, Goto
  <2>2. regs # NoRegs
    <3>1. NoRegs.rip = -1 /\ regs.rip >= 0
      BY <2>1 DEF NoRegs, IInv, RegsOK
    <3> QED
      BY <3>1
  <2> QED
    BY <2>1, <2>2 DEF machine, Al, Rip
<1>4. CASE exit_db
  BY <1>4, DbMachine DEF Machine!Next
<1>5. CASE yakvm_vcpu_handle_mmio
  BY <1>5, MmioMachine DEF Machine!Next
<1>6. CASE yakvm_cpu_handle_ioio
  BY <1>6, IoMachine DEF Machine!Next
<1>7. CASE handle_hlt
  BY <1>7, HltMachine DEF Machine!Next
<1> QED
  BY <1>1, <1>2, <1>3, <1>4, <1>5, <1>6, <1>7 DEF yakvm_cpu_run

(* The exits, handlers and ioctls of the emulator add up to GuestMachine:   *)
(* every instruction of every guest takes effect once and in order, and an  *)
(* exit, a failure or the end of the process at any point does not show.    *)
THEOREM MachineTheorem == Spec => ImplementsMachine
<1>1. Init => Machine!Init
  <2>1. 0 % U8 = 0
    BY Powers, SMT
  <2> QED
    BY <2>1, SMT DEF Init, Machine!Init, NoRegs
<1>2. IInv /\ [Next]_vars => [Machine!Next]_(Machine!machineVars)
  BY SetUpMachine, LoopMachine, OtherMachine, MachineVars, Zenon DEF Next, main
<1> QED
  BY <1>1, <1>2, Invariance, PTL DEF Spec, ImplementsMachine, Machine!Spec

=============================================================================
