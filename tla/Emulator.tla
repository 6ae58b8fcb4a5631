------------------------------ MODULE Emulator ------------------------------
(***************************************************************************)
(* The emulator (tool/): main() sets up a vm, loads a guest, runs it and   *)
(* handles its exits until it halts, and takes everything down again.      *)
(*                                                                         *)
(* The vm and the vcpu are those of VmContract, whose files this process   *)
(* alone has: by descriptors and by mappings.  The vcpu executes with TF   *)
(* set, so that every YAKVM_RUN ends after one instruction at the latest.  *)
(***************************************************************************)
EXTENDS Guest, Vmcb

CONSTANTS
  Images,     \* the files the emulator may be given, as in Guest!Image
  MayFail     \* whether system calls may fail, and the process be killed

(* What the Makefile defines, and the page size.                            *)
PAGE_SIZE == 4096
YAKVM_ENTRY == 4096
YAKVM_STACK == 2 * 4096
YAKVM_MEMORY == 1024 * 1024
YAKVM_PIO_HAWK == 0
YAKVM_MMIO_HAWK == 0

U8 == 2^8
U16 == 2^16

ResetRip == 65520    \* 0xfff0

(* Code lies in one segment of 64K, loops go back within it, and the two    *)
(* accesses to the mmio device have the encodings of guest.h.               *)
ASSUME ConstantsAssumption ==
  /\ \A i \in Images :
       /\ i.size \in Nat
       /\ DOMAIN i.code \subseteq 0 .. i.size
       /\ \A a \in DOMAIN i.code :
            LET insn == i.code[a]
            IN /\ insn.val \in Nat
               /\ insn.len \in Nat /\ a + insn.len < U16
               /\ insn.back \in 0 .. a
               /\ insn.op = "mov" => insn.val < U16
               /\ insn.op \in {"mmio_in", "mmio_out"} => insn.len = 3
  /\ MayFail \in BOOLEAN

VARIABLES
  pc,       \* where main() is
  fds,      \* the descriptors that are open
  maps,     \* the mappings that exist
  ret,      \* main()'s ret
  mode,     \* vm.cpu.mode
  pio,      \* PIO_HAWK
  mmio,     \* MMIO_HAWK
  regs,     \* the struct registers a handler is about to set
  image,    \* the file
  mapped,   \* the guest's pages that are in the nested page table
  vcpu,     \* the vcpu's registers
  vmcb,     \* and its control block
  state,    \* vm.cpu.state, the page shared with the driver
  live, vmFile, cpuFile,     \* VmContract
  faults    \* history: what went wrong so far

procVars == <<fds, maps, ret, faults>>
emulatorVars == <<mode, pio, mmio, regs>>
guestVars == <<image, mapped, vcpu, vmcb, state>>
contractVars == <<live, vmFile, cpuFile>>
vars == <<pc, procVars, emulatorVars, guestVars, contractVars>>

Vm == INSTANCE VmContract WITH Vms <- {"vm"}

NoRegs == [rax |-> 0, rip |-> -1]
Failed == {"aborted", "overrun", "panicked", "shutdown"}
Ended == {"exited", "killed"} \union Failed

Steps ==
  {"open", "create_vm", "mmap_memory", "open_bin", "fstat", "read", "close_bin",
   "munmap_memory", "create_vcpu", "create_again", "mmap_state", "init_regs",
   "close_cpufd", "run", "handle", "set_regs", "destroy_cpu", "destroy_memory",
   "close_vmfd", "close_yakvmfd", "return"}

TypeOK ==
  /\ pc \in Steps \union Ended
  /\ fds \subseteq {"dev", "vm", "vcpu", "bin"}
  /\ maps \subseteq {"memory", "state"}
  /\ ret \in {"unset", "zero", "error"}
  /\ mode \in {"unset", "RUNNING", "HLT"}
  /\ pio \in 0 .. U8 - 1
  /\ mmio \in 0 .. U8 - 1
  /\ regs.rax \in 0 .. U16 - 1 /\ regs.rip \in -1 .. U16 - 1
  /\ image.size \in Nat
  /\ \A p \in mapped : p \in Nat \ {0} /\ p % PAGE_SIZE = 0
  /\ vcpu.rax \in 0 .. U16 - 1 /\ vcpu.rip \in 0 .. U16 - 1
  /\ state.exit \in Int
  /\ live \subseteq {"vm"} /\ vmFile \subseteq {"vm"}
  /\ cpuFile["vm"] \in {"none", "open", "closed"}
  /\ faults \subseteq {"error", "oom", "kill"}

Init ==
  /\ pc = "open"
  /\ fds = {}
  /\ maps = {}
  /\ ret = "unset"
  /\ mode = "unset"
  /\ pio = 0
  /\ mmio = 0
  /\ regs = NoRegs
  /\ image \in Images
  /\ mapped = {}
  /\ vcpu = [rax |-> 0, rip |-> 0]
  /\ vmcb = ZeroVmcb
  /\ state = [exit |-> 0, info1 |-> 0, info2 |-> 0, rip |-> 0]
  /\ Vm!Init
  /\ faults = {}

-----------------------------------------------------------------------------
Goto(from, to) == pc = from /\ pc' = to

(* A system call succeeds, or fails and leaves its error in ret.            *)
Success == UNCHANGED <<ret, faults>>
Error ==
  /\ MayFail
  /\ ret' = "error"
  /\ faults' = faults \union {"error"}

OutOfMemory == MayFail /\ faults' = faults \union {"oom"}

(* An assertion fails: the kernel closes all the process has.               *)
Abort(from) ==
  /\ Goto(from, "aborted")
  /\ fds' = {}
  /\ maps' = {}
  /\ UNCHANGED ret

(* main(): a failure to open the device is only logged.                     *)
open ==
  /\ Goto("open", "create_vm")
  /\ \/ Success /\ fds' = {"dev"}
     \/ Error /\ UNCHANGED fds
  /\ UNCHANGED <<maps, emulatorVars, guestVars, contractVars>>

create_vm ==
  /\ \/ /\ Goto("create_vm", "mmap_memory")
        /\ "dev" \in fds
        /\ Vm!CreateVm("vm")
        /\ fds' = fds \union {"vm"}
        /\ Success
     \/ /\ Goto("create_vm", "close_yakvmfd")
        /\ Error \/ ("dev" \notin fds /\ ret' = "error" /\ UNCHANGED faults)
        /\ UNCHANGED <<fds, contractVars>>
  /\ UNCHANGED <<maps, emulatorVars, guestVars>>

(* yakvm_create_memory().                                                   *)
mmap_memory ==
  /\ \/ /\ Goto("mmap_memory", "open_bin")
        /\ maps' = maps \union {"memory"}
        /\ Success
     \/ /\ Goto("mmap_memory", "close_vmfd")
        /\ Error
        /\ UNCHANGED maps
  /\ UNCHANGED <<fds, emulatorVars, guestVars, contractVars>>

(* yakvm_load_bin(), from open() to close().                                *)
open_bin ==
  /\ \/ /\ Goto("open_bin", "fstat")
        /\ fds' = fds \union {"bin"}
        /\ Success
     \/ /\ Goto("open_bin", "munmap_memory")
        /\ Error
        /\ UNCHANGED fds
  /\ UNCHANGED <<maps, emulatorVars, guestVars, contractVars>>

fstat ==
  /\ \/ /\ Goto("fstat", "read")
        /\ image.size <= YAKVM_MEMORY
        /\ ret' = "zero"
        /\ UNCHANGED faults
     \/ /\ Goto("fstat", "close_bin")
        /\ image.size > YAKVM_MEMORY
        /\ ret' = "error"
        /\ UNCHANGED faults
     \/ Goto("fstat", "close_bin") /\ Error
  /\ UNCHANGED <<fds, maps, emulatorVars, guestVars, contractVars>>

yakvm_page(gpa) == (gpa \div PAGE_SIZE) * PAGE_SIZE

(* The pages that hold a number of bytes from YAKVM_ENTRY on.               *)
Loaded(size) ==
  {yakvm_page(YAKVM_ENTRY + off) : off \in
     {k \in {i * PAGE_SIZE : i \in 0 .. (size \div PAGE_SIZE)} : k < size}}

(* The pages the image is copied to fault into the nested page table.       *)
(* Beyond the mapping, read() stops short, or writes what lies there.       *)
read ==
  /\ \/ /\ Goto("read", "close_bin")
        /\ YAKVM_ENTRY + image.size <= YAKVM_MEMORY
        /\ mapped' = mapped \union Loaded(image.size)
        /\ ret' = "zero"
        /\ UNCHANGED <<fds, maps, faults>>
     \/ /\ Goto("read", "overrun")
        /\ YAKVM_ENTRY + image.size > YAKVM_MEMORY
        /\ UNCHANGED <<procVars, mapped>>
     \/ /\ Abort("read")
        /\ \/ YAKVM_ENTRY + image.size > YAKVM_MEMORY /\ UNCHANGED faults
           \/ image.size > 0 /\ OutOfMemory
        /\ UNCHANGED mapped
     \/ /\ Goto("read", "close_bin")
        /\ Error
        /\ UNCHANGED <<fds, maps, mapped>>
  /\ UNCHANGED <<emulatorVars, image, vcpu, vmcb, state, contractVars>>

close_bin ==
  /\ Goto("close_bin", IF ret = "zero" THEN "create_vcpu" ELSE "munmap_memory")
  /\ fds' = fds \ {"bin"}
  /\ UNCHANGED <<maps, ret, faults, emulatorVars, guestVars, contractVars>>

(* Mutant: yakvm_create_memory() leaves the mapping behind.                 *)
munmap_memory_missing ==
  /\ Goto("munmap_memory", "close_vmfd")
  /\ UNCHANGED <<procVars, emulatorVars, guestVars, contractVars>>

munmap_memory ==
  /\ Goto("munmap_memory", "close_vmfd")
  /\ maps' = maps \ {"memory"}
  /\ UNCHANGED <<fds, ret, faults, emulatorVars, guestVars, contractVars>>

-----------------------------------------------------------------------------
(* yakvm_create_cpu().  When the driver runs out of memory, what it returns *)
(* is a piece of a pointer: libc takes it for an error, or for a success,   *)
(* or for a failure that leaves errno as it was.  In the last case main()   *)
(* may find no error and go on with a cpu nobody has set up: the calls on   *)
(* its descriptor fail, and so do their assertions.                         *)
create_vcpu ==
  /\ \/ /\ Goto("create_vcpu", "create_again")
        /\ Vm!CreateVcpu("vm")
        /\ vmcb' = yakvm_vcpu_init_vmcb(vmcb, YAKVM_PIO_HAWK, 2)
        /\ vcpu' = [vcpu EXCEPT !.rip = ResetRip]
        /\ fds' = fds \union {"vcpu"}
        /\ Success
        /\ UNCHANGED maps
     \/ /\ Goto("create_vcpu", "destroy_memory")
        /\ Error \/ (OutOfMemory /\ ret' = "error")
        /\ UNCHANGED <<fds, maps, vcpu, vmcb, contractVars>>
     \/ /\ Goto("create_vcpu", "create_again")
        /\ OutOfMemory
        /\ UNCHANGED <<fds, maps, ret, vcpu, vmcb, contractVars>>
     \/ /\ Abort("create_vcpu")
        /\ OutOfMemory
        /\ UNCHANGED <<vcpu, vmcb, contractVars>>
  /\ UNCHANGED <<emulatorVars, image, mapped, state>>

(* A second vcpu must be refused with EEXIST: it is not if there is none.   *)
create_again ==
  /\ \/ /\ Goto("create_again", "mmap_state")
        /\ cpuFile["vm"] # "none"
        /\ UNCHANGED procVars
     \/ /\ Abort("create_again")
        /\ \/ cpuFile["vm"] = "none" /\ UNCHANGED faults
           \/ OutOfMemory
  /\ UNCHANGED <<emulatorVars, guestVars, contractVars>>

mmap_state ==
  /\ \/ /\ Goto("mmap_state", "init_regs")
        /\ maps' = maps \union {"state"}
        /\ Success
     \/ /\ Goto("mmap_state", "close_cpufd")
        /\ Error
        /\ UNCHANGED maps
  /\ UNCHANGED <<fds, emulatorVars, guestVars, contractVars>>

init_regs ==
  /\ Goto("init_regs", "run")
  /\ vcpu' = [vcpu EXCEPT !.rip = 0]
  /\ mode' = "RUNNING"
  /\ UNCHANGED <<procVars, pio, mmio, regs, image, mapped, vmcb, state,
                 contractVars>>

close_cpufd ==
  /\ Goto("close_cpufd", "destroy_memory")
  /\ fds' = fds \ {"vcpu"}
  /\ UNCHANGED <<maps, ret, faults, emulatorVars, guestVars, contractVars>>

-----------------------------------------------------------------------------
(* YAKVM_RUN: the vcpu goes on until its guest exits, and the driver shares *)
(* the reason.  Memory nobody has written is zero, which is an instruction  *)
(* that accesses the address 0.                                             *)
Fetch == IF vcpu.rip \in DOMAIN image.code THEN image.code[vcpu.rip]
                                           ELSE Insn("touch", 0, 2)
NextRip == vcpu.rip + Fetch.len

Exit(code, info1, info2) ==
  /\ Goto("run", "handle")
  /\ state' = [exit |-> code, info1 |-> info1, info2 |-> info2,
               rip |-> vcpu'.rip]
  /\ UNCHANGED <<procVars, emulatorVars, image, mapped, vmcb, contractVars>>

(* The addresses an instruction needs, its own before that of its operand.  *)
Operand ==
  IF Fetch.op = "touch" THEN {Fetch.val}
  ELSE IF Fetch.op \in {"mmio_in", "mmio_out"} THEN {YAKVM_MMIO_HAWK} ELSE {}
Missing(gpa) ==
  "NP_ENABLE" \in vmcb.nested_ctl /\ yakvm_page(gpa) \notin mapped
Fetched == Consistent(vmcb) /\ ~Missing(YAKVM_ENTRY + vcpu.rip)
Executes(ops) == Fetched /\ (\A a \in Operand : ~Missing(a)) /\ Fetch.op \in ops

(* A page is not present in the nested page table.                          *)
exit_npf ==
  /\ Consistent(vmcb)
  /\ UNCHANGED vcpu
  /\ \E gpa \in IF Fetched THEN Operand ELSE {YAKVM_ENTRY + vcpu.rip} :
       Missing(gpa) /\ Exit(SVM_EXIT_NPF, 0, gpa)

(* An instruction completes: with TF set, it is followed by #DB.            *)
exit_db ==
  /\ Executes({"mov", "touch", "jne"})
  /\ "TF" \in vmcb.rflags
  /\ Intercepted(vmcb, INTERCEPT_EXCEPTION_OFFSET + DB_VECTOR)
  /\ vcpu' = [rax |-> IF Fetch.op = "mov" THEN Fetch.val ELSE vcpu.rax,
              rip |-> IF Fetch.op = "jne" /\ vcpu.rax % U8 # Fetch.val
                      THEN vcpu.rip - Fetch.back ELSE NextRip]
  /\ Exit(SVM_EXIT_EXCP_BASE + DB_VECTOR, 0, 0)

(* The instructions that are intercepted do not complete.  For in and out,  *)
(* EXITINFO1 has the direction, the size and the port, EXITINFO2 the        *)
(* address of the next instruction.                                         *)
SVM_IOIO_TYPE_OUT == 0
SVM_IOIO_TYPE_IN == 1
exit_ioio ==
  /\ Executes({"in", "out", "in16"})
  /\ Intercepted(vmcb, INTERCEPT_IOIO_PROT)
  /\ YAKVM_PIO_HAWK \in vmcb.iopm
  /\ UNCHANGED vcpu
  /\ Exit(SVM_EXIT_IOIO,
          (IF Fetch.op = "out" THEN SVM_IOIO_TYPE_OUT ELSE SVM_IOIO_TYPE_IN)
            + (IF Fetch.op = "in16" THEN 2^5 ELSE 2^4)
            + YAKVM_PIO_HAWK * 2^16,
          NextRip)

exit_hlt ==
  /\ Executes({"hlt"})
  /\ Intercepted(vmcb, INTERCEPT_HLT)
  /\ UNCHANGED vcpu
  /\ Exit(SVM_EXIT_HLT, 0, 0)

(* What the emulator does not expect: an invalid vmcb, a guest that is in   *)
(* protected mode and executes vmrun, and a triple fault (an exception with *)
(* an IDT the guest has made unusable).  An exit has the number of its      *)
(* intercept.                                                               *)
OtherExit == IF Fetch.op = "vmrun" THEN SVM_EXIT_VMRUN ELSE SVM_EXIT_SHUTDOWN

exit_other ==
  /\ UNCHANGED vcpu
  /\ Consistent(vmcb) =>
       Executes({"vmrun", "triple"}) /\ Intercepted(vmcb, OtherExit)
  /\ Exit(IF Consistent(vmcb) THEN OtherExit ELSE SVM_EXIT_INVALID, 0, 0)

(* A triple fault that is not intercepted does not exit: it shuts the       *)
(* processor down, and the host with it.                                    *)
shutdown ==
  /\ Goto("run", "shutdown")
  /\ Executes({"triple"})
  /\ ~Intercepted(vmcb, INTERCEPT_SHUTDOWN)
  /\ UNCHANGED <<procVars, emulatorVars, guestVars, contractVars>>

-----------------------------------------------------------------------------
(* Devices.                                                                 *)
yakvm_device_pio_get == (pio + 1) % U8

(* Mutant: the device's byte is an int.                                     *)
pio_set_wide(val) == pio' = val

yakvm_device_pio_set(val) == pio' = val % U8
yakvm_device_mmio_get == (mmio - 1) % U8
yakvm_device_mmio_set(val) == mmio' = val % U8

svm_ioio_type(info) == info % 2
svm_ioio_is_size8(info) == (info \div 2^4) % 2 = 1

(* Mutant: the shift of the size.                                           *)
svm_ioio_port_shift4(info) == (info \div 2^4) % U16

svm_ioio_port(info) == (info \div 2^16) % U16

(* yakvm_cpu_handle_exit(): an exit leads to another run, or through the    *)
(* registers, or to a failed assertion.                                     *)
Handle(exit, to) ==
  /\ state.exit = exit
  /\ Goto("handle", to)
  /\ UNCHANGED <<procVars, image, vcpu, vmcb, state, contractVars>>

HandleAborts(exit) ==
  /\ state.exit = exit
  /\ Abort("handle")
  /\ UNCHANGED <<emulatorVars, guestVars, contractVars>>

(* The instruction at state->cs + state->rip is read from the memory.       *)
Opcode ==
  IF state.rip \in DOMAIN image.code THEN image.code[state.rip].op ELSE "zero"

yakvm_vcpu_handle_mmio ==
  /\ Handle(SVM_EXIT_NPF, "set_regs")
  /\ state.info2 = YAKVM_MMIO_HAWK
  /\ \/ /\ Opcode = "mmio_out"
        /\ yakvm_device_mmio_set(vcpu.rax)
        /\ regs' = [rax |-> vcpu.rax, rip |-> vcpu.rip + 3]
     \/ /\ Opcode = "mmio_in"
        /\ regs' = [rax |-> yakvm_device_mmio_get, rip |-> vcpu.rip + 3]
        /\ UNCHANGED mmio
  /\ UNCHANGED <<mode, pio, mapped>>

handle_mmio_abort ==
  /\ state.info2 = YAKVM_MMIO_HAWK
  /\ Opcode \notin {"mmio_in", "mmio_out"}
  /\ HandleAborts(SVM_EXIT_NPF)
  /\ UNCHANGED faults

(* YAKVM_MMAP_PAGE: the driver asserts that an entry that is there is also  *)
(* present, which the one of the device is not.                             *)
yakvm_cpu_handle_npf ==
  /\ state.info2 # YAKVM_MMIO_HAWK
  /\ LET page == yakvm_page(state.info2)
     IN \/ /\ page # yakvm_page(YAKVM_MMIO_HAWK)
           /\ Handle(SVM_EXIT_NPF, "run")
           /\ mapped' = mapped \union {page}
        \/ /\ page = yakvm_page(YAKVM_MMIO_HAWK)
           /\ Handle(SVM_EXIT_NPF, "panicked")
           /\ UNCHANGED mapped
  /\ UNCHANGED emulatorVars

handle_npf_abort ==
  /\ state.info2 # YAKVM_MMIO_HAWK
  /\ OutOfMemory
  /\ HandleAborts(SVM_EXIT_NPF)

(* The log has the opcode at the new rip, whose page is faulted in.         *)
handle_db ==
  /\ Handle(SVM_EXIT_EXCP_BASE + DB_VECTOR, "run")
  /\ mapped' = mapped \union {yakvm_page(YAKVM_ENTRY + state.rip)}
  /\ UNCHANGED emulatorVars

handle_hlt ==
  /\ Handle(SVM_EXIT_HLT, "destroy_cpu")
  /\ mode' = "HLT"
  /\ UNCHANGED <<pio, mmio, regs, mapped>>

ValidIo == svm_ioio_is_size8(state.info1)
             /\ svm_ioio_port(state.info1) = YAKVM_PIO_HAWK

yakvm_cpu_handle_ioio ==
  /\ Handle(SVM_EXIT_IOIO, "set_regs")
  /\ ValidIo
  /\ \/ /\ svm_ioio_type(state.info1) = SVM_IOIO_TYPE_IN
        /\ regs' = [rax |-> yakvm_device_pio_get, rip |-> state.info2]
        /\ UNCHANGED pio
     \/ /\ svm_ioio_type(state.info1) # SVM_IOIO_TYPE_IN
        /\ yakvm_device_pio_set(vcpu.rax)
        /\ regs' = [rax |-> vcpu.rax, rip |-> state.info2]
  /\ UNCHANGED <<mode, mmio, mapped>>

(* The default of the switch returns -EINVAL, which yakvm_cpu_run() asserts *)
(* not to happen.                                                           *)
handle_abort ==
  /\ \/ HandleAborts(SVM_EXIT_IOIO) /\ ~ValidIo
     \/ /\ HandleAborts(state.exit)
        /\ state.exit \notin {SVM_EXIT_NPF, SVM_EXIT_EXCP_BASE + DB_VECTOR,
                              SVM_EXIT_HLT, SVM_EXIT_IOIO}
  /\ UNCHANGED faults

(* Mutant: the handler keeps the old rax.                                   *)
set_regs_rip_only ==
  /\ Goto("set_regs", "run")
  /\ vcpu' = [vcpu EXCEPT !.rip = regs.rip]
  /\ regs' = NoRegs
  /\ UNCHANGED <<procVars, mode, pio, mmio, image, mapped, vmcb, state,
                 contractVars>>

(* YAKVM_SET_REGS, the end of a handler.                                    *)
set_regs ==
  /\ Goto("set_regs", "run")
  /\ vcpu' = regs
  /\ regs' = NoRegs
  /\ UNCHANGED <<procVars, mode, pio, mmio, image, mapped, vmcb, state,
                 contractVars>>

-----------------------------------------------------------------------------
(* The way down, to which every failure of main() jumps.                    *)
yakvm_destroy_cpu ==
  /\ Goto("destroy_cpu", "destroy_memory")
  /\ maps' = maps \ {"state"}
  /\ fds' = fds \ {"vcpu"}
  /\ UNCHANGED <<ret, faults, emulatorVars, guestVars, contractVars>>

yakvm_destroy_memory ==
  /\ Goto("destroy_memory", "close_vmfd")
  /\ maps' = maps \ {"memory"}
  /\ UNCHANGED <<fds, ret, faults, emulatorVars, guestVars, contractVars>>

close_vmfd ==
  /\ Goto("close_vmfd", "close_yakvmfd")
  /\ fds' = fds \ {"vm"}
  /\ UNCHANGED <<maps, ret, faults, emulatorVars, guestVars, contractVars>>

(* Mutant: ret = close(yakvmfd).                                            *)
close_yakvmfd_ret ==
  /\ Goto("close_yakvmfd", "return")
  /\ fds' = fds \ {"dev"}
  /\ ret' = "zero"
  /\ UNCHANGED <<maps, faults, emulatorVars, guestVars, contractVars>>

close_yakvmfd ==
  /\ Goto("close_yakvmfd", "return")
  /\ fds' = fds \ {"dev"}
  /\ UNCHANGED <<maps, ret, faults, emulatorVars, guestVars, contractVars>>

(* A process that ends, in whatever way, leaves nothing open.               *)
exit ==
  /\ Goto("return", "exited")
  /\ fds' = {}
  /\ maps' = {}
  /\ UNCHANGED <<ret, faults, emulatorVars, guestVars, contractVars>>

kill ==
  /\ MayFail
  /\ pc \in Steps
  /\ pc' = "killed"
  /\ fds' = {}
  /\ maps' = {}
  /\ faults' = faults \union {"kill"}
  /\ UNCHANGED <<ret, emulatorVars, guestVars, contractVars>>

(* Mutant: the release of a vcpu's file puts nothing.                       *)
release_vm_only ==
  /\ {"vm", "memory"} \cap (fds \union maps) = {}
  /\ Vm!ReleaseVm("vm")
  /\ UNCHANGED <<pc, procVars, emulatorVars, guestVars>>

(* The driver is told when a file has neither descriptor nor mapping left.  *)
release ==
  /\ \/ {"vm", "memory"} \cap (fds \union maps) = {} /\ Vm!ReleaseVm("vm")
     \/ {"vcpu", "state"} \cap (fds \union maps) = {} /\ Vm!ReleaseVcpu("vm")
  /\ UNCHANGED <<pc, procVars, emulatorVars, guestVars>>

-----------------------------------------------------------------------------
SetUp ==
  \/ open \/ create_vm \/ mmap_memory
  \/ open_bin \/ fstat \/ read \/ close_bin \/ munmap_memory
  \/ create_vcpu \/ create_again \/ mmap_state \/ init_regs \/ close_cpufd

yakvm_cpu_run ==
  \/ exit_npf \/ exit_db \/ exit_ioio \/ exit_hlt \/ exit_other \/ shutdown
  \/ yakvm_vcpu_handle_mmio \/ handle_mmio_abort
  \/ yakvm_cpu_handle_npf \/ handle_npf_abort
  \/ handle_db \/ handle_hlt \/ yakvm_cpu_handle_ioio \/ handle_abort
  \/ set_regs

TakeDown ==
  \/ yakvm_destroy_cpu \/ yakvm_destroy_memory
  \/ close_vmfd \/ close_yakvmfd \/ exit

main == SetUp \/ yakvm_cpu_run \/ TakeDown

Next == main \/ kill \/ release

Spec == Init /\ [][Next]_vars /\ WF_vars(main) /\ WF_vars(release)

-----------------------------------------------------------------------------
(* Whichever of its steps fails, main() returns with every descriptor       *)
(* closed and every mapping removed: each failure jumps to the label that   *)
(* undoes what had been done (tool/emulator.c:55).                          *)
NothingLeftOpen == pc = "return" => fds = {} /\ maps = {}

(* main() returns zero if, and only if, the guest ran until it halted.      *)
ExitStatus == pc = "return" => ret # "unset" /\ (ret = "zero" <=> mode = "HLT")

(* The instructions the emulator knows, in an image that fits.              *)
Supported(img) ==
  /\ img.size \in 1 .. YAKVM_MEMORY - YAKVM_ENTRY
  /\ 0 \in DOMAIN img.code
  /\ \A a \in DOMAIN img.code :
       LET insn == img.code[a]
       IN /\ insn.op \in {"mov", "touch", "jne", "in", "out", "mmio_in",
                          "mmio_out", "hlt"}
          /\ insn.op = "touch" => insn.val >= PAGE_SIZE
          /\ insn.op = "jne" => a - insn.back \in DOMAIN img.code
          /\ insn.op # "hlt" => a + insn.len \in DOMAIN img.code

(* No assertion, of the emulator or of the driver, fails for such a guest,  *)
(* and it does not shut the processor down, except when memory runs out.    *)
SupportedGuestsRun == pc \in Failed => "oom" \in faults \/ ~Supported(image)

(* Exits, handlers and ioctls add up to a machine on which each instruction *)
(* of the guest takes effect once and in order, devices included: what      *)
(* test.py checks for one guest with unicorn.                               *)
Machine ==
  INSTANCE GuestMachine WITH
    code <- image.code,
    al <- (IF regs # NoRegs THEN regs.rax ELSE vcpu.rax) % U8,
    rip <- IF mode = "unset" THEN 0 ELSE
           IF regs # NoRegs THEN regs.rip ELSE vcpu.rip,
    halted <- mode = "HLT"

ImplementsMachine == Machine!Spec

(* As long as nothing fails, a guest of the kind the emulator supports that *)
(* does not loop for ever, such as guest.c once both devices have answered, *)
(* halts, and the emulator returns zero.                                    *)
GuestHalts ==
  <>(faults # {} \/ ~Supported(image) \/ (pc = "exited" /\ ret = "zero"))

(* Whatever fails, and even if it is killed, the process comes to an end    *)
(* and the driver destroys the vm, as test.py:210 waits for.  A guest that  *)
(* loops for ever is not among those this is claimed for, nor, once it has  *)
(* done so, one that panics the host, shuts the processor down or was read  *)
(* over the emulator itself; no supported guest does (SupportedGuestsRun).  *)
VmDestroyed ==
  <>[](\/ pc \in {"exited", "killed", "aborted"} /\ live = {}
       \/ pc \in {"panicked", "overrun", "shutdown"} /\ ~Supported(image))
=============================================================================
