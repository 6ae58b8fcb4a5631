------------------------------ MODULE VcpuRun -------------------------------
(***************************************************************************)
(* The ioctls on a vcpu (driver/cpu.c) and the world switch of YAKVM_RUN   *)
(* (yakvm_vcpu_run(), driver/vcpu_run.S), on several physical processors.  *)
(*                                                                         *)
(* A processor has one set of registers, in three groups by what switches  *)
(* them: gpr, the general purpose registers that vcpu_run.S moves; core,   *)
(* the state vmrun and #VMEXIT exchange (rip, rsp, rax, control registers, *)
(* cs, ss, ds, es); sys, the state vmsave and vmload move (fs, gs, tr,     *)
(* ldtr, the syscall msrs).  The host value of a register is named after   *)
(* the thread it belongs to, so that a value in the wrong place shows.     *)
(*                                                                         *)
(* The scheduler moves a thread between processors wherever the code lets  *)
(* it: between any two steps, unless preemption or interrupts are off.     *)
(***************************************************************************)
EXTENDS Naturals

CONSTANTS
  Vcpus,
  Threads,    \* threads that have the vcpus' descriptors
  Pcpus,      \* physical processors
  Values,     \* register values of guests and of struct registers
  CsBases,    \* segment bases
  ResetCs,    \* the base of cs after reset, 0xffff0000
  U16,        \* 2^16: struct registers keeps cs and ss in a uint16_t
  NULL

ASSUME ConstantsAssumption ==
  /\ NULL \notin Threads \union Vcpus \union Values
  /\ Values # {}
  /\ Values \cap Threads = {}
  /\ U16 \in Nat \ {0}
  /\ CsBases \subseteq Nat
  /\ ResetCs \in CsBases
  /\ \A b \in CsBases : b % U16 \in CsBases

VARIABLES
  lock,     \* vcpu->lock: the thread that holds it, or NULL
  gctx,     \* vcpu->gctx: the guest's general purpose registers
  vmcb,     \* vcpu->gctx.vmcb: save area and exit code
  hctx,     \* vcpu->hctx: the host's general purpose registers
  hvmcb,    \* vcpu->hctx.vmcb: the host's sys
  hsave,    \* the page vcpu->hsave: the host's core
  state,    \* vcpu->state: the exit code shared with user space
  cpu,      \* the registers of each processor
  msr,      \* its MSR_VM_HSAVE_PA: whose hsave, or NULL
  gif,      \* its global interrupt flag
  guest,    \* the vcpu whose guest it is running, or NULL
  run,      \* the thread it is running, or NULL
  saved,    \* the registers of a thread that is not running
  pinned,   \* the threads that have preemption disabled
  pc,       \* where each thread is
  arg,      \* the vcpu whose ioctl the thread is in
  regs      \* the struct registers of the thread's ioctl

vars == <<lock, gctx, vmcb, hctx, hvmcb, hsave, state, cpu, msr, gif, guest,
          run, saved, pinned, pc, arg, regs>>

vcpuVars == <<lock, gctx, vmcb, hctx, hvmcb, hsave, state>>
pcpuVars == <<cpu, msr, gif, guest>>
schedVars == <<run, saved, pinned>>
threadVars == <<pc, arg, regs>>

-----------------------------------------------------------------------------
Gpr == {"rbx", "rcx", "rdx", "rdi", "rsi", "rbp", "r8", "r9", "r10", "r11",
        "r12", "r13", "r14", "r15"}

(* What vcpu_run.S saves of the host, and what the compiler relies on.      *)
HostSaved == Gpr \ {"rdx", "rdi", "rsi"}
CalleeSaved == {"rbx", "rbp", "r12", "r13", "r14", "r15"}

Value == Values \union Threads \union {NULL}
All(v) == [r \in Gpr |-> v]
Registers == [gpr : [Gpr -> Value], core : Value, sys : Value]
HostRegisters(t) == [gpr |-> All(t), core |-> t, sys |-> t]

Vmcb == [core : Values, cs : CsBases, sys : Values, exit : Values]

(* struct registers, as the ioctls exchange it with user space.             *)
UserRegs == [gpr : [Gpr -> Values], core : Values, cs : CsBases]
AnyValue == CHOOSE v \in Values : TRUE
NoRegs == [gpr |-> All(AnyValue), core |-> AnyValue, cs |-> ResetCs % U16]

RunSteps == {"run", "hsave", "clgi", "vmsave", "vmrun", "guest", "vmload",
             "stgi", "preempt", "share"}
LockedSteps == RunSteps \union {"get_save", "get_gctx", "set_gctx", "set_save",
                                "unlock"}
Steps == LockedSteps \union {"idle", "lock_run", "lock_get", "lock_set"}

TypeOK ==
  /\ lock \in [Vcpus -> Threads \union {NULL}]
  /\ gctx \in [Vcpus -> [Gpr -> Values]]
  /\ vmcb \in [Vcpus -> Vmcb]
  /\ hctx \in [Vcpus -> [HostSaved -> Value]]
  /\ hvmcb \in [Vcpus -> Value]
  /\ hsave \in [Vcpus -> Value]
  /\ state \in [Vcpus -> Values]
  /\ cpu \in [Pcpus -> Registers]
  /\ msr \in [Pcpus -> Vcpus \union {NULL}]
  /\ gif \in [Pcpus -> BOOLEAN]
  /\ guest \in [Pcpus -> Vcpus \union {NULL}]
  /\ run \in [Pcpus -> Threads \union {NULL}]
  /\ saved \in [Threads -> Registers]
  /\ pinned \subseteq Threads
  /\ pc \in [Threads -> Steps]
  /\ arg \in [Threads -> Vcpus \union {NULL}]
  /\ regs \in [Threads -> UserRegs]

Init ==
  /\ lock = [c \in Vcpus |-> NULL]
  /\ gctx = [c \in Vcpus |-> All(AnyValue)]
  /\ vmcb = [c \in Vcpus |-> [core |-> AnyValue, cs |-> ResetCs,
                              sys |-> AnyValue, exit |-> AnyValue]]
  /\ hctx = [c \in Vcpus |-> [r \in HostSaved |-> NULL]]
  /\ hvmcb = [c \in Vcpus |-> NULL]
  /\ hsave = [c \in Vcpus |-> NULL]
  /\ state = [c \in Vcpus |-> AnyValue]
  /\ cpu = [k \in Pcpus |-> [gpr |-> All(NULL), core |-> NULL, sys |-> NULL]]
  /\ msr = [k \in Pcpus |-> NULL]
  /\ gif = [k \in Pcpus |-> TRUE]
  /\ guest = [k \in Pcpus |-> NULL]
  /\ run = [k \in Pcpus |-> NULL]
  /\ saved = [t \in Threads |-> HostRegisters(t)]
  /\ pinned = {}
  /\ pc = [t \in Threads |-> "idle"]
  /\ arg = [t \in Threads |-> NULL]
  /\ regs = [t \in Threads |-> NoRegs]

-----------------------------------------------------------------------------
(* Thread t, running on processor k, takes the step from one place to       *)
(* another.                                                                 *)
Step(t, k, from, to) ==
  /\ run[k] = t
  /\ pc[t] = from
  /\ pc' = [pc EXCEPT ![t] = to]

(* The scheduler gives processor k to a thread that wants one: one inside   *)
(* an ioctl whose lock it is not waiting for.  The thread that has k keeps  *)
(* it while it has preemption disabled, and an interrupt must get through.  *)
Waiting(t) ==
  pc[t] \in {"lock_run", "lock_get", "lock_set"} /\ lock[arg[t]] # NULL

sched(k, t) ==
  /\ \A j \in Pcpus : run[j] # t
  /\ pc[t] # "idle" /\ ~Waiting(t)
  /\ gif[k]
  /\ run[k] \notin pinned
  /\ run' = [run EXCEPT ![k] = t]
  /\ saved' = [u \in Threads |-> IF u = run[k] THEN cpu[k] ELSE saved[u]]
  /\ cpu' = [cpu EXCEPT ![k] = saved[t]]
  /\ UNCHANGED <<msr, gif, guest, pinned, vcpuVars, threadVars>>

-----------------------------------------------------------------------------
(* yakvm_vcpu_ioctl(): user space calls with a vcpu, and for YAKVM_SET_REGS *)
(* with registers that were copied in.  (A copy that fails under            *)
(* YAKVM_SET_REGS, and an unknown ioctl, take the lock and change nothing:  *)
(* as a YAKVM_GET_REGS does.)                                               *)
yakvm_vcpu_ioctl(t, c, ioctl) ==
  /\ pc[t] = "idle"
  /\ pc' = [pc EXCEPT ![t] = ioctl]
  /\ arg' = [arg EXCEPT ![t] = c]
  /\ \E v \in Values, b \in CsBases :
       /\ ioctl # "lock_set" => v = AnyValue /\ b = ResetCs
       /\ regs' = [regs EXCEPT ![t] =
                     [gpr |-> All(v), core |-> v, cs |-> b % U16]]
  /\ UNCHANGED <<vcpuVars, pcpuVars, schedVars>>

(* Mutant: the lock is not taken.                                           *)
mutex_lock_missing(t, k, ioctl, first) ==
  /\ Step(t, k, ioctl, first)
  /\ UNCHANGED <<vcpuVars, arg, regs, pcpuVars, schedVars>>

mutex_lock_killable(t, k, ioctl, first) ==
  /\ Step(t, k, ioctl, first)
  /\ lock[arg[t]] = NULL
  /\ lock' = [lock EXCEPT ![arg[t]] = t]
  /\ UNCHANGED <<gctx, vmcb, hctx, hvmcb, hsave, state, arg, regs, pcpuVars,
                 schedVars>>

(* A thread killed while it waits for the lock returns -EINTR.              *)
mutex_lock_killed(t) ==
  /\ Waiting(t)
  /\ pc' = [pc EXCEPT ![t] = "idle"]
  /\ arg' = [arg EXCEPT ![t] = NULL]
  /\ regs' = [regs EXCEPT ![t] = NoRegs]
  /\ UNCHANGED <<vcpuVars, pcpuVars, schedVars>>

mutex_unlock(t, k) ==
  /\ Step(t, k, "unlock", "idle")
  /\ lock' = [lock EXCEPT ![arg[t]] = NULL]
  /\ arg' = [arg EXCEPT ![t] = NULL]
  /\ regs' = [regs EXCEPT ![t] = NoRegs]
  /\ UNCHANGED <<gctx, vmcb, hctx, hvmcb, hsave, state, pcpuVars, schedVars>>

(* yakvm_vcpu_get_regs() and yakvm_vcpu_set_regs() read and write the       *)
(* registers in the two places the guest's are kept in.                     *)
get_save(t, k) ==
  /\ Step(t, k, "get_save", "get_gctx")
  /\ regs' = [regs EXCEPT ![t].core = vmcb[arg[t]].core,
                          ![t].cs = vmcb[arg[t]].cs % U16]
  /\ UNCHANGED <<arg, vcpuVars, pcpuVars, schedVars>>

get_gctx(t, k) ==
  /\ Step(t, k, "get_gctx", "unlock")
  /\ regs' = [regs EXCEPT ![t].gpr = gctx[arg[t]]]
  /\ UNCHANGED <<arg, vcpuVars, pcpuVars, schedVars>>

set_gctx(t, k) ==
  /\ Step(t, k, "set_gctx", "set_save")
  /\ gctx' = [gctx EXCEPT ![arg[t]] = regs[t].gpr]
  /\ UNCHANGED <<lock, vmcb, hctx, hvmcb, hsave, state, arg, regs, pcpuVars,
                 schedVars>>

set_save(t, k) ==
  /\ Step(t, k, "set_save", "unlock")
  /\ vmcb' = [vmcb EXCEPT ![arg[t]].core = regs[t].core,
                          ![arg[t]].cs = regs[t].cs]
  /\ UNCHANGED <<lock, gctx, hctx, hvmcb, hsave, state, arg, regs, pcpuVars,
                 schedVars>>

-----------------------------------------------------------------------------
(* Mutant: preemption stays enabled.                                        *)
preempt_disable_missing(t, k) ==
  /\ Step(t, k, "run", "hsave")
  /\ UNCHANGED <<vcpuVars, arg, regs, pcpuVars, schedVars>>

(* yakvm_vcpu_run(), statement by statement.                                *)
preempt_disable(t, k) ==
  /\ Step(t, k, "run", "hsave")
  /\ pinned' = pinned \union {t}
  /\ UNCHANGED <<vcpuVars, arg, regs, pcpuVars, run, saved>>

wrmsrl_hsave(t, k) ==
  /\ Step(t, k, "hsave", "clgi")
  /\ msr' = [msr EXCEPT ![k] = arg[t]]
  /\ UNCHANGED <<vcpuVars, arg, regs, cpu, gif, guest, schedVars>>

(* Mutant: the global interrupt flag stays set.                             *)
clgi_missing(t, k) ==
  /\ Step(t, k, "clgi", "vmsave")
  /\ UNCHANGED <<vcpuVars, arg, regs, pcpuVars, schedVars>>

clgi(t, k) ==
  /\ Step(t, k, "clgi", "vmsave")
  /\ gif' = [gif EXCEPT ![k] = FALSE]
  /\ UNCHANGED <<vcpuVars, arg, regs, cpu, msr, guest, schedVars>>

vmsave_host(t, k) ==
  /\ Step(t, k, "vmsave", "vmrun")
  /\ hvmcb' = [hvmcb EXCEPT ![arg[t]] = cpu[k].sys]
  /\ UNCHANGED <<lock, gctx, vmcb, hctx, hsave, state, arg, regs, pcpuVars,
                 schedVars>>

(* _yakvm_vcpu_run() up to vmrun: the host's registers are saved, the       *)
(* guest's loaded; vmrun saves the host's core where the msr points to.     *)
vmrun(t, k) ==
  LET c == arg[t]
  IN /\ Step(t, k, "vmrun", "guest")
     /\ hctx' = [hctx EXCEPT ![c] = [r \in HostSaved |-> cpu[k].gpr[r]]]
     /\ hsave' = [hsave EXCEPT ![msr[k]] = cpu[k].core]
     /\ cpu' = [cpu EXCEPT ![k] = [gpr |-> gctx[c], core |-> vmcb[c].core,
                                   sys |-> vmcb[c].sys]]
     /\ guest' = [guest EXCEPT ![k] = c]
     /\ UNCHANGED <<lock, gctx, vmcb, hvmcb, state, arg, regs, msr, gif,
                    schedVars>>

(* The guest changes the registers of the processor it runs on.             *)
guest_step(k) ==
  /\ guest[k] # NULL
  /\ \E v \in Values :
       cpu' = [cpu EXCEPT ![k] = [gpr |-> All(v), core |-> v, sys |-> v]]
  /\ UNCHANGED <<vcpuVars, msr, gif, guest, schedVars, threadVars>>

(* The host's registers after vcpu_run.S has restored them.  What rdx, rdi  *)
(* and rsi hold then does not matter: the caller expects nothing of them.   *)
HostGpr(c) == [r \in Gpr |-> IF r \in HostSaved THEN hctx[c][r] ELSE NULL]

(* Mutant: the host's registers are loaded before the guest's are saved.    *)
vmexit_saves_late(t, k) ==
  LET c == arg[t]
  IN /\ Step(t, k, "guest", "vmload")
     /\ vmcb' = [vmcb EXCEPT ![c].core = cpu[k].core, ![c].sys = cpu[k].sys,
                             ![c].exit = cpu[k].core]
     /\ gctx' = [gctx EXCEPT ![c] = HostGpr(c)]
     /\ cpu' = [cpu EXCEPT ![k].gpr = HostGpr(c), ![k].core = hsave[msr[k]]]
     /\ guest' = [guest EXCEPT ![k] = NULL]
     /\ UNCHANGED <<lock, hctx, hvmcb, hsave, state, arg, regs, msr, gif,
                    schedVars>>

(* #VMEXIT and the rest of _yakvm_vcpu_run(): the core comes back from      *)
(* where the msr points to, the guest's registers are saved.  The exit code *)
(* and its information follow from what the guest did last.                 *)
vmexit(t, k) ==
  LET c == arg[t]
  IN /\ Step(t, k, "guest", "vmload")
     /\ vmcb' = [vmcb EXCEPT ![c].core = cpu[k].core, ![c].sys = cpu[k].sys,
                             ![c].exit = cpu[k].core]
     /\ gctx' = [gctx EXCEPT ![c] = cpu[k].gpr]
     /\ cpu' = [cpu EXCEPT ![k].gpr = HostGpr(c), ![k].core = hsave[msr[k]]]
     /\ guest' = [guest EXCEPT ![k] = NULL]
     /\ UNCHANGED <<lock, hctx, hvmcb, hsave, state, arg, regs, msr, gif,
                    schedVars>>

vmload_host(t, k) ==
  /\ Step(t, k, "vmload", "stgi")
  /\ cpu' = [cpu EXCEPT ![k].sys = hvmcb[arg[t]]]
  /\ UNCHANGED <<vcpuVars, arg, regs, msr, gif, guest, schedVars>>

stgi(t, k) ==
  /\ Step(t, k, "stgi", "preempt")
  /\ gif' = [gif EXCEPT ![k] = TRUE]
  /\ UNCHANGED <<vcpuVars, arg, regs, cpu, msr, guest, schedVars>>

(* Mutant: preemption stays disabled.                                       *)
preempt_enable_missing(t, k) ==
  /\ Step(t, k, "preempt", "share")
  /\ UNCHANGED <<vcpuVars, arg, regs, pcpuVars, schedVars>>

preempt_enable(t, k) ==
  /\ Step(t, k, "preempt", "share")
  /\ pinned' = pinned \ {t}
  /\ UNCHANGED <<vcpuVars, arg, regs, pcpuVars, run, saved>>

(* Mutant: the exit is not shared.                                          *)
share_err_missing(t, k) ==
  /\ Step(t, k, "share", "unlock")
  /\ UNCHANGED <<vcpuVars, arg, regs, pcpuVars, schedVars>>

yakvm_vcpu_share_err_to_user(t, k) ==
  /\ Step(t, k, "share", "unlock")
  /\ state' = [state EXCEPT ![arg[t]] = vmcb[arg[t]].exit]
  /\ UNCHANGED <<lock, gctx, vmcb, hctx, hvmcb, hsave, arg, regs, pcpuVars,
                 schedVars>>

-----------------------------------------------------------------------------
yakvm_vcpu_run(t, k) ==
  \/ mutex_lock_killable(t, k, "lock_run", "run")
  \/ preempt_disable(t, k)
  \/ wrmsrl_hsave(t, k)
  \/ clgi(t, k)
  \/ vmsave_host(t, k)
  \/ vmrun(t, k)
  \/ vmexit(t, k)
  \/ vmload_host(t, k)
  \/ stgi(t, k)
  \/ preempt_enable(t, k)
  \/ yakvm_vcpu_share_err_to_user(t, k)

yakvm_vcpu_regs(t, k) ==
  \/ mutex_lock_killable(t, k, "lock_get", "get_save")
  \/ get_save(t, k)
  \/ get_gctx(t, k)
  \/ mutex_lock_killable(t, k, "lock_set", "set_gctx")
  \/ set_gctx(t, k)
  \/ set_save(t, k)

ThreadStep(t) ==
  \E k \in Pcpus :
    yakvm_vcpu_run(t, k) \/ yakvm_vcpu_regs(t, k) \/ mutex_unlock(t, k)

UserCall(t) ==
  \E c \in Vcpus, ioctl \in {"lock_run", "lock_get", "lock_set"} :
    yakvm_vcpu_ioctl(t, c, ioctl)

Next ==
  \/ \E t \in Threads : ThreadStep(t) \/ UserCall(t) \/ mutex_lock_killed(t)
  \/ \E k \in Pcpus : guest_step(k)
  \/ \E k \in Pcpus, t \in Threads : sched(k, t)

Spec == Init /\ [][Next]_vars

(* The scheduler: a thread that can run again and again gets a processor    *)
(* and takes its next step.  With rflags.TF set and #DB intercepted, the    *)
(* guest exits after an instruction (vmexit is a step of the thread).       *)
Fairness ==
  \A t \in Threads :
    /\ SF_vars(ThreadStep(t))
    /\ SF_vars(\E k \in Pcpus : sched(k, t))

FairSpec == Spec /\ Fairness

-----------------------------------------------------------------------------
IsHost(r, t) ==
  r.core = t /\ r.sys = t /\ \A g \in CalleeSaved : r.gpr[g] = t

(* YAKVM_RUN gives the thread back the host state it took, on whichever     *)
(* processor: wherever an interrupt or the scheduler can get in, the        *)
(* processor holds the state of the thread that runs on it, and a thread    *)
(* that does not run has its own state saved.                               *)
HostIntact ==
  /\ \A k \in Pcpus : gif[k] /\ run[k] # NULL => IsHost(cpu[k], run[k])
  /\ \A t \in Threads :
       (\A k \in Pcpus : run[k] # t) => IsHost(saved[t], t)

(* While a guest runs, its processor's MSR_VM_HSAVE_PA points to the hsave  *)
(* page of its own vcpu, which holds the core of the thread that runs it,   *)
(* and no other processor runs the same vcpu.                               *)
HsaveExclusive ==
  \A k \in Pcpus :
    guest[k] # NULL =>
      /\ msr[k] = guest[k]
      /\ hsave[guest[k]] = run[k]
      /\ \A j \in Pcpus : guest[j] = guest[k] => j = k

(* The two places of the guest's registers, gctx and the save area of the   *)
(* vmcb, belong together whenever nobody holds the lock, and YAKVM_GET_REGS *)
(* returns the registers of one moment: never half of a guest exit or half  *)
(* of another thread's YAKVM_SET_REGS.                                      *)
RegsNotTorn ==
  /\ \A c \in Vcpus : lock[c] = NULL => gctx[c] = All(vmcb[c].core)
  /\ \A t \in Threads : pc[t] = "unlock" => regs[t].gpr = All(regs[t].core)

(* The state page shows the vcpu's last exit whenever no ioctl is running   *)
(* on the vcpu.                                                             *)
StateFresh ==
  \A c \in Vcpus : lock[c] = NULL => state[c] = vmcb[c].exit

(* An ioctl on a vcpu returns, if only the guest exits: nobody keeps the    *)
(* lock or a processor for ever.                                            *)
IoctlReturns == \A t \in Threads : pc[t] # "idle" ~> pc[t] = "idle"

=============================================================================
