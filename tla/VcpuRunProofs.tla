---------------------------- MODULE VcpuRunProofs ---------------------------
(***************************************************************************)
(* The invariants of VcpuRun, proved for any number of vcpus, threads and  *)
(* processors.                                                             *)
(***************************************************************************)
EXTENDS VcpuRun, TLAPS

-----------------------------------------------------------------------------
(* The inductive invariant.                                                 *)

WaitSteps == {"lock_run", "lock_get", "lock_set"}
PinnedSteps == {"hsave", "clgi", "vmsave", "vmrun", "guest", "vmload", "stgi",
                "preempt"}
GifOffSteps == {"vmsave", "vmrun", "guest", "vmload", "stgi"}

(* A thread runs on one processor at most; one inside the world switch has  *)
(* preemption disabled and keeps its processor, whose interrupt flag and    *)
(* guest follow from how far the thread is.                                 *)
SchedOK ==
  /\ \A j, k \in Pcpus : run[j] # NULL /\ run[j] = run[k] => j = k
  /\ \A t \in Threads : t \in pinned <=> pc[t] \in PinnedSteps
  /\ \A t \in pinned : \E k \in Pcpus : run[k] = t
  /\ \A k \in Pcpus :
       /\ gif[k] <=> ~(run[k] # NULL /\ pc[run[k]] \in GifOffSteps)
       /\ guest[k] # NULL <=> (run[k] # NULL /\ pc[run[k]] = "guest")
       /\ guest[k] # NULL => guest[k] = arg[run[k]]

(* A thread past mutex_lock_killable() has the lock of its vcpu.            *)
LockOK ==
  /\ \A t \in Threads : pc[t] \in LockedSteps \union WaitSteps => arg[t] \in Vcpus
  /\ \A t \in Threads : pc[t] \in LockedSteps => lock[arg[t]] = t

(* The registers of a guest: one moment's in both places, unless the thread *)
(* that has the lock is in the middle of writing them.                      *)
RegsOK ==
  /\ \A c \in Vcpus : lock[c] = NULL => gctx[c] = All(vmcb[c].core)
  /\ \A t \in Threads :
       /\ pc[t] \in LockedSteps \ {"set_save"} =>
            gctx[arg[t]] = All(vmcb[arg[t]].core)
       /\ pc[t] = "set_save" => gctx[arg[t]] = regs[t].gpr
       /\ pc[t] # "get_gctx" => regs[t].gpr = All(regs[t].core)
       /\ pc[t] = "get_gctx" => regs[t].core = vmcb[arg[t]].core

(* The state page lags behind between #VMEXIT and the end of YAKVM_RUN.     *)
StateOK ==
  /\ \A c \in Vcpus : lock[c] = NULL => state[c] = vmcb[c].exit
  /\ \A t \in Threads :
       pc[t] \in LockedSteps \ {"vmload", "stgi", "preempt", "share"} =>
         state[arg[t]] = vmcb[arg[t]].exit

(* While a guest runs, its processor has guest values in all registers.     *)
GuestOK ==
  \A k \in Pcpus :
    run[k] # NULL /\ pc[run[k]] = "guest" =>
      /\ cpu[k].core \in Values /\ cpu[k].sys \in Values
      /\ cpu[k].gpr = All(cpu[k].core)

(* Where the state of the host is while a thread is in the world switch: on *)
(* the processor, except that from vmrun on the core is in the hsave page   *)
(* the msr points to and the callee-saved registers are in hctx, until      *)
(* #VMEXIT, and sys is in the host's vmcb until it is loaded again.         *)
HostOK ==
  /\ \A t \in Threads : (\A k \in Pcpus : run[k] # t) => IsHost(saved[t], t)
  /\ \A k \in Pcpus :
       run[k] # NULL =>
         LET t == run[k]
             c == arg[t]
         IN /\ pc[t] \notin {"guest", "vmload"} => IsHost(cpu[k], t)
            /\ pc[t] \in {"clgi", "vmsave", "vmrun", "guest"} => msr[k] = c
            /\ pc[t] \in {"vmrun", "guest", "vmload"} => hvmcb[c] = t
            /\ pc[t] = "guest" =>
                 hsave[c] = t /\ \A r \in CalleeSaved : hctx[c][r] = t
            /\ pc[t] = "vmload" =>
                 cpu[k].core = t /\ \A r \in CalleeSaved : cpu[k].gpr[r] = t

IInv ==
  /\ TypeOK
  /\ SchedOK
  /\ LockOK
  /\ RegsOK
  /\ StateOK
  /\ GuestOK
  /\ HostOK

-----------------------------------------------------------------------------
(* What a thread that has a vcpu's lock and runs on processor k knows:      *)
(* nobody else is on that processor, and no other thread that has a lock    *)
(* works on its vcpu.                                                       *)
Mine(t, k) ==
  /\ t # NULL
  /\ run[k] = t
  /\ arg[t] \in Vcpus
  /\ lock[arg[t]] = t
  /\ \A u \in Threads : u # t /\ pc[u] \in LockedSteps => arg[u] # arg[t]
  /\ \A j \in Pcpus : j # k => run[j] # t

(* vcpu->lock is exclusive, and so is a processor.                          *)
LEMMA LockedThread ==
  ASSUME IInv, NEW t \in Threads, NEW k \in Pcpus,
         run[k] = t, pc[t] \in LockedSteps
  PROVE  Mine(t, k)
BY ConstantsAssumption DEF Mine, IInv, LockOK, SchedOK

(* The registers an ioctl starts with.                                      *)
LEMMA NoRegsType ==
  /\ AnyValue \in Values
  /\ NoRegs \in UserRegs
  /\ NoRegs.gpr = All(NoRegs.core)
<1>1. AnyValue \in Values
  BY ConstantsAssumption DEF AnyValue
<1>2. All(AnyValue) \in [Gpr -> Values]
  BY <1>1 DEF All
<1> QED
  BY <1>1, <1>2, ConstantsAssumption DEF NoRegs, UserRegs

(* YAKVM_GET_REGS reads the save area.                                      *)
LEMMA GetSaveStep ==
  ASSUME IInv, NEW t \in Threads, NEW k \in Pcpus, get_save(t, k)
  PROVE  IInv'
<1> USE DEF IInv
<1>1. Mine(t, k)
  BY LockedThread DEF get_save, Step, LockedSteps, RunSteps
<1>2. TypeOK'
  <2>1. vmcb[arg[t]] \in Vmcb /\ regs[t] \in UserRegs
    BY <1>1 DEF Mine, TypeOK
  <2>2. vmcb[arg[t]].core \in Values /\ vmcb[arg[t]].cs % U16 \in CsBases
    BY <2>1, ConstantsAssumption DEF Vmcb
  <2>3. regs' \in [Threads -> UserRegs]
    BY <2>1, <2>2 DEF TypeOK, get_save, UserRegs
  <2> QED
    BY <2>3
    DEF TypeOK, get_save, Step, vcpuVars, pcpuVars, schedVars, Steps,
        LockedSteps, RunSteps
<1>3. SchedOK'
  BY <1>1 DEF Mine, TypeOK, SchedOK, get_save, Step, vcpuVars, pcpuVars,
     schedVars, PinnedSteps, GifOffSteps
<1>4. LockOK'
  BY <1>1 DEF Mine, TypeOK, LockOK, get_save, Step, vcpuVars, pcpuVars,
     schedVars, LockedSteps, RunSteps, WaitSteps
<1>5. RegsOK'
  BY <1>1 DEF Mine, TypeOK, LockOK, RegsOK, get_save, Step, vcpuVars,
     pcpuVars, schedVars, LockedSteps, RunSteps, UserRegs, Vmcb
<1>6. StateOK'
  BY <1>1 DEF Mine, TypeOK, LockOK, StateOK, get_save, Step, vcpuVars,
     pcpuVars, schedVars, LockedSteps, RunSteps, Vmcb
<1>7. GuestOK'
  BY <1>1 DEF Mine, TypeOK, GuestOK, get_save, Step, vcpuVars, pcpuVars,
     schedVars, Registers
<1>8. HostOK'
  BY <1>1 DEF Mine, TypeOK, LockOK, HostOK, IsHost, get_save, Step, vcpuVars,
     pcpuVars, schedVars, Registers, LockedSteps, RunSteps
<1> QED BY <1>2, <1>3, <1>4, <1>5, <1>6, <1>7, <1>8

(* YAKVM_GET_REGS reads the other registers.                                *)
LEMMA GetGctxStep ==
  ASSUME IInv, NEW t \in Threads, NEW k \in Pcpus, get_gctx(t, k)
  PROVE  IInv'
<1> USE DEF IInv
<1>1. Mine(t, k)
  BY LockedThread DEF get_gctx, Step, LockedSteps, RunSteps
<1>2. TypeOK'
  BY <1>1, ZenonT(60)
  DEF Mine, TypeOK, get_gctx, Step, vcpuVars, pcpuVars, schedVars, Steps,
     LockedSteps, RunSteps, UserRegs
<1>3. SchedOK'
  BY <1>1 DEF Mine, TypeOK, SchedOK, get_gctx, Step, vcpuVars, pcpuVars,
     schedVars, PinnedSteps, GifOffSteps
<1>4. LockOK'
  BY <1>1 DEF Mine, TypeOK, LockOK, get_gctx, Step, vcpuVars, pcpuVars,
     schedVars, LockedSteps, RunSteps, WaitSteps
<1>5. RegsOK'
  BY <1>1 DEF Mine, TypeOK, LockOK, RegsOK, get_gctx, Step, vcpuVars,
     pcpuVars, schedVars, LockedSteps, RunSteps, UserRegs, Vmcb
<1>6. StateOK'
  BY <1>1 DEF Mine, TypeOK, LockOK, StateOK, get_gctx, Step, vcpuVars,
     pcpuVars, schedVars, LockedSteps, RunSteps, Vmcb
<1>7. GuestOK'
  BY <1>1 DEF Mine, TypeOK, GuestOK, get_gctx, Step, vcpuVars, pcpuVars,
     schedVars, Registers
<1>8. HostOK'
  BY <1>1 DEF Mine, TypeOK, LockOK, HostOK, IsHost, get_gctx, Step, vcpuVars,
     pcpuVars, schedVars, Registers, LockedSteps, RunSteps
<1> QED BY <1>2, <1>3, <1>4, <1>5, <1>6, <1>7, <1>8

(* YAKVM_SET_REGS writes gctx; until the next step the two places differ.   *)
LEMMA SetGctxStep ==
  ASSUME IInv, NEW t \in Threads, NEW k \in Pcpus, set_gctx(t, k)
  PROVE  IInv'
<1> USE DEF IInv
<1>1. Mine(t, k)
  BY LockedThread DEF set_gctx, Step, LockedSteps, RunSteps
<1>2. TypeOK'
  BY <1>1 DEF Mine, TypeOK, set_gctx, Step, vcpuVars, pcpuVars, schedVars,
     Steps, LockedSteps, RunSteps, UserRegs
<1>3. SchedOK'
  BY <1>1 DEF Mine, TypeOK, SchedOK, set_gctx, Step, vcpuVars, pcpuVars,
     schedVars, PinnedSteps, GifOffSteps
<1>4. LockOK'
  BY <1>1 DEF Mine, TypeOK, LockOK, set_gctx, Step, vcpuVars, pcpuVars,
     schedVars, LockedSteps, RunSteps, WaitSteps
<1>5. RegsOK'
  BY <1>1 DEF Mine, TypeOK, LockOK, RegsOK, set_gctx, Step, vcpuVars,
     pcpuVars, schedVars, LockedSteps, RunSteps, UserRegs, Vmcb
<1>6. StateOK'
  BY <1>1 DEF Mine, TypeOK, LockOK, StateOK, set_gctx, Step, vcpuVars,
     pcpuVars, schedVars, LockedSteps, RunSteps, Vmcb
<1>7. GuestOK'
  BY <1>1 DEF Mine, TypeOK, GuestOK, set_gctx, Step, vcpuVars, pcpuVars,
     schedVars, Registers
<1>8. HostOK'
  BY <1>1 DEF Mine, TypeOK, LockOK, HostOK, IsHost, set_gctx, Step, vcpuVars,
     pcpuVars, schedVars, Registers, LockedSteps, RunSteps
<1> QED BY <1>2, <1>3, <1>4, <1>5, <1>6, <1>7, <1>8

(* YAKVM_SET_REGS writes the save area.                                     *)
LEMMA SetSaveStep ==
  ASSUME IInv, NEW t \in Threads, NEW k \in Pcpus, set_save(t, k)
  PROVE  IInv'
<1> USE DEF IInv
<1>1. Mine(t, k)
  BY LockedThread DEF set_save, Step, LockedSteps, RunSteps
<1>2. TypeOK'
  <2>1. /\ regs[t].core \in Values /\ regs[t].cs \in CsBases
        /\ vmcb[arg[t]] \in Vmcb
    BY <1>1 DEF Mine, TypeOK, UserRegs
  <2>2. vmcb' \in [Vcpus -> Vmcb]
    BY <2>1 DEF TypeOK, set_save, Vmcb
  <2> QED
    BY <2>2
    DEF TypeOK, set_save, Step, vcpuVars, pcpuVars, schedVars, Steps,
        LockedSteps, RunSteps
<1>3. SchedOK'
  BY <1>1 DEF Mine, TypeOK, SchedOK, set_save, Step, vcpuVars, pcpuVars,
     schedVars, PinnedSteps, GifOffSteps
<1>4. LockOK'
  BY <1>1 DEF Mine, TypeOK, LockOK, set_save, Step, vcpuVars, pcpuVars,
     schedVars, LockedSteps, RunSteps, WaitSteps
<1>5. RegsOK'
  BY <1>1 DEF Mine, TypeOK, LockOK, RegsOK, set_save, Step, vcpuVars,
     pcpuVars, schedVars, LockedSteps, RunSteps, UserRegs, Vmcb
<1>6. StateOK'
  BY <1>1 DEF Mine, TypeOK, LockOK, StateOK, set_save, Step, vcpuVars,
     pcpuVars, schedVars, LockedSteps, RunSteps, Vmcb
<1>7. GuestOK'
  BY <1>1 DEF Mine, TypeOK, GuestOK, set_save, Step, vcpuVars, pcpuVars,
     schedVars, Registers
<1>8. HostOK'
  BY <1>1 DEF Mine, TypeOK, LockOK, HostOK, IsHost, set_save, Step, vcpuVars,
     pcpuVars, schedVars, Registers, LockedSteps, RunSteps
<1> QED BY <1>2, <1>3, <1>4, <1>5, <1>6, <1>7, <1>8

(* mutex_unlock(): the vcpu is in order again.                              *)
LEMMA UnlockStep ==
  ASSUME IInv, NEW t \in Threads, NEW k \in Pcpus, mutex_unlock(t, k)
  PROVE  IInv'
<1> USE DEF IInv
<1>1. Mine(t, k)
  BY LockedThread DEF mutex_unlock, Step, LockedSteps, RunSteps
<1>2. TypeOK'
  BY <1>1, NoRegsType
  DEF Mine, TypeOK, mutex_unlock, Step, vcpuVars, pcpuVars, schedVars, Steps,
      LockedSteps, RunSteps
<1>3. SchedOK'
  BY <1>1 DEF Mine, TypeOK, SchedOK, mutex_unlock, Step, vcpuVars, pcpuVars,
     schedVars, PinnedSteps, GifOffSteps
<1>4. LockOK'
  BY <1>1 DEF Mine, TypeOK, LockOK, mutex_unlock, Step, vcpuVars, pcpuVars,
     schedVars, LockedSteps, RunSteps, WaitSteps
<1>5. RegsOK'
  BY <1>1, NoRegsType
  DEF Mine, TypeOK, LockOK, RegsOK, mutex_unlock, Step, vcpuVars, pcpuVars,
      schedVars, LockedSteps, RunSteps
<1>6. StateOK'
  BY <1>1 DEF Mine, TypeOK, LockOK, StateOK, mutex_unlock, Step, vcpuVars,
     pcpuVars, schedVars, LockedSteps, RunSteps, Vmcb
<1>7. GuestOK'
  BY <1>1 DEF Mine, TypeOK, GuestOK, mutex_unlock, Step, vcpuVars, pcpuVars,
     schedVars, Registers
<1>8. HostOK'
  BY <1>1 DEF Mine, TypeOK, LockOK, HostOK, IsHost, mutex_unlock, Step,
     vcpuVars, pcpuVars, schedVars, Registers, LockedSteps, RunSteps
<1> QED BY <1>2, <1>3, <1>4, <1>5, <1>6, <1>7, <1>8

(* preempt_disable() pins the thread.                                       *)
LEMMA PreemptDisableStep ==
  ASSUME IInv, NEW t \in Threads, NEW k \in Pcpus, preempt_disable(t, k)
  PROVE  IInv'
<1> USE DEF IInv
<1>1. Mine(t, k)
  BY LockedThread DEF preempt_disable, Step, LockedSteps, RunSteps
<1>2. TypeOK'
  BY <1>1 DEF Mine, TypeOK, preempt_disable, Step, vcpuVars, pcpuVars,
     schedVars, Steps, LockedSteps, RunSteps
<1>3. SchedOK'
  BY <1>1 DEF Mine, TypeOK, SchedOK, preempt_disable, Step, vcpuVars,
     pcpuVars, schedVars, PinnedSteps, GifOffSteps
<1>4. LockOK'
  BY <1>1 DEF Mine, TypeOK, LockOK, preempt_disable, Step, vcpuVars,
     pcpuVars, schedVars, LockedSteps, RunSteps, WaitSteps
<1>5. RegsOK'
  BY <1>1 DEF Mine, TypeOK, LockOK, RegsOK, preempt_disable, Step, vcpuVars,
     pcpuVars, schedVars, LockedSteps, RunSteps, UserRegs, Vmcb
<1>6. StateOK'
  BY <1>1 DEF Mine, TypeOK, LockOK, StateOK, preempt_disable, Step, vcpuVars,
     pcpuVars, schedVars, LockedSteps, RunSteps, Vmcb
<1>7. GuestOK'
  BY <1>1 DEF Mine, TypeOK, GuestOK, preempt_disable, Step, vcpuVars,
     pcpuVars, schedVars, Registers
<1>8. HostOK'
  BY <1>1 DEF Mine, TypeOK, LockOK, HostOK, IsHost, preempt_disable, Step,
     vcpuVars, pcpuVars, schedVars, Registers, LockedSteps, RunSteps
<1> QED BY <1>2, <1>3, <1>4, <1>5, <1>6, <1>7, <1>8

(* The msr points to the hsave page of the thread's vcpu.                   *)
LEMMA HsaveMsrStep ==
  ASSUME IInv, NEW t \in Threads, NEW k \in Pcpus, wrmsrl_hsave(t, k)
  PROVE  IInv'
<1> USE DEF IInv
<1>1. Mine(t, k)
  BY LockedThread DEF wrmsrl_hsave, Step, LockedSteps, RunSteps
<1>2. TypeOK'
  BY <1>1 DEF Mine, TypeOK, wrmsrl_hsave, Step, vcpuVars, pcpuVars,
     schedVars, Steps, LockedSteps, RunSteps
<1>3. SchedOK'
  BY <1>1 DEF Mine, TypeOK, SchedOK, wrmsrl_hsave, Step, vcpuVars, pcpuVars,
     schedVars, PinnedSteps, GifOffSteps
<1>4. LockOK'
  BY <1>1 DEF Mine, TypeOK, LockOK, wrmsrl_hsave, Step, vcpuVars, pcpuVars,
     schedVars, LockedSteps, RunSteps, WaitSteps
<1>5. RegsOK'
  BY <1>1 DEF Mine, TypeOK, LockOK, RegsOK, wrmsrl_hsave, Step, vcpuVars,
     pcpuVars, schedVars, LockedSteps, RunSteps, UserRegs, Vmcb
<1>6. StateOK'
  BY <1>1 DEF Mine, TypeOK, LockOK, StateOK, wrmsrl_hsave, Step, vcpuVars,
     pcpuVars, schedVars, LockedSteps, RunSteps, Vmcb
<1>7. GuestOK'
  BY <1>1 DEF Mine, TypeOK, GuestOK, wrmsrl_hsave, Step, vcpuVars, pcpuVars,
     schedVars, Registers
<1>8. HostOK'
  BY <1>1 DEF Mine, TypeOK, LockOK, HostOK, IsHost, wrmsrl_hsave, Step,
     vcpuVars, pcpuVars, schedVars, Registers, LockedSteps, RunSteps
<1> QED BY <1>2, <1>3, <1>4, <1>5, <1>6, <1>7, <1>8

(* clgi: from here on no interrupt gets in.                                 *)
LEMMA ClgiStep ==
  ASSUME IInv, NEW t \in Threads, NEW k \in Pcpus, clgi(t, k)
  PROVE  IInv'
<1> USE DEF IInv
<1>1. Mine(t, k)
  BY LockedThread DEF clgi, Step, LockedSteps, RunSteps
<1>2. TypeOK'
  BY <1>1 DEF Mine, TypeOK, clgi, Step, vcpuVars, pcpuVars, schedVars, Steps,
     LockedSteps, RunSteps
<1>3. SchedOK'
  BY <1>1 DEF Mine, TypeOK, SchedOK, clgi, Step, vcpuVars, pcpuVars,
     schedVars, PinnedSteps, GifOffSteps
<1>4. LockOK'
  BY <1>1 DEF Mine, TypeOK, LockOK, clgi, Step, vcpuVars, pcpuVars,
     schedVars, LockedSteps, RunSteps, WaitSteps
<1>5. RegsOK'
  BY <1>1 DEF Mine, TypeOK, LockOK, RegsOK, clgi, Step, vcpuVars, pcpuVars,
     schedVars, LockedSteps, RunSteps, UserRegs, Vmcb
<1>6. StateOK'
  BY <1>1 DEF Mine, TypeOK, LockOK, StateOK, clgi, Step, vcpuVars, pcpuVars,
     schedVars, LockedSteps, RunSteps, Vmcb
<1>7. GuestOK'
  BY <1>1 DEF Mine, TypeOK, GuestOK, clgi, Step, vcpuVars, pcpuVars,
     schedVars, Registers
<1>8. HostOK'
  BY <1>1 DEF Mine, TypeOK, LockOK, HostOK, IsHost, clgi, Step, vcpuVars,
     pcpuVars, schedVars, Registers, LockedSteps, RunSteps
<1> QED BY <1>2, <1>3, <1>4, <1>5, <1>6, <1>7, <1>8

(* vmsave keeps the host's sys.                                             *)
LEMMA VmsaveStep ==
  ASSUME IInv, NEW t \in Threads, NEW k \in Pcpus, vmsave_host(t, k)
  PROVE  IInv'
<1> USE DEF IInv
<1>1. Mine(t, k)
  BY LockedThread DEF vmsave_host, Step, LockedSteps, RunSteps
<1>2. TypeOK'
  BY <1>1 DEF Mine, TypeOK, vmsave_host, Step, vcpuVars, pcpuVars, schedVars,
     Steps, LockedSteps, RunSteps, Registers
<1>3. SchedOK'
  BY <1>1 DEF Mine, TypeOK, SchedOK, vmsave_host, Step, vcpuVars, pcpuVars,
     schedVars, PinnedSteps, GifOffSteps
<1>4. LockOK'
  BY <1>1 DEF Mine, TypeOK, LockOK, vmsave_host, Step, vcpuVars, pcpuVars,
     schedVars, LockedSteps, RunSteps, WaitSteps
<1>5. RegsOK'
  BY <1>1 DEF Mine, TypeOK, LockOK, RegsOK, vmsave_host, Step, vcpuVars,
     pcpuVars, schedVars, LockedSteps, RunSteps, UserRegs, Vmcb
<1>6. StateOK'
  BY <1>1 DEF Mine, TypeOK, LockOK, StateOK, vmsave_host, Step, vcpuVars,
     pcpuVars, schedVars, LockedSteps, RunSteps, Vmcb
<1>7. GuestOK'
  BY <1>1 DEF Mine, TypeOK, GuestOK, vmsave_host, Step, vcpuVars, pcpuVars,
     schedVars, Registers
<1>8. HostOK'
  BY <1>1 DEF Mine, TypeOK, LockOK, HostOK, IsHost, vmsave_host, Step,
     vcpuVars, pcpuVars, schedVars, Registers, LockedSteps, RunSteps
<1> QED BY <1>2, <1>3, <1>4, <1>5, <1>6, <1>7, <1>8

(* vmrun keeps the host's core and callee-saved registers.                  *)
LEMMA VmrunStep ==
  ASSUME IInv, NEW t \in Threads, NEW k \in Pcpus, vmrun(t, k)
  PROVE  IInv'
<1> USE DEF IInv
<1>1. Mine(t, k)
  BY LockedThread DEF vmrun, Step, LockedSteps, RunSteps
<1> DEFINE c == arg[t]
<1>a. /\ pc[t] = "vmrun" /\ pc' = [pc EXCEPT ![t] = "guest"]
      /\ msr[k] = c /\ hvmcb[c] = t /\ IsHost(cpu[k], t)
  BY <1>1 DEF Mine, vmrun, Step, HostOK
<1>b. cpu[k] \in Registers /\ vmcb[c] \in Vmcb /\ gctx[c] \in [Gpr -> Values]
  BY <1>1 DEF Mine, TypeOK
<1>c. cpu' = [cpu EXCEPT ![k] = [gpr |-> gctx[c], core |-> vmcb[c].core,
                                 sys |-> vmcb[c].sys]]
  BY DEF vmrun
<1>d. cpu'[k] = [gpr |-> gctx[c], core |-> vmcb[c].core, sys |-> vmcb[c].sys]
  BY <1>c DEF TypeOK
<1>e. hctx' = [hctx EXCEPT ![c] = [r \in HostSaved |-> cpu[k].gpr[r]]]
  BY DEF vmrun
<1>f. hsave' = [hsave EXCEPT ![c] = cpu[k].core]
  BY <1>a DEF vmrun
<1>2. TypeOK'
  <2>1. cpu' \in [Pcpus -> Registers]
    <3>1. [gpr |-> gctx[c], core |-> vmcb[c].core, sys |-> vmcb[c].sys]
            \in Registers
      BY <1>b DEF Registers, Vmcb, Value
    <3> QED BY <1>c, <3>1 DEF TypeOK
  <2>2. hctx' \in [Vcpus -> [HostSaved -> Value]]
    <3>1. [r \in HostSaved |-> cpu[k].gpr[r]] \in [HostSaved -> Value]
      BY <1>b DEF Registers, HostSaved
    <3> QED BY <1>e, <3>1 DEF TypeOK
  <2>3. hsave' \in [Vcpus -> Value]
    BY <1>b, <1>f DEF TypeOK, Registers
  <2> QED
    BY <1>1, <2>1, <2>2, <2>3 DEF Mine, TypeOK, vmrun, Step, schedVars, Steps,
       LockedSteps, RunSteps
<1>3. SchedOK'
  <2>1. guest' = [guest EXCEPT ![k] = c] /\ c # NULL
    BY <1>1, ConstantsAssumption DEF Mine, vmrun
  <2> QED
    BY <1>1, <1>a, <2>1
    DEF Mine, TypeOK, SchedOK, vmrun, schedVars, PinnedSteps,
       GifOffSteps
<1>4. LockOK'
  BY <1>1 DEF Mine, TypeOK, LockOK, vmrun, Step, vcpuVars, pcpuVars,
     schedVars, LockedSteps, RunSteps, WaitSteps
<1>5. RegsOK'
  BY <1>1 DEF Mine, TypeOK, LockOK, RegsOK, vmrun, Step, vcpuVars, pcpuVars,
     schedVars, LockedSteps, RunSteps, UserRegs, Vmcb
<1>6. StateOK'
  BY <1>1 DEF Mine, TypeOK, LockOK, StateOK, vmrun, Step, vcpuVars, pcpuVars,
     schedVars, LockedSteps, RunSteps, Vmcb
<1>7. GuestOK'
  <2>1. gctx[c] = All(vmcb[c].core)
    BY <1>a DEF RegsOK, LockedSteps, RunSteps
  <2>2. /\ cpu'[k].core \in Values /\ cpu'[k].sys \in Values
        /\ cpu'[k].gpr = All(cpu'[k].core)
    BY <1>b, <1>d, <2>1 DEF Vmcb
  <2>3. \A j \in Pcpus : j # k => cpu'[j] = cpu[j]
    BY <1>c DEF TypeOK
  <2> QED
    BY <1>1, <1>a, <2>2, <2>3 DEF Mine, TypeOK, GuestOK, vmrun, schedVars
<1>8. HostOK'
  <2>1. hsave'[c] = t /\ \A r \in CalleeSaved : hctx'[c][r] = t
    BY <1>1, <1>a, <1>e, <1>f DEF Mine, TypeOK, IsHost, CalleeSaved, HostSaved,
       Gpr
  <2>2. /\ \A j \in Pcpus : j # k => cpu'[j] = cpu[j]
        /\ \A d \in Vcpus : d # c => hctx'[d] = hctx[d] /\ hsave'[d] = hsave[d]
    BY <1>c, <1>e, <1>f DEF TypeOK
  <2>3. UNCHANGED <<run, saved, arg, msr, hvmcb>>
    BY DEF vmrun, schedVars
  <2>4. ASSUME NEW j \in Pcpus, j # k, run[j] # NULL, pc[run[j]] = "guest"
        PROVE  arg[run[j]] # c /\ arg[run[j]] \in Vcpus
    BY <1>1, <2>4 DEF Mine, TypeOK, LockOK, LockedSteps, RunSteps
  <2>5. ASSUME NEW j \in Pcpus, j # k, run[j] # NULL
        PROVE  pc'[run[j]] = pc[run[j]]
    BY <1>1, <1>a, <2>5 DEF Mine, TypeOK
  <2>6. pc'[t] = "guest"
    BY <1>a DEF TypeOK
  <2>7. \A u \in Threads : (\A j \in Pcpus : run'[j] # u) => IsHost(saved'[u], u)
    BY <2>3 DEF HostOK
  <2> QED
    BY <1>1, <1>a, <2>1, <2>2, <2>3, <2>4, <2>5, <2>6, <2>7 DEF Mine, HostOK
<1> QED BY <1>2, <1>3, <1>4, <1>5, <1>6, <1>7, <1>8

(* #VMEXIT brings back the host's core and callee-saved registers.          *)
LEMMA VmexitStep ==
  ASSUME IInv, NEW t \in Threads, NEW k \in Pcpus, vmexit(t, k)
  PROVE  IInv'
<1> USE DEF IInv
<1>1. Mine(t, k)
  BY LockedThread DEF vmexit, Step, LockedSteps, RunSteps
<1> DEFINE c == arg[t]
<1>a. /\ pc[t] = "guest" /\ pc' = [pc EXCEPT ![t] = "vmload"]
      /\ msr[k] = c /\ hvmcb[c] = t /\ hsave[c] = t
      /\ \A r \in CalleeSaved : hctx[c][r] = t
  BY <1>1 DEF Mine, vmexit, Step, HostOK
<1>b. /\ cpu[k] \in Registers /\ vmcb[c] \in Vmcb /\ hctx[c] \in [HostSaved -> Value]
      /\ cpu[k].core \in Values /\ cpu[k].sys \in Values
      /\ cpu[k].gpr = All(cpu[k].core)
  BY <1>1, <1>a DEF Mine, TypeOK, GuestOK
<1>c. cpu' = [cpu EXCEPT ![k].gpr = HostGpr(c), ![k].core = t]
  BY <1>a DEF vmexit
<1>d. /\ cpu'[k].gpr = HostGpr(c) /\ cpu'[k].core = t
      /\ \A j \in Pcpus : j # k => cpu'[j] = cpu[j]
  BY <1>b, <1>c DEF TypeOK, Registers
<1>e. vmcb' = [vmcb EXCEPT ![c].core = cpu[k].core, ![c].sys = cpu[k].sys,
                           ![c].exit = cpu[k].core]
  BY DEF vmexit
<1>f. /\ vmcb'[c].core = cpu[k].core
      /\ \A d \in Vcpus : d # c => vmcb'[d] = vmcb[d]
  BY <1>1, <1>b, <1>e DEF Mine, TypeOK, Vmcb
<1>g. gctx' = [gctx EXCEPT ![c] = All(cpu[k].core)]
  BY <1>b DEF vmexit
<1>2. TypeOK'
  <2>1. HostGpr(c) \in [Gpr -> Value]
    BY <1>b DEF HostGpr, Value
  <2>2. cpu' \in [Pcpus -> Registers]
    BY <1>b, <1>c, <2>1 DEF TypeOK, Registers, Value
  <2>3. vmcb' \in [Vcpus -> Vmcb]
    BY <1>b, <1>e DEF TypeOK, Vmcb
  <2>4. gctx' \in [Vcpus -> [Gpr -> Values]]
    BY <1>b, <1>g DEF TypeOK, All
  <2> QED
    BY <2>2, <2>3, <2>4 DEF TypeOK, vmexit, Step, schedVars, Steps, LockedSteps,
       RunSteps
<1>3. SchedOK'
  BY <1>1 DEF Mine, TypeOK, SchedOK, vmexit, Step, vcpuVars, pcpuVars,
     schedVars, PinnedSteps, GifOffSteps
<1>4. LockOK'
  BY <1>1 DEF Mine, TypeOK, LockOK, vmexit, Step, vcpuVars, pcpuVars,
     schedVars, LockedSteps, RunSteps, WaitSteps
<1>5. RegsOK'
  <2>1. gctx'[c] = All(vmcb'[c].core)
    BY <1>1, <1>f, <1>g DEF Mine, TypeOK
  <2>2. \A d \in Vcpus : d # c => gctx'[d] = gctx[d]
    BY <1>g DEF TypeOK
  <2>3. UNCHANGED <<lock, arg, regs>>
    BY DEF vmexit
  <2>4. \A d \in Vcpus : lock'[d] = NULL => gctx'[d] = All(vmcb'[d].core)
    BY <1>1, <1>f, <2>2, <2>3 DEF Mine, RegsOK
  <2>5. ASSUME NEW u \in Threads, u # t, pc[u] \in LockedSteps
        PROVE  arg[u] \in Vcpus /\ arg[u] # c
    BY <1>1, <2>5 DEF Mine, LockOK
  <2>6. \A u \in Threads : u # t => pc'[u] = pc[u]
    BY <1>a DEF TypeOK
  <2>7. pc'[t] = "vmload"
    BY <1>a DEF TypeOK
  <2> QED
    BY <1>a, <1>f, <2>1, <2>2, <2>3, <2>4, <2>5, <2>6, <2>7 DEF RegsOK,
       LockedSteps, RunSteps
<1>6. StateOK'
  BY <1>1 DEF Mine, TypeOK, LockOK, StateOK, vmexit, Step, vcpuVars,
     pcpuVars, schedVars, LockedSteps, RunSteps, Vmcb
<1>7. GuestOK'
  BY <1>1 DEF Mine, TypeOK, GuestOK, vmexit, Step, vcpuVars, pcpuVars,
     schedVars, Registers
<1>8. HostOK'
  <2>1. cpu'[k].core = t /\ \A r \in CalleeSaved : cpu'[k].gpr[r] = t
    BY <1>a, <1>d DEF HostGpr, CalleeSaved, HostSaved, Gpr
  <2>2. UNCHANGED <<run, saved, arg, msr, hvmcb, hsave, hctx>>
    BY DEF vmexit, schedVars
  <2>3. ASSUME NEW j \in Pcpus, j # k, run[j] # NULL
        PROVE  pc'[run[j]] = pc[run[j]]
    BY <1>1, <1>a, <2>3 DEF Mine, TypeOK
  <2>4. pc'[t] = "vmload"
    BY <1>a DEF TypeOK
  <2>5. \A u \in Threads : (\A j \in Pcpus : run'[j] # u) => IsHost(saved'[u], u)
    BY <2>2 DEF HostOK
  <2> QED
    BY <1>1, <1>a, <1>d, <2>1, <2>2, <2>3, <2>4, <2>5 DEF Mine, HostOK
<1> QED BY <1>2, <1>3, <1>4, <1>5, <1>6, <1>7, <1>8

(* vmload brings back the host's sys.                                       *)
LEMMA VmloadStep ==
  ASSUME IInv, NEW t \in Threads, NEW k \in Pcpus, vmload_host(t, k)
  PROVE  IInv'
<1> USE DEF IInv
<1>1. Mine(t, k)
  BY LockedThread DEF vmload_host, Step, LockedSteps, RunSteps
<1>2. TypeOK'
  <2>1. cpu' \in [Pcpus -> Registers]
    BY <1>1, ZenonT(60) DEF Mine, TypeOK, vmload_host, Registers
  <2> QED
    BY <2>1
    DEF TypeOK, vmload_host, Step, vcpuVars, pcpuVars, schedVars, Steps,
        LockedSteps, RunSteps
<1>3. SchedOK'
  BY <1>1 DEF Mine, TypeOK, SchedOK, vmload_host, Step, vcpuVars, pcpuVars,
     schedVars, PinnedSteps, GifOffSteps
<1>4. LockOK'
  BY <1>1 DEF Mine, TypeOK, LockOK, vmload_host, Step, vcpuVars, pcpuVars,
     schedVars, LockedSteps, RunSteps, WaitSteps
<1>5. RegsOK'
  BY <1>1 DEF Mine, TypeOK, LockOK, RegsOK, vmload_host, Step, vcpuVars,
     pcpuVars, schedVars, LockedSteps, RunSteps, UserRegs, Vmcb
<1>6. StateOK'
  BY <1>1 DEF Mine, TypeOK, LockOK, StateOK, vmload_host, Step, vcpuVars,
     pcpuVars, schedVars, LockedSteps, RunSteps, Vmcb
<1>7. GuestOK'
  BY <1>1 DEF Mine, TypeOK, GuestOK, vmload_host, Step, vcpuVars, pcpuVars,
     schedVars, Registers
<1>8. HostOK'
  BY <1>1 DEF Mine, TypeOK, LockOK, HostOK, IsHost, vmload_host, Step,
     vcpuVars, pcpuVars, schedVars, Registers, LockedSteps, RunSteps
<1> QED BY <1>2, <1>3, <1>4, <1>5, <1>6, <1>7, <1>8

(* stgi: the host's state is complete again.                                *)
LEMMA StgiStep ==
  ASSUME IInv, NEW t \in Threads, NEW k \in Pcpus, stgi(t, k)
  PROVE  IInv'
<1> USE DEF IInv
<1>1. Mine(t, k)
  BY LockedThread DEF stgi, Step, LockedSteps, RunSteps
<1>2. TypeOK'
  BY <1>1 DEF Mine, TypeOK, stgi, Step, vcpuVars, pcpuVars, schedVars, Steps,
     LockedSteps, RunSteps
<1>3. SchedOK'
  BY <1>1 DEF Mine, TypeOK, SchedOK, stgi, Step, vcpuVars, pcpuVars,
     schedVars, PinnedSteps, GifOffSteps
<1>4. LockOK'
  BY <1>1 DEF Mine, TypeOK, LockOK, stgi, Step, vcpuVars, pcpuVars,
     schedVars, LockedSteps, RunSteps, WaitSteps
<1>5. RegsOK'
  BY <1>1 DEF Mine, TypeOK, LockOK, RegsOK, stgi, Step, vcpuVars, pcpuVars,
     schedVars, LockedSteps, RunSteps, UserRegs, Vmcb
<1>6. StateOK'
  BY <1>1 DEF Mine, TypeOK, LockOK, StateOK, stgi, Step, vcpuVars, pcpuVars,
     schedVars, LockedSteps, RunSteps, Vmcb
<1>7. GuestOK'
  BY <1>1 DEF Mine, TypeOK, GuestOK, stgi, Step, vcpuVars, pcpuVars,
     schedVars, Registers
<1>8. HostOK'
  BY <1>1 DEF Mine, TypeOK, LockOK, HostOK, IsHost, stgi, Step, vcpuVars,
     pcpuVars, schedVars, Registers, LockedSteps, RunSteps
<1> QED BY <1>2, <1>3, <1>4, <1>5, <1>6, <1>7, <1>8

(* preempt_enable().                                                        *)
LEMMA PreemptEnableStep ==
  ASSUME IInv, NEW t \in Threads, NEW k \in Pcpus, preempt_enable(t, k)
  PROVE  IInv'
<1> USE DEF IInv
<1>1. Mine(t, k)
  BY LockedThread DEF preempt_enable, Step, LockedSteps, RunSteps
<1>2. TypeOK'
  BY <1>1 DEF Mine, TypeOK, preempt_enable, Step, vcpuVars, pcpuVars,
     schedVars, Steps, LockedSteps, RunSteps
<1>3. SchedOK'
  BY <1>1 DEF Mine, TypeOK, SchedOK, preempt_enable, Step, vcpuVars,
     pcpuVars, schedVars, PinnedSteps, GifOffSteps
<1>4. LockOK'
  BY <1>1 DEF Mine, TypeOK, LockOK, preempt_enable, Step, vcpuVars, pcpuVars,
     schedVars, LockedSteps, RunSteps, WaitSteps
<1>5. RegsOK'
  BY <1>1 DEF Mine, TypeOK, LockOK, RegsOK, preempt_enable, Step, vcpuVars,
     pcpuVars, schedVars, LockedSteps, RunSteps, UserRegs, Vmcb
<1>6. StateOK'
  BY <1>1 DEF Mine, TypeOK, LockOK, StateOK, preempt_enable, Step, vcpuVars,
     pcpuVars, schedVars, LockedSteps, RunSteps, Vmcb
<1>7. GuestOK'
  BY <1>1 DEF Mine, TypeOK, GuestOK, preempt_enable, Step, vcpuVars,
     pcpuVars, schedVars, Registers
<1>8. HostOK'
  BY <1>1 DEF Mine, TypeOK, LockOK, HostOK, IsHost, preempt_enable, Step,
     vcpuVars, pcpuVars, schedVars, Registers, LockedSteps, RunSteps
<1> QED BY <1>2, <1>3, <1>4, <1>5, <1>6, <1>7, <1>8

(* The exit is copied to the state page.                                    *)
LEMMA ShareStep ==
  ASSUME IInv, NEW t \in Threads, NEW k \in Pcpus, yakvm_vcpu_share_err_to_user(t, k)
  PROVE  IInv'
<1> USE DEF IInv
<1>1. Mine(t, k)
  BY LockedThread DEF yakvm_vcpu_share_err_to_user, Step, LockedSteps,
     RunSteps
<1>2. TypeOK'
  BY <1>1 DEF Mine, TypeOK, yakvm_vcpu_share_err_to_user, Step, vcpuVars,
     pcpuVars, schedVars, Steps, LockedSteps, RunSteps, Vmcb
<1>3. SchedOK'
  BY <1>1 DEF Mine, TypeOK, SchedOK, yakvm_vcpu_share_err_to_user, Step,
     vcpuVars, pcpuVars, schedVars, PinnedSteps, GifOffSteps
<1>4. LockOK'
  BY <1>1 DEF Mine, TypeOK, LockOK, yakvm_vcpu_share_err_to_user, Step,
     vcpuVars, pcpuVars, schedVars, LockedSteps, RunSteps, WaitSteps
<1>5. RegsOK'
  BY <1>1 DEF Mine, TypeOK, LockOK, RegsOK, yakvm_vcpu_share_err_to_user,
     Step, vcpuVars, pcpuVars, schedVars, LockedSteps, RunSteps, UserRegs,
     Vmcb
<1>6. StateOK'
  BY <1>1 DEF Mine, TypeOK, LockOK, StateOK, yakvm_vcpu_share_err_to_user,
     Step, vcpuVars, pcpuVars, schedVars, LockedSteps, RunSteps, Vmcb
<1>7. GuestOK'
  BY <1>1 DEF Mine, TypeOK, GuestOK, yakvm_vcpu_share_err_to_user, Step,
     vcpuVars, pcpuVars, schedVars, Registers
<1>8. HostOK'
  BY <1>1 DEF Mine, TypeOK, LockOK, HostOK, IsHost,
     yakvm_vcpu_share_err_to_user, Step, vcpuVars, pcpuVars, schedVars,
     Registers, LockedSteps, RunSteps
<1> QED BY <1>2, <1>3, <1>4, <1>5, <1>6, <1>7, <1>8

(* mutex_lock_killable() gives the thread a vcpu that is in order.          *)
LEMMA LockStep ==
  ASSUME IInv, NEW t \in Threads, NEW k \in Pcpus,
         NEW ioctl \in WaitSteps, NEW first \in {"run", "get_save", "set_gctx"},
         mutex_lock_killable(t, k, ioctl, first)
  PROVE  IInv'
<1> USE DEF IInv
<1>1. /\ t # NULL /\ run[k] = t /\ pc[t] \in WaitSteps /\ arg[t] \in Vcpus
      /\ lock[arg[t]] = NULL
      /\ lock' = [lock EXCEPT ![arg[t]] = t]
      /\ pc' = [pc EXCEPT ![t] = first]
      /\ UNCHANGED <<gctx, vmcb, hctx, hvmcb, hsave, state, arg, regs, cpu, msr,
                     gif, guest, run, saved, pinned>>
  BY ConstantsAssumption DEF mutex_lock_killable, Step, LockOK, pcpuVars,
     schedVars
<1>2. TypeOK'
  BY <1>1 DEF TypeOK, Steps, LockedSteps, RunSteps
<1>3. SchedOK'
  BY <1>1 DEF TypeOK, SchedOK, PinnedSteps, GifOffSteps, WaitSteps
<1>4. LockOK'
  BY <1>1, ConstantsAssumption DEF TypeOK, LockOK, LockedSteps, RunSteps,
     WaitSteps
<1>5. RegsOK'
  BY <1>1 DEF TypeOK, RegsOK, LockedSteps, RunSteps, WaitSteps
<1>6. StateOK'
  BY <1>1 DEF TypeOK, StateOK, LockedSteps, RunSteps, WaitSteps
<1>7. GuestOK'
  BY <1>1 DEF TypeOK, GuestOK, WaitSteps
<1>8. HostOK'
  BY <1>1 DEF TypeOK, HostOK, IsHost, WaitSteps
<1> QED BY <1>2, <1>3, <1>4, <1>5, <1>6, <1>7, <1>8

(* A thread that calls, or is killed while it waits, has no lock.           *)
LEMMA CallStep ==
  ASSUME IInv, NEW t \in Threads, NEW to \in WaitSteps \union {"idle"},
         NEW c \in Vcpus \union {NULL}, to # "idle" => c \in Vcpus,
         NEW r \in UserRegs, r.gpr = All(r.core),
         pc[t] \in WaitSteps \union {"idle"},
         pc' = [pc EXCEPT ![t] = to],
         arg' = [arg EXCEPT ![t] = c],
         regs' = [regs EXCEPT ![t] = r],
         UNCHANGED <<vcpuVars, pcpuVars, schedVars>>
  PROVE  IInv'
<1> USE DEF IInv, vcpuVars, pcpuVars, schedVars
<1>2. TypeOK'
  BY DEF TypeOK, Steps, WaitSteps
<1>3. SchedOK'
  BY DEF TypeOK, SchedOK, PinnedSteps, GifOffSteps, WaitSteps
<1>4. LockOK'
  BY DEF TypeOK, LockOK, LockedSteps, RunSteps, WaitSteps
<1>5. RegsOK'
  BY DEF TypeOK, RegsOK, LockedSteps, RunSteps, WaitSteps
<1>6. StateOK'
  BY DEF TypeOK, StateOK, LockedSteps, RunSteps, WaitSteps
<1>7. GuestOK'
  BY DEF TypeOK, GuestOK, WaitSteps
<1>8. HostOK'
  BY DEF TypeOK, HostOK, IsHost, WaitSteps
<1> QED BY <1>2, <1>3, <1>4, <1>5, <1>6, <1>7, <1>8

(* user space calls an ioctl.                                               *)
LEMMA IoctlStep ==
  ASSUME IInv, NEW t \in Threads, NEW c \in Vcpus, NEW ioctl \in WaitSteps,
         yakvm_vcpu_ioctl(t, c, ioctl)
  PROVE  IInv'
<1>1. PICK v \in Values, b \in CsBases :
        regs' = [regs EXCEPT ![t] = [gpr |-> All(v), core |-> v, cs |-> b % U16]]
  BY DEF yakvm_vcpu_ioctl
<1> DEFINE r == [gpr |-> All(v), core |-> v, cs |-> b % U16]
<1>2. r \in UserRegs /\ r.gpr = All(r.core)
  BY ConstantsAssumption DEF UserRegs, All
<1>3. ioctl # "idle"
  BY DEF WaitSteps
<1> QED
  BY <1>1, <1>2, <1>3, CallStep DEF yakvm_vcpu_ioctl

(* A thread is killed while it waits for the lock.                          *)
LEMMA KilledStep ==
  ASSUME IInv, NEW t \in Threads, mutex_lock_killed(t)
  PROVE  IInv'
BY NoRegsType, CallStep DEF mutex_lock_killed, Waiting, WaitSteps

(* The guest changes guest values only.                                     *)
LEMMA GuestStep ==
  ASSUME IInv, NEW k \in Pcpus, guest_step(k)
  PROVE  IInv'
<1> USE DEF IInv
<1>1. PICK v \in Values :
        cpu' = [cpu EXCEPT ![k] = [gpr |-> All(v), core |-> v, sys |-> v]]
  BY DEF guest_step
<1>2. UNCHANGED <<lock, gctx, vmcb, hctx, hvmcb, hsave, state, msr, gif, guest,
                  run, saved, pinned, pc, arg, regs>>
  BY DEF guest_step, vcpuVars, schedVars, threadVars
<1>3. run[k] \in Threads /\ pc[run[k]] = "guest"
  BY DEF guest_step, SchedOK, TypeOK
<1>4. TypeOK'
  <2>1. [gpr |-> All(v), core |-> v, sys |-> v] \in Registers
    BY DEF Registers, Value, All
  <2> QED BY <1>1, <1>2, <2>1 DEF TypeOK
<1>5. SchedOK' /\ LockOK' /\ RegsOK' /\ StateOK'
  BY <1>2 DEF SchedOK, LockOK, RegsOK, StateOK
<1>6. GuestOK'
  BY <1>1, <1>2 DEF TypeOK, GuestOK
<1>7. HostOK'
  BY <1>1, <1>2, <1>3 DEF TypeOK, HostOK, IsHost
<1> QED BY <1>4, <1>5, <1>6, <1>7

(* The scheduler switches threads only where the processor has the state of *)
(* the one that leaves.                                                     *)
LEMMA SchedStep ==
  ASSUME IInv, NEW k \in Pcpus, NEW t \in Threads, sched(k, t)
  PROVE  IInv'
<1> USE DEF IInv
<1>1. /\ \A j \in Pcpus : run[j] # t
      /\ gif[k] /\ run[k] \notin pinned
      /\ run' = [run EXCEPT ![k] = t]
      /\ cpu' = [cpu EXCEPT ![k] = saved[t]]
      /\ saved' = [u \in Threads |-> IF u = run[k] THEN cpu[k] ELSE saved[u]]
      /\ UNCHANGED <<msr, gif, guest, pinned, lock, gctx, vmcb, hctx, hvmcb,
                     hsave, state, pc, arg, regs>>
  BY DEF sched, vcpuVars, threadVars
<1>2. t # NULL /\ t \notin pinned /\ pc[t] \notin PinnedSteps
  BY <1>1, ConstantsAssumption DEF SchedOK
<1>3. run[k] # NULL => pc[run[k]] \notin PinnedSteps
  BY <1>1 DEF SchedOK, TypeOK
<1>4. TypeOK'
  BY <1>1 DEF TypeOK
<1>5. SchedOK'
  BY <1>1, <1>2, <1>3 DEF TypeOK, SchedOK, PinnedSteps, GifOffSteps
<1>6. LockOK' /\ RegsOK' /\ StateOK'
  BY <1>1 DEF LockOK, RegsOK, StateOK
<1>7. GuestOK'
  BY <1>1, <1>2 DEF TypeOK, GuestOK, PinnedSteps
<1>8. HostOK'
  <2>1. IsHost(cpu'[k], t)
    BY <1>1 DEF TypeOK, HostOK
  <2>2. ASSUME NEW u \in Threads, \A j \in Pcpus : run'[j] # u
        PROVE  IsHost(saved'[u], u)
    <3>1. CASE u = run[k]
      BY <1>1, <1>2, <1>3, <3>1, ConstantsAssumption DEF TypeOK, HostOK,
         PinnedSteps
    <3>2. CASE u # run[k]
      BY <1>1, <2>2, <3>2 DEF TypeOK, HostOK
    <3> QED BY <3>1, <3>2
  <2>3. ASSUME NEW j \in Pcpus, j # k
        PROVE  run'[j] = run[j] /\ cpu'[j] = cpu[j]
    BY <1>1, <2>3 DEF TypeOK
  <2> QED
    BY <1>1, <1>2, <2>1, <2>2, <2>3 DEF TypeOK, HostOK, PinnedSteps
<1> QED BY <1>4, <1>5, <1>6, <1>7, <1>8

-----------------------------------------------------------------------------
(* Before any ioctl, every thread has its own state.                        *)
LEMMA InitIInv == Init => IInv
<1> SUFFICES ASSUME Init PROVE IInv
  OBVIOUS
<1> USE DEF Init
<1>1. TypeOK
  <2>1. All(AnyValue) \in [Gpr -> Values] /\ All(NULL) \in [Gpr -> Value]
    BY NoRegsType DEF All, Value
  <2>2. [core |-> AnyValue, cs |-> ResetCs, sys |-> AnyValue, exit |-> AnyValue]
          \in Vmcb
    BY NoRegsType, ConstantsAssumption DEF Vmcb
  <2>3. [gpr |-> All(NULL), core |-> NULL, sys |-> NULL] \in Registers
    BY <2>1 DEF Registers, Value
  <2>4. \A t \in Threads : HostRegisters(t) \in Registers
    BY DEF HostRegisters, Registers, All, Value
  <2> QED
    BY <2>1, <2>2, <2>3, <2>4, NoRegsType DEF TypeOK, Steps, Value
<1>2. SchedOK
  BY DEF SchedOK, PinnedSteps
<1>3. LockOK /\ StateOK
  BY DEF LockOK, StateOK, LockedSteps, RunSteps, WaitSteps
<1>4. RegsOK
  BY NoRegsType DEF RegsOK, LockedSteps, RunSteps
<1>5. GuestOK
  BY DEF GuestOK
<1>6. HostOK
  BY DEF HostOK, IsHost, HostRegisters, All, CalleeSaved, Gpr
<1> QED BY <1>1, <1>2, <1>3, <1>4, <1>5, <1>6 DEF IInv

(* Every step keeps the invariant.                                          *)
LEMMA NextIInv == IInv /\ [Next]_vars => IInv'
<1> SUFFICES ASSUME IInv, [Next]_vars PROVE IInv'
  OBVIOUS
<1>1. CASE UNCHANGED vars
  BY <1>1 DEF vars, IInv, TypeOK, SchedOK, LockOK, RegsOK, StateOK, GuestOK,
     HostOK, IsHost
<1>2. ASSUME NEW t \in Threads, NEW k \in Pcpus, yakvm_vcpu_run(t, k)
      PROVE  IInv'
  <2>1. CASE mutex_lock_killable(t, k, "lock_run", "run")
    BY <2>1, LockStep DEF WaitSteps
  <2> QED
    BY <1>2, <2>1, PreemptDisableStep, HsaveMsrStep, ClgiStep, VmsaveStep,
       VmrunStep, VmexitStep, VmloadStep, StgiStep, PreemptEnableStep, ShareStep
       DEF yakvm_vcpu_run
<1>3. ASSUME NEW t \in Threads, NEW k \in Pcpus, yakvm_vcpu_regs(t, k)
      PROVE  IInv'
  <2>1. CASE mutex_lock_killable(t, k, "lock_get", "get_save")
    BY <2>1, LockStep DEF WaitSteps
  <2>2. CASE mutex_lock_killable(t, k, "lock_set", "set_gctx")
    BY <2>2, LockStep DEF WaitSteps
  <2> QED
    BY <1>3, <2>1, <2>2, GetSaveStep, GetGctxStep, SetGctxStep, SetSaveStep
       DEF yakvm_vcpu_regs
<1>4. ASSUME NEW t \in Threads, UserCall(t)
      PROVE  IInv'
  BY <1>4, IoctlStep DEF UserCall, WaitSteps
<1> QED
  BY <1>1, <1>2, <1>3, <1>4, UnlockStep, KilledStep, GuestStep, SchedStep
     DEF Next, ThreadStep

(* The inductive invariant holds in every reachable state of the ioctls and *)
(* the world switch.                                                        *)
THEOREM Invariance == Spec => []IInv
BY InitIInv, NextIInv, PTL DEF Spec

(* Every register, lock and page of the model keeps its type: in particular *)
(* no value of the host gets into a vmcb, gctx or struct registers, since   *)
(* host and guest values are disjoint.                                      *)
THEOREM TypeCorrectness == Spec => []TypeOK
<1>1. IInv => TypeOK
  BY DEF IInv
<1> QED BY <1>1, Invariance, PTL

(* yakvm_vcpu_run() gives every thread its host state back, wherever the    *)
(* scheduler moves threads between processors.                              *)
THEOREM HostIntactTheorem == Spec => []HostIntact
<1>1. IInv => HostIntact
  BY DEF IInv, TypeOK, SchedOK, HostOK, HostIntact, GifOffSteps
<1> QED BY <1>1, Invariance, PTL

(* A guest in execution has the msr of its processor, its vcpu's hsave page *)
(* and its vcpu for itself.                                                 *)
THEOREM HsaveExclusiveTheorem == Spec => []HsaveExclusive
<1>1. IInv => HsaveExclusive
  <2> SUFFICES ASSUME IInv, NEW k \in Pcpus, guest[k] # NULL
               PROVE  /\ msr[k] = guest[k]
                      /\ hsave[guest[k]] = run[k]
                      /\ \A j \in Pcpus : guest[j] = guest[k] => j = k
    BY DEF HsaveExclusive
  <2>1. \A j \in Pcpus : guest[j] # NULL =>
          /\ run[j] \in Threads /\ run[j] # NULL
          /\ pc[run[j]] = "guest" /\ guest[j] = arg[run[j]]
          /\ lock[guest[j]] = run[j]
    BY DEF IInv, TypeOK, SchedOK, LockOK, LockedSteps, RunSteps
  <2>2. \A j \in Pcpus : guest[j] = guest[k] => j = k
    BY <2>1 DEF IInv, SchedOK
  <2> QED BY <2>1, <2>2 DEF IInv, HostOK
<1> QED BY <1>1, Invariance, PTL

(* The registers of a guest and those an ioctl returns are of one moment.   *)
THEOREM RegsNotTornTheorem == Spec => []RegsNotTorn
<1>1. IInv => RegsNotTorn
  BY DEF IInv, RegsOK, RegsNotTorn
<1> QED BY <1>1, Invariance, PTL

(* The state page is current whenever the vcpu's lock is free.              *)
THEOREM StateFreshTheorem == Spec => []StateFresh
<1>1. IInv => StateFresh
  BY DEF IInv, StateOK, StateFresh
<1> QED BY <1>1, Invariance, PTL
=============================================================================
