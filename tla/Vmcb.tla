-------------------------------- MODULE Vmcb --------------------------------
(***************************************************************************)
(* The control block of a vcpu (include/cpu.h, driver/cpu.c): what of its  *)
(* guest is intercepted, and with which code the guest exits.              *)
(*                                                                         *)
(* Registers are the sets of their bits that are one, by name; those that  *)
(* only describe segments are left out.                                    *)
(***************************************************************************)
EXTENDS Integers

(* enum: an intercept is a bit of the six words at the start of the vmcb.   *)
MAX_INTERCEPT == 6
INTERCEPT_EXCEPTION_OFFSET == 64
INTERCEPT_HLT == 120
INTERCEPT_IOIO_PROT == 123
INTERCEPT_SHUTDOWN == 127
INTERCEPT_VMRUN == 128
DB_VECTOR == 1

(* Exit codes.                                                              *)
SVM_EXIT_EXCP_BASE == 64
SVM_EXIT_HLT == 120
SVM_EXIT_IOIO == 123
SVM_EXIT_SHUTDOWN == 127
SVM_EXIT_VMRUN == 128
SVM_EXIT_NPF == 1024
SVM_EXIT_INVALID == -1

(* The page is zero when it is allocated.                                   *)
ZeroVmcb ==
  [intercepts |-> [w \in 0 .. MAX_INTERCEPT - 1 |-> {}],
   iopm |-> {}, nested_ctl |-> {}, asid |-> 0,
   cr0 |-> {}, rflags |-> {}, efer |-> {}]

(* __set_bit() counts on in the next word.                                  *)
yakvm_vmcb_set_intercept(vmcb, bit) ==
  [vmcb EXCEPT !.intercepts[bit \div 32] = @ \union {bit % 32}]

(* Mutant: the vector is not counted from the word of the exceptions.       *)
set_exception_intercept_word0(vmcb, bit) == yakvm_vmcb_set_intercept(vmcb, bit)

yakvm_vmcb_set_exception_intercept(vmcb, bit) ==
  yakvm_vmcb_set_intercept(vmcb, INTERCEPT_EXCEPTION_OFFSET + bit)

(* The state after a reset, single-stepped, with its memory behind the      *)
(* nested page table and the port of the device intercepted.                *)
yakvm_vcpu_init_vmcb(vmcb, port, asid) ==
  LET save == [intercepts |-> vmcb.intercepts,
               iopm |-> vmcb.iopm \union {port},
               nested_ctl |-> vmcb.nested_ctl \union {"NP_ENABLE"},
               asid |-> asid,
               cr0 |-> {"NW", "CD", "ET"},
               rflags |-> {"FIXED", "TF"},
               efer |-> vmcb.efer \union {"SVME"}]
      db == yakvm_vmcb_set_exception_intercept(save, DB_VECTOR)
      halt == yakvm_vmcb_set_intercept(db, INTERCEPT_HLT)
      ioio == yakvm_vmcb_set_intercept(halt, INTERCEPT_IOIO_PROT)
  IN yakvm_vmcb_set_intercept(ioio, INTERCEPT_VMRUN)

-----------------------------------------------------------------------------
(* The processor: which bit it looks at, and the checks of vmrun, without   *)
(* which the guest exits with VMEXIT_INVALID.                               *)
Intercepted(vmcb, bit) == bit % 32 \in vmcb.intercepts[bit \div 32]

Consistent(vmcb) ==
  /\ "SVME" \in vmcb.efer
  /\ ~("NW" \in vmcb.cr0 /\ "CD" \notin vmcb.cr0)
  /\ Intercepted(vmcb, INTERCEPT_VMRUN)
  /\ vmcb.asid # 0
=============================================================================
