----------------------------- MODULE VmContract -----------------------------
(***************************************************************************)
(* What the driver promises to the holders of its files, whatever happens  *)
(* inside: a vm comes into being with its file and gets at most one vcpu,  *)
(* which comes into being with its own file; the vm and the vcpu go away   *)
(* together, at the moment the last of the two files does.                 *)
(*                                                                         *)
(* VmLifetime, with its threads, locks, counts and unwinding, implements   *)
(* this; Driver and Emulator are built on it.                              *)
(***************************************************************************)
CONSTANT Vms

VARIABLES
  live,      \* the vms that exist
  vmFile,    \* the vms whose file is open
  cpuFile    \* the file of each vm's vcpu

contractVars == <<live, vmFile, cpuFile>>

Init ==
  /\ live = {}
  /\ vmFile = {}
  /\ cpuFile = [v \in Vms |-> "none"]

(* YAKVM_CREATE_VM returned a descriptor.                                   *)
CreateVm(v) ==
  /\ v \notin live
  /\ live' = live \union {v}
  /\ vmFile' = vmFile \union {v}
  /\ UNCHANGED cpuFile

(* YAKVM_CREATE_VCPU returned a descriptor; once only, a vcpu whose file is *)
(* closed still counts.                                                     *)
CreateVcpu(v) ==
  /\ v \in vmFile
  /\ cpuFile[v] = "none"
  /\ cpuFile' = [cpuFile EXCEPT ![v] = "open"]
  /\ UNCHANGED <<live, vmFile>>

(* The release of the one file keeps the vm for the other.                  *)
ReleaseVm(v) ==
  /\ v \in vmFile
  /\ vmFile' = vmFile \ {v}
  /\ \/ cpuFile[v] = "open" /\ UNCHANGED <<live, cpuFile>>
     \/ /\ cpuFile[v] # "open"
        /\ live' = live \ {v}
        /\ cpuFile' = [cpuFile EXCEPT ![v] = "none"]

ReleaseVcpu(v) ==
  /\ cpuFile[v] = "open"
  /\ UNCHANGED vmFile
  /\ \/ /\ v \in vmFile
        /\ cpuFile' = [cpuFile EXCEPT ![v] = "closed"]
        /\ UNCHANGED live
     \/ /\ v \notin vmFile
        /\ live' = live \ {v}
        /\ cpuFile' = [cpuFile EXCEPT ![v] = "none"]

Next ==
  \E v \in Vms : CreateVm(v) \/ CreateVcpu(v) \/ ReleaseVm(v) \/ ReleaseVcpu(v)

Spec == Init /\ [][Next]_contractVars
=============================================================================
