------------------------------ MODULE MCVcpuRun -----------------------------
(* VcpuRun for TLC: vcpus, threads and processors are interchangeable.     *)
EXTENDS VcpuRun, TLC

Symmetry == Permutations(Vcpus) \union Permutations(Threads)
              \union Permutations(Pcpus)
=============================================================================
