---------------------------- MODULE MCVmLifetime ----------------------------
(* VmLifetime for TLC: the objects and the threads are interchangeable.    *)
EXTENDS VmLifetime, TLC

Symmetry == Permutations(Vms) \union Permutations(Vcpus)
              \union Permutations(Threads)
=============================================================================
