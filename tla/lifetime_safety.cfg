SPECIFICATION Spec
CONSTANTS
  Vms = {v1, v2}
  Vcpus = {c1, c2}
  Threads = {t1, t2}
  NASID = 5
  NULL = NULL
SYMMETRY Symmetry
INVARIANTS
  TypeOK
  NoUseAfterFree
  RefcountExact
  NoLeak
  OneVcpuPerVm
  AsidUnique
PROPERTIES
  VcpuForGood
  ImplementsContract
