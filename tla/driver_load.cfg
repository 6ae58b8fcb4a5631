SPECIFICATION Spec
CONSTANTS
  Vms = {v1, v2}
  Pcpus = {k1, k2}
  Booted = {k1}
  SvmCpus = {k1, k2}
  Gfns = {1}
  MmioGfn = 0
  Pages = {p1, p2}
  NASID = 4
  MaxLoads = 2
  NULL = NULL
SYMMETRY Symmetry
CHECK_DEADLOCK FALSE
INVARIANTS
  TypeOK
  SvmeBeforeSvm
  TlbCoherentWithinLoad
