SPECIFICATION Spec
CONSTANTS
  Vcpus = {c1, c2}
  Threads = {t1, t2}
  Pcpus = {k1, k2}
  Values = {1, 2}
  CsBases = {0}
  ResetCs = 0
  U16 = 4
  NULL = NULL
SYMMETRY Symmetry
INVARIANTS
  TypeOK
  HostIntact
  HsaveExclusive
  RegsNotTorn
  StateFresh
