SPECIFICATION FairSpec
CONSTANTS
  Vcpus = {c1}
  Threads = {t1, t2}
  Pcpus = {k1}
  Values = {1, 2}
  CsBases = {0, 12}
  ResetCs = 12
  U16 = 4
  NULL = NULL
PROPERTIES
  IoctlReturns
