SPECIFICATION FairSpec
CONSTANTS
  Vms = {v1}
  Vcpus = {c1, c2}
  Threads = {t1, t2}
  NASID = 4
  NULL = NULL
PROPERTIES
  HandlersReturn
  AbandonedVmDestroyed
