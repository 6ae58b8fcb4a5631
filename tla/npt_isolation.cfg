SPECIFICATION Spec
CONSTANTS
  t1 = t1
  t2 = t2
  m1 = m1
  m2 = m2
  Vmms = {m1, m2}
  Threads = {t1}
  ThreadsOf <- Shared
  Pages = {1, 2, 3, 4, 5, 6, 7, 8, 9, 10, 11}
  Pick <- FirstFree
  MayFail = FALSE
  Fanout = 2
  Span <- TwoEntrySpan
  Gfns = {1}
  Offsets = {0}
  MmioGfn = 0
  NULL = NULL
INVARIANTS
  GuestsIsolated
PROPERTIES
  ImplementsMemory
