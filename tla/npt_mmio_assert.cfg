SPECIFICATION Spec
CONSTANTS
  t1 = t1
  t2 = t2
  m1 = m1
  m2 = m2
  Vmms = {m1}
  Threads = {t1, t2}
  ThreadsOf <- Separate
  Pages = {1, 2, 3, 4, 5, 6, 7, 8, 9}
  Pick <- FirstFree
  MayFail = TRUE
  Fanout = 2
  Span <- TwoEntrySpan
  Gfns = {0, 1}
  Offsets = {0}
  MmioGfn = 0
  NULL = NULL
INVARIANTS
  PresentAssertHolds
