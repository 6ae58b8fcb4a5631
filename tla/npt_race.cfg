SPECIFICATION Spec
CONSTANTS
  t1 = t1
  t2 = t2
  m1 = m1
  m2 = m2
  Vmms = {m1}
  Threads = {t1, t2}
  ThreadsOf <- Shared
  Pages = {1, 2, 3, 4, 5, 6, 7, 8, 9}
  Pick <- FirstFree
  MayFail = TRUE
  Fanout = 2
  Span <- TwoEntrySpan
  Gfns = {1, 2}
  Offsets = {0, 1}
  MmioGfn = 0
  NULL = NULL
INVARIANTS
  EntriesWellFormed
  OneParent
  WalkersSafe
  PageRefsExact
