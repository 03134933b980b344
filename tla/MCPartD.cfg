\* The stack: three threads; three addresses, which pop frees and malloc reuses.
\* The hash test: two threads, two keys for each, one bucket for all.
CONSTANTS
  t1 = t1
  t2 = t2
  t3 = t3
  n1 = n1
  n2 = n2
  n3 = n3
  NULL = NULL
  Threads = {t1, t2, t3}
  Nodes = {n1, n2, n3}
  Values = {1, 2}
  a = a
  b = b
  h1 = h1
  h2 = h2
  h3 = h3
  h4 = h4
  Testers = {a, b}
  HashTestSize = 2
  NumBuckets = 1
  Addresses = {h1, h2, h3, h4}
SPECIFICATION MCSpec
SYMMETRY Perms
INVARIANTS MutexDiscipline SizeIsLength HeapIsOwned TableOwnsHeap HashTestPasses
PROPERTIES ImplementsStack
\* The hash test ends.
CHECK_DEADLOCK FALSE
