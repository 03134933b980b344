\* test-stack.c with its two pushers and two poppers and TESTSIZE = 1: its assertion.
CONSTANTS
  m = m
  a1 = a1
  a2 = a2
  b1 = b1
  b2 = b2
  n1 = n1
  n2 = n2
  n3 = n3
  n4 = n4
  NULL = NULL
  Threads = {m, a1, a2, b1, b2}
  Main = m
  Pushers = {a1, a2}
  Poppers = {b1, b2}
  Nodes = {n1, n2, n3, n4}
  TestSize = 1
  Values = {1}
SPECIFICATION TestSpec
INVARIANT SizeAtJoin
\* The test ends.
CHECK_DEADLOCK FALSE
