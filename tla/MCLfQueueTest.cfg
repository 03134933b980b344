\* The test program: two threads that enqueue, two that dequeue, and main; TESTSIZE is 1.
CONSTANTS
  m = m
  a1 = a1
  a2 = a2
  b1 = b1
  b2 = b2
  d = d
  n1 = n1
  n2 = n2
  n3 = n3
  n4 = n4
  NULL = NULL
  Main = m
  Producers = {m, a1, a2}
  Consumers = {b1, b2}
  Nodes = {d, n1, n2, n3, n4}
  Dummy = d
  TestSize = 1
  Values = {1}
SPECIFICATION TestSpec
INVARIANTS NoCrash NoDequeueComesBackEmpty
\* The test ends.
CHECK_DEADLOCK FALSE
