\* test-stack.c with one pusher, one popper and TESTSIZE = 2.
CONSTANTS
  m = m
  a1 = a1
  b1 = b1
  n1 = n1
  n2 = n2
  n3 = n3
  n4 = n4
  NULL = NULL
  Threads = {m, a1, b1}
  Main = m
  Pushers = {a1}
  Poppers = {b1}
  Nodes = {n1, n2, n3, n4}
  TestSize = 2
  Values = {1}
SPECIFICATION TestSpec
INVARIANTS NoPopComesBackEmpty ContentsAtJoin
PROPERTY Terminates
\* The test ends.
CHECK_DEADLOCK FALSE
