\* Three threads share a stack on which at most two pushes happen.
CONSTANTS
  t1 = t1
  t2 = t2
  t3 = t3
  n1 = n1
  n2 = n2
  NULL = NULL
  Threads = {t1, t2, t3}
  Nodes = {n1, n2}
  Values = {1, 2}
SPECIFICATION Spec
INVARIANTS TypeOK ListRep PopOwnsNode
PROPERTIES PublishedFrozen ImplementsStack
