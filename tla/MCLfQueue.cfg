\* One thread enqueues, twice at most, and two dequeue as often as they like.
CONSTANTS
  m = m
  b1 = b1
  b2 = b2
  d = d
  n1 = n1
  n2 = n2
  NULL = NULL
  Producers = {m}
  Consumers = {b1, b2}
  Nodes = {d, n1, n2}
  Dummy = d
  Values = {1, 2}
SPECIFICATION Spec
INVARIANT ListRep
PROPERTY ImplementsQueue
