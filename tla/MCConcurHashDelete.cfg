\* Two threads call the table as they like: four keys in one bucket, four addresses.
\* What delete says.  The stack stands still.
CONSTANTS
  t1 = t1
  t2 = t2
  t3 = t3
  n1 = n1
  n2 = n2
  n3 = n3
  NULL = NULL
  Threads = {t1, t2, t3}
  Nodes = {n1, n2, n3}
  Values = {1, 2}
  a = a
  b = b
  h1 = h1
  h2 = h2
  h3 = h3
  h4 = h4
  Testers = {a, b}
  HashTestSize = 2
  NumBuckets = 1
  Addresses = {h1, h2, h3, h4}
SPECIFICATION CallsSpec
PROPERTY DeleteAnswer
