\* producer-consumer.c: two producers and three consumers, a ring of two slots.
\* sbuf.c: two producers and two consumers, a ring of two slots, four inserts.
\* The counters: three threads that iterate twice, one of which counts down where the
\* program has such; one permit.  Four threads to create, where the system has room for
\* three or for all.
CONSTANTS
  p1 = p1
  p2 = p2
  c1 = c1
  c2 = c2
  c3 = c3
  t1 = t1
  t2 = t2
  t3 = t3
  x = x
  y = y
  NULL = NULL
  Producers = {p1, p2}
  Consumers = {c1, c2, c3}
  N = 2
  Workers = {c1, c2}
  Items = {x, y}
  Length = 2
  IntMax = 7
  MaxInserts = 4
  Countings = {t1, t2, t3}
  Decrementers = {t1}
  Iterations = 2
  Permits = 1
  Jobs = 4
  Limits = {3, 4}
SPECIFICATION MCSpec
INVARIANTS MutexDiscipline NotAllAsleep SbufPromises PermitsConserved JoinedWithTheSum
PROPERTIES BuffersAreFifo BuffersFlow CountsAtomically MainsEnd
\* The programs that count end, and the consumers of sbuf wait for ever once every
\* insert has been taken out.
CHECK_DEADLOCK FALSE
