\* Three threads, two iterations each: the assertion of the program.
CONSTANTS
  t1 = t1
  t2 = t2
  t3 = t3
  Threads = {t1, t2, t3}
  Iterations = 2
SPECIFICATION Spec
INVARIANT NumAtJoin
\* The program ends.
CHECK_DEADLOCK FALSE
