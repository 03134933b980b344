------------------------------ MODULE MCThreads ------------------------------
(***************************************************************************)
(* Model checking of the programs of threads that share a buffer or a      *)
(* counter: the producers and consumers of lab4 partB (ProducerConsumer)   *)
(* and the connection buffer of lab3 partA (Sbuf); the semaphore of lab4   *)
(* partC (Sema), the four programs of Counters, and those that only create *)
(* threads and join them (ForkJoin).  prog says which of the modules the   *)
(* behaviour runs; the others stay as they start.                          *)
(***************************************************************************)
EXTENDS ProducerConsumer

CONSTANTS Workers, Items, Length, IntMax, MaxInserts, \* of Sbuf; Workers remove
          Countings, Decrementers,      \* the threads that count, those that count down
          Iterations, Permits,
          Jobs, Limits                  \* of ForkJoin: how many squares to add up

VARIABLES prog,
          buf, front, rear, lock, slots, items, at, held, inserts, queue,
          value, num, spc, val, tmp, left,
          program, holder, count, acnt, cpc, reg, togo,
          limit, created, tids, running, finished, joined, res, sum

sbufVars == <<buf, front, rear, lock, slots, items, at, held, inserts, queue>>
semaVars == <<value, num, spc, val, tmp, left>>
counterVars == <<program, holder, count, acnt, cpc, reg, togo>>
forkVars == <<limit, created, tids, running, finished, joined, res, sum>>
allVars == <<prog, vars, sbufVars, semaVars, counterVars, forkVars>>

Sb == INSTANCE Sbuf WITH Consumers <- Workers, n <- Length,
                         mutex <- lock, pc <- at, item <- held
Se == INSTANCE Sema WITH Threads <- Countings, pc <- spc
C == INSTANCE Counters WITH Threads <- Countings, pc <- cpc, tmp <- reg, left <- togo
F == INSTANCE ForkJoin WITH N <- Jobs, Results <- [i \in 1..Jobs |-> (i - 1) * (i - 1)]

ASSUME Assumptions == /\ Sb!SbufAssumption /\ Se!SemaAssumption
                      /\ C!CountersAssumption /\ F!ForkJoinAssumption

MCInit == /\ Init /\ Sb!Init /\ Se!Init /\ C!Init /\ F!Init
          /\ prog \in {"producer-consumer", "sbuf", "sema", "counters", "fork"}
          /\ prog # "sbuf" => \A i \in DOMAIN buf : buf[i] = CHOOSE j \in Items : TRUE
          /\ prog # "counters" => program = "atomic"
          /\ prog # "fork" => limit = CHOOSE l \in Limits : TRUE

MCNext ==
  /\ \/ prog = "producer-consumer" /\ Next /\ UNCHANGED <<sbufVars, semaVars, counterVars, forkVars>>
     \/ prog = "sbuf" /\ Sb!Next /\ UNCHANGED <<vars, semaVars, counterVars, forkVars>>
     \/ prog = "sema" /\ Se!Next /\ UNCHANGED <<vars, sbufVars, counterVars, forkVars>>
     \/ prog = "counters" /\ C!Next /\ UNCHANGED <<vars, sbufVars, semaVars, forkVars>>
     \/ prog = "fork" /\ F!Next /\ UNCHANGED <<vars, sbufVars, semaVars, counterVars>>
  /\ UNCHANGED prog

MCSpec == /\ MCInit /\ [][MCNext]_allVars
          /\ \A t \in Threads : WF_vars(prog = "producer-consumer" /\ Step(t))
          /\ \A t \in Producers : WF_sbufVars(prog = "sbuf" /\ Sb!Produce(t))
          /\ \A t \in Workers : WF_sbufVars(prog = "sbuf" /\ Sb!Consume(t))
          /\ \A t \in Countings : /\ WF_semaVars(prog = "sema" /\ Se!Step(t))
                                  /\ WF_counterVars(prog = "counters" /\ C!Step(t))
          /\ WF_forkVars(prog = "fork" /\ F!Run)
          /\ WF_forkVars(prog = "fork" /\ (F!Create \/ F!Join))

-----------------------------------------------------------------------------
(* sbuf.c: threads exclude each other at the ring, find there what their      *)
(* semaphore promised them (lines 5, 15), and what the comments say of front  *)
(* and rear (sbuf.c:27, sbuf.h:14-15) is true at every step.                  *)
SbufPromises == Sb!TypeOK /\ Sb!MutualExclusion /\ Sb!PromiseKept /\ Sb!FrontAndRear

(* Both buffers are queues: a consumer gets the oldest item, each item goes   *)
(* to one consumer, and none is overwritten before it is taken.               *)
BuffersAreFifo == ImplementsFifo /\ Sb!ImplementsFifo

(* Producers and consumers keep exchanging items unless they wake for no      *)
(* reason for ever; what is inserted in the connection buffer is removed.     *)
BuffersFlow == /\ prog = "producer-consumer" => ItemsFlow
               /\ prog = "sbuf" => Sb!Drained

(* sema.c: no permit is forged or lost (see Sema).                            *)
PermitsConserved == Se!PermitsConserved

(* What the programs assert when main has joined its threads: race_condition.c, *)
(* mutex.c and spinlock.c of partB and atomic.c (AtJoin of Counters), and     *)
(* square.c:40 (SumAtJoin of ForkJoin).                                       *)
JoinedWithTheSum == C!AtJoin /\ F!SumAtJoin

(* A count++ or count-- under a mutex, a spinlock or the semaphore's one      *)
(* permit is as good as one step.                                             *)
CountsAtomically == Se!ImplementsCounter /\ C!ImplementsAtomic

(* Every main reaches the end of its joins.                                   *)
MainsEnd == /\ prog = "sema" => Se!Terminates
            /\ prog = "counters" => C!AllJoin
            /\ prog = "fork" => F!JoinsEnd
==============================================================================
