------------------------------ MODULE ForkJoin -------------------------------
(* The programs that create threads, each with its own argument, and sum up what the
   joins return: lab4 partA square.c (and lec5/test.c) and pi.c, where the argument is
   allocated for the thread.  pthread_create() is not checked: past the system's limit
   it fails and leaves tids[i] unset; the join of that is undefined - here it returns
   an error at once, and res stays what it was. *)
EXTENDS Integers, FiniteSets

CONSTANTS N,                    \* threads, numbered 1..N
          Results,              \* Results[i]: what thread i computes of its argument
          Limits                \* how many threads the system may have room for
ForkJoinAssumption == N \in Nat

VARIABLES limit, created, tids, running, finished, joined, res, sum
vars == <<limit, created, tids, running, finished, joined, res, sum>>

Unset == 0
Init == /\ limit \in Limits
        /\ created = 0 /\ tids = [i \in 1..N |-> Unset]
        /\ running = {} /\ finished = {}
        /\ joined = 0 /\ res = 0 /\ sum = 0

(* A thread that has finished keeps its stack until it is joined. *)
Create == /\ created < N
          /\ created' = created + 1
          /\ IF Cardinality(running \cup finished) < limit
               THEN tids' = [tids EXCEPT ![created'] = created'] /\ running' = running \cup {created'}
               ELSE UNCHANGED <<tids, running>>
          /\ UNCHANGED <<limit, finished, joined, res, sum>>
Run == \E i \in running : /\ running' = running \ {i} /\ finished' = finished \cup {i}
                          /\ UNCHANGED <<limit, created, tids, joined, res, sum>>

(* Mutant: the result of the thread joined before is added. *)
SummedLate == sum + res
Summed == sum + res'
(* pthread_join() of each in turn, and the sum of what they return. *)
Join == /\ created = N /\ joined < N
        /\ LET i == joined + 1
           IN \/ /\ tids[i] \in finished
                 /\ finished' = finished \ {tids[i]}
                 /\ res' = Results[tids[i]]
              \/ /\ tids[i] = Unset
                 /\ UNCHANGED <<finished, res>>
        /\ sum' = Summed
        /\ joined' = joined + 1
        /\ UNCHANGED <<limit, created, tids, running>>

Next == Create \/ Run \/ Join
Spec == Init /\ [][Next]_vars /\ WF_vars(Run) /\ WF_vars(Create \/ Join)

------------------------------------------------------------------------------
SumTo[i \in 0..N] == IF i = 0 THEN 0 ELSE SumTo[i - 1] + Results[i]

(* In whatever order the threads run, main() has the sum of all their results when it
   has joined them (the assertion of square.c) - unless a thread was never made. *)
SumAtJoin == joined = N /\ (\A i \in 1..N : tids[i] # Unset) => sum = SumTo[N]

(* The joins are all reached. *)
JoinsEnd == <>(joined = N)
==============================================================================
