---------------------------- MODULE AbstractQueue ----------------------------
(***************************************************************************)
(* What the lock-free queue of lab4 partE promises when one thread at a    *)
(* time enqueues.  It is a first-in first-out queue with two particulars:  *)
(* it starts with a 0 in it (the dummy node), and its last element is      *)
(* never handed out, so a dequeue of a queue of one answers -1 and every   *)
(* value comes out one dequeue later than in a plain queue.                *)
(***************************************************************************)
EXTENDS Integers, Sequences

CONSTANTS Threads, Values

VARIABLES queue,        \* the contents, oldest first
          op            \* op[t]: the call thread t is in, or its last answer

vars == <<queue, op>>

NoValue == -1
Op(k, v) == [kind |-> k, val |-> v]

Init == /\ queue = <<0>>
        /\ op = [t \in Threads |-> Op("idle", NoValue)]

CallEnqueue(t, v) == /\ op[t].kind = "idle"
                     /\ op' = [op EXCEPT ![t] = Op("enqueue", v)]
                     /\ UNCHANGED queue

CallDequeue(t) == /\ op[t].kind = "idle"
                  /\ op' = [op EXCEPT ![t] = Op("dequeue", NoValue)]
                  /\ UNCHANGED queue

DoEnqueue(t) == /\ op[t].kind = "enqueue"
                /\ queue' = Append(queue, op[t].val)
                /\ op' = [op EXCEPT ![t] = Op("done", NoValue)]

DoDequeue(t) == /\ op[t].kind = "dequeue"
                /\ \/ /\ Len(queue) > 1
                      /\ op' = [op EXCEPT ![t] = Op("done", Head(queue))]
                      /\ queue' = Tail(queue)
                   \/ /\ Len(queue) = 1
                      /\ op' = [op EXCEPT ![t] = Op("done", NoValue)]
                      /\ UNCHANGED queue

Return(t) == /\ op[t].kind = "done"
             /\ op' = [op EXCEPT ![t] = Op("idle", op[t].val)]
             /\ UNCHANGED queue

Next == \E t \in Threads : \/ \E v \in Values : CallEnqueue(t, v)
                           \/ CallDequeue(t)
                           \/ DoEnqueue(t)
                           \/ DoDequeue(t)
                           \/ Return(t)

Spec == Init /\ [][Next]_vars
==============================================================================
