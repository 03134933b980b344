------------------------------ MODULE SquareUdp ------------------------------
(* The square service over UDP (lab3 partA square-server-udp.c, square-client-udp.c):
   questions and answers are datagrams, which the network may lose, repeat and
   reorder.  The server keeps nothing from one datagram to the next; a client sends
   one and takes whatever datagram arrives next for its answer, without a timeout. *)
EXTENDS Integers, Sequences, BagsExt, SquareReply

CONSTANTS Clients, Lines,       \* what a user types
          MaxAsked, MaxFaults   \* bounds: questions and failed datagrams per client
VARIABLES client,               \* client[c]: "ask", "wait", "gone"
          sent, told,           \* what it asked, and what it took for the answers
          requests, replies,    \* bags of datagrams under way, <<client, text>>
          lost, repeated        \* how many of each client's datagrams were
vars == <<client, sent, told, requests, replies, lost, repeated>>
network == <<requests, replies, lost, repeated>>

NoneUnderWay == [d \in {} |-> 0]
Init == /\ client = [c \in Clients |-> "ask"]
        /\ sent = [c \in Clients |-> <<>>] /\ told = [c \in Clients |-> <<>>]
        /\ requests = NoneUnderWay /\ replies = NoneUnderWay
        /\ lost = [c \in Clients |-> 0] /\ repeated = [c \in Clients |-> 0]

(* fgets() at the end of the input leaves the last answer in the buffer, and the
   client asks it; "bye" is for the client alone. *)
LeftInBuffer(c) == IF told[c] = <<>> THEN Garbage ELSE told[c][Len(told[c])]
Ask(c) == /\ client[c] = "ask" /\ Len(sent[c]) < MaxAsked
          /\ \E t \in (Lines \ {Bye}) \cup {LeftInBuffer(c)} :
                /\ sent' = [sent EXCEPT ![c] = Append(@, t)]
                /\ requests' = BagAdd(requests, <<c, t>>)
          /\ client' = [client EXCEPT ![c] = "wait"]
          /\ UNCHANGED <<told, replies, lost, repeated>>
SayBye(c) == /\ client[c] = "ask" /\ Bye \in Lines
             /\ client' = [client EXCEPT ![c] = "gone"]
             /\ UNCHANGED <<sent, told, network>>
Receive(c) == /\ client[c] = "wait"
              /\ \E d \in DOMAIN replies :
                    /\ d[1] = c
                    /\ told' = [told EXCEPT ![c] = Append(@, d[2])]
                    /\ replies' = BagRemove(replies, d)
              /\ client' = [client EXCEPT ![c] = "ask"]
              /\ UNCHANGED <<sent, requests, lost, repeated>>

(* Mutant: the question is sent back as it came. *)
Echo(d) == d
AnswerTo(d) == <<d[1], Reply(d[2])>>
(* The server: recvfrom(), then sendto() to where the datagram came from. *)
Answer == \E d \in DOMAIN requests :
            /\ requests' = BagRemove(requests, d)
            /\ replies' = BagAdd(replies, AnswerTo(d))
            /\ UNCHANGED <<client, sent, told, lost, repeated>>

Spare(c) == lost[c] + repeated[c] < MaxFaults
Lose == \E d \in DOMAIN requests \cup DOMAIN replies :
          /\ Spare(d[1])
          /\ lost' = [lost EXCEPT ![d[1]] = @ + 1]
          /\ \/ d \in DOMAIN requests /\ requests' = BagRemove(requests, d) /\ UNCHANGED replies
             \/ d \in DOMAIN replies /\ replies' = BagRemove(replies, d) /\ UNCHANGED requests
          /\ UNCHANGED <<client, sent, told, repeated>>
Repeat == \E d \in DOMAIN requests \cup DOMAIN replies :
            /\ Spare(d[1])
            /\ repeated' = [repeated EXCEPT ![d[1]] = @ + 1]
            /\ \/ d \in DOMAIN requests /\ requests' = BagAdd(requests, d) /\ UNCHANGED replies
               \/ d \in DOMAIN replies /\ replies' = BagAdd(replies, d) /\ UNCHANGED requests
            /\ UNCHANGED <<client, sent, told, lost>>

Next == \/ \E c \in Clients : Ask(c) \/ SayBye(c) \/ Receive(c)
        \/ Answer \/ Lose \/ Repeat
Spec == /\ Init /\ [][Next]_vars
        /\ WF_vars(Answer) /\ \A c \in Clients : WF_vars(Receive(c))

------------------------------------------------------------------------------
(* What a client takes for the answer to a question is the answer to one it asked by
   then; once none of its datagrams was repeated, the answer to that very question. *)
AnswersOwn ==
    \A c \in Clients : \A k \in DOMAIN told[c] :
      /\ \E j \in 1..k : told[c][k] = Reply(sent[c][j])
      /\ repeated[c] = 0 => told[c][k] = Reply(sent[c][k])

(* A client waits for ever only when the network lost a datagram of its. *)
AnsweredUnlessLost ==
    \A c \in Clients : client[c] = "wait" ~> client[c] # "wait" \/ lost[c] > 0
==============================================================================
