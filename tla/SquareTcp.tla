------------------------------ MODULE SquareTcp ------------------------------
(* The square service over TCP (lab3 partA square-server.c, square-client.c): the
   server talks to one client at a time until that one says bye or its connection
   ends; the others wait, their first question already sent.  A client asks, reads
   the answer into the same buffer, and asks again with what its user types. *)
EXTENDS Integers, Sequences, SquareReply

CONSTANTS Clients, Lines        \* what a user types

VARIABLES buffer, client,       \* client[c]: "new", "ask", "wait", "gone"
          typing,               \* clients whose standard input has not ended
          asked,                \* the text a client sent last
          up, down,             \* bytes under way: a text, or Nothing
          backlog, serving
vars == <<buffer, client, typing, asked, up, down, backlog, serving>>

Nobody == "nobody"

(* A client's buffer is not initialised. *)
Init == /\ buffer \in [Clients -> {Nothing, Garbage}]
        /\ client = [c \in Clients |-> "new"] /\ typing = Clients
        /\ asked = [c \in Clients |-> Nothing]
        /\ up = [c \in Clients |-> Nothing] /\ down = [c \in Clients |-> Nothing]
        /\ backlog = <<>> /\ serving = Nobody

Connect(c) == /\ client[c] = "new"
              /\ client' = [client EXCEPT ![c] = "ask"]
              /\ backlog' = Append(backlog, c)
              /\ UNCHANGED <<buffer, typing, asked, up, down, serving>>

(* write() of the buffer; an empty one sends nothing at all. *)
Say(c, t) == /\ asked' = [asked EXCEPT ![c] = t]
             /\ buffer' = [buffer EXCEPT ![c] = t]
             /\ up' = [up EXCEPT ![c] = t]
             /\ client' = [client EXCEPT ![c] = IF t = Bye THEN "gone" ELSE "wait"]
             /\ UNCHANGED <<down, backlog, serving>>
Ask(c) == /\ client[c] = "ask" /\ c \in typing
          /\ \E t \in Lines : Say(c, t)
          /\ UNCHANGED typing
(* fgets() at the end of the input leaves the buffer, which is sent once more. *)
AskAgain(c) == /\ client[c] = "ask"
               /\ Say(c, buffer[c])
               /\ typing' = typing \ {c}
Receive(c) == /\ client[c] = "wait" /\ down[c] # Nothing
              /\ buffer' = [buffer EXCEPT ![c] = down[c]]
              /\ down' = [down EXCEPT ![c] = Nothing]
              /\ client' = [client EXCEPT ![c] = "ask"]
              /\ UNCHANGED <<typing, asked, up, backlog, serving>>
(* The user interrupts the client. *)
Interrupt(c) == /\ client[c] \in {"ask", "wait"}
                /\ client' = [client EXCEPT ![c] = "gone"]
                /\ UNCHANGED <<buffer, typing, asked, up, down, backlog, serving>>

Accept == /\ serving = Nobody /\ backlog # <<>>
          /\ serving' = Head(backlog) /\ backlog' = Tail(backlog)
          /\ UNCHANGED <<buffer, client, typing, asked, up, down>>
(* Mutant: what was read is answered once more. *)
NotTaken == up
Taken == [up EXCEPT ![serving] = Nothing]
Answer == /\ serving # Nobody /\ up[serving] \notin {Nothing, Bye}
          /\ up' = Taken
          /\ down' = [down EXCEPT ![serving] = Reply(up[serving])]
          /\ UNCHANGED <<buffer, client, typing, asked, backlog, serving>>
(* Mutant: the end of the connection is not noticed. *)
NeverEnded == FALSE
Ended == up[serving] = Nothing /\ client[serving] = "gone"
(* "bye" was read, or read() finds the connection ended. *)
HangUp == /\ serving # Nobody
          /\ up[serving] = Bye \/ Ended
          /\ up' = Taken
          /\ serving' = Nobody
          /\ UNCHANGED <<buffer, client, typing, asked, down, backlog>>

Server == Accept \/ Answer \/ HangUp
Talk(c) == Ask(c) \/ AskAgain(c) \/ Receive(c) \/ Interrupt(c)
Next == Server \/ \E c \in Clients : Connect(c) \/ Talk(c)
Spec == Init /\ [][Next]_vars /\ WF_vars(Server) /\ \A c \in Clients : WF_vars(Receive(c))

------------------------------------------------------------------------------
(* A client that waits has one question or one answer under way, never both, the
   answer belongs to its question, and one that does not wait has none; only the
   client being served is answered. *)
AnswersMatch ==
    \A c \in Clients :
      /\ up[c] # Nothing => up[c] = asked[c] /\ down[c] = Nothing
      /\ down[c] # Nothing => down[c] = Reply(asked[c])
      /\ client[c] \in {"new", "ask"} => up[c] = Nothing /\ down[c] = Nothing

(* A client that asks is answered, or goes, or asked with an empty line, which is not
   sent at all, or waits behind a client that is still there. *)
EveryoneAnswered ==
    \A c \in Clients :
      client[c] = "wait" ~> \/ client[c] # "wait"
                            \/ asked[c] = Nothing
                            \/ serving # c /\ serving # Nobody /\ client[serving] # "gone"
==============================================================================
