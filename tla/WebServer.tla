------------------------------ MODULE WebServer ------------------------------
(* The web server (lab3 partA web-server.c): main() accepts and serves one client at
   a time; its four workers stay in sbuf_remove() because the insert (157) is
   commented out.  A client connects, may send a request, and may leave at any time;
   read() may fail for one that has left.  A write to a client that has left is accepted
   once; a later one ends the server with SIGPIPE if the reset has come back by then. *)
EXTENDS Integers, Sequences, FiniteSets

CONSTANTS Clients, Paths,
          Contents,             \* Contents[p]: the bytes of file p
          BodySize, Nul, Junk,  \* sizeof(body); a NUL; a byte some other call left in memory
          Requests,             \* <<method, path>>, or <<"garbage">>, which sscanf() does not parse
          MaxDescriptors        \* bound of limit
ASSUME WebAssumption == /\ MaxDescriptors \in Nat \ {0} /\ IsFiniteSet(Clients)
                        /\ "nobody" \notin Clients /\ <<"none">> \notin Requests
                        /\ BodySize \in Nat /\ Nul # Junk
                        /\ \A p \in Paths : /\ Len(Contents[p]) \in Nat
                                            /\ DOMAIN Contents[p] = 1..Len(Contents[p])

VARIABLES files,                \* the files under web_root
          client,               \* client[c]: "new", "connected", "sent", "left"
          request, answer,      \* what a client sent and the texts it was sent back, in order
          backlog,              \* connections not accepted yet
          open,                 \* clients whose socket the server holds
          reset,                \* clients that have answered a write with a reset
          serving, pc,          \* the client being served, and main()'s next step
          body,                 \* the bytes of serve_client()'s array, never cleared
          limit                 \* how many descriptors there are for clients and files
vars == <<files, client, request, answer, backlog, open, reset, serving, pc, body, limit>>
clientVars == <<client, request>>

NoRequest == <<"none">>
Nobody == "nobody"
Method(c) == request[c][1]
Path(c) == request[c][2]
File(c) == Contents[Path(c)]

Init == /\ files \in SUBSET Paths
        /\ client = [c \in Clients |-> "new"] /\ request = [c \in Clients |-> NoRequest]
        /\ answer = [c \in Clients |-> <<>>]
        /\ backlog = <<>> /\ open = {} /\ reset = {}
        /\ serving = Nobody /\ pc = "accept"
        /\ body \in [1..BodySize -> {Nul, Junk}] /\ limit \in 1..MaxDescriptors

Connect(c) == /\ client[c] = "new"
              /\ client' = [client EXCEPT ![c] = "connected"]
              /\ backlog' = Append(backlog, c)
              /\ UNCHANGED <<files, request, answer, open, reset, serving, pc, body, limit>>
Send(c) == /\ client[c] = "connected"
           /\ \E r \in Requests : request' = [request EXCEPT ![c] = r]
           /\ client' = [client EXCEPT ![c] = "sent"]
           /\ UNCHANGED <<files, answer, backlog, open, reset, serving, pc, body, limit>>
Leave(c) == /\ client[c] \in {"connected", "sent"}
            /\ client' = [client EXCEPT ![c] = "left"]
            /\ UNCHANGED <<files, request, answer, backlog, open, reset, serving, pc, body, limit>>

(* accept(); with no descriptor left it fails and is tried again for ever. *)
Accept == /\ pc = "accept" /\ backlog # <<>> /\ Cardinality(open) < limit
          /\ serving' = Head(backlog) /\ backlog' = Tail(backlog)
          /\ open' = open \cup {serving'}
          /\ pc' = "read"
          /\ UNCHANGED <<files, clientVars, answer, reset, body, limit>>

(* read() and sscanf(): a client that left without a word reads as an empty request. *)
Read == /\ pc = "read" /\ client[serving] # "connected"
        /\ pc' = CASE request[serving] = NoRequest \/ Method(serving) = "garbage" -> "bad"
                   [] request[serving] # NoRequest /\ Method(serving) = "GET" -> "get"
                   [] request[serving] # NoRequest /\ Method(serving) = "DELETE" -> "delete"
                   [] OTHER -> "not_allowed"
        /\ UNCHANGED <<files, clientVars, answer, backlog, open, reset, serving, body, limit>>
(* read() fails: serve_client() returns at once, no answer, no close(). *)
ReadFails == /\ pc = "read" /\ client[serving] = "left"
             /\ pc' = "accept" /\ serving' = Nobody
             /\ UNCHANGED <<files, clientVars, answer, backlog, open, reset, body, limit>>

(* write() to the client being served. *)
Write(text, next) ==
    IF client[serving] = "left"
      THEN /\ \/ pc' = next /\ reset' = reset \cup {serving}
              \/ serving \in reset /\ pc' = "killed" /\ UNCHANGED reset
           /\ UNCHANGED answer
      ELSE /\ answer' = [answer EXCEPT ![serving] = Append(@, text)]
           /\ pc' = next /\ UNCHANGED reset

BadRequest == /\ pc = "bad" /\ Write(<<"400">>, "close")
              /\ UNCHANGED <<files, clientVars, backlog, open, serving, body, limit>>
(* Mutant: the same request is read again. *)
ReadAgain == "read"
AfterRefusal == "close"
NotAllowed == /\ pc = "not_allowed" /\ Write(<<"405">>, AfterRefusal)
              /\ UNCHANGED <<files, clientVars, backlog, open, serving, body, limit>>

(* fopen() takes a descriptor for a while.  GET of a file that cannot be opened
   returns at once: no answer, no close(). *)
CanOpen(p) == p \in files /\ Cardinality(open) < limit
GetMissing == /\ pc = "get" /\ ~CanOpen(Path(serving))
              /\ pc' = "accept" /\ serving' = Nobody
              /\ UNCHANGED <<files, clientVars, answer, backlog, open, reset, body, limit>>
(* fread() puts the file at the start of body; behind it lies what the answers before
   have left there, or what other calls have left of that. *)
GetHeader == /\ pc = "get" /\ CanOpen(Path(serving))
             /\ \E kept \in SUBSET (1..BodySize), noise \in [1..BodySize -> {Nul, Junk}] :
                  body' = [i \in 1..BodySize |-> IF i \in DOMAIN File(serving) THEN File(serving)[i]
                                                 ELSE IF i \in kept THEN body[i] ELSE noise[i]]
             /\ Write(<<"200">>, "body")
             /\ UNCHANGED <<files, clientVars, backlog, open, serving, limit>>
(* Mutant: the whole array is sent. *)
IsSize(n) == n = BodySize
(* strlen(body): as far as its first NUL; without one it runs on behind the array,
   BodySize + 1 standing for any length it may find there. *)
IsStrlen(n) == /\ \A i \in 1..n : i <= BodySize => body[i] # Nul
               /\ n < BodySize => body[n + 1] = Nul
GetBody == /\ pc = "body"
           /\ \E n \in 0..BodySize + 1 :
                /\ IsStrlen(n)
                /\ Write([i \in 1..n |-> IF i <= BodySize THEN body[i] ELSE Junk], "close")
           /\ UNCHANGED <<files, clientVars, backlog, open, serving, body, limit>>

(* DELETE removes the file; the response it composes is never written. *)
Delete == /\ pc = "delete"
          /\ files' = files \ {Path(serving)}
          /\ pc' = "close"
          /\ UNCHANGED <<clientVars, answer, backlog, open, reset, serving, body, limit>>

(* Mutant: nothing is closed. *)
LeftOpen == open
Closed == open \ {serving}
Close == /\ pc = "close"
         /\ open' = Closed
         /\ pc' = "accept" /\ serving' = Nobody
         /\ UNCHANGED <<files, clientVars, answer, backlog, reset, body, limit>>

Server == \/ Accept \/ Read \/ ReadFails \/ BadRequest \/ NotAllowed
          \/ GetMissing \/ GetHeader \/ GetBody \/ Delete \/ Close
Next == Server \/ \E c \in Clients : Connect(c) \/ Send(c) \/ Leave(c)
Spec == Init /\ [][Next]_vars /\ WF_vars(Server)

------------------------------------------------------------------------------
Leaked(c) == c \in open /\ c # serving

(* The sockets the server holds: the one it serves, and for good those of clients it
   told nothing: they left before they were read, or sent a GET for a file that is not
   there (any more), or one that took the last descriptor, which leaves none for the
   file nor for anyone after it. *)
OnlyUnansweredLeak ==
    /\ serving # Nobody => serving \in open
    /\ \A c \in Clients : Leaked(c) =>
         /\ answer[c] = <<>>
         /\ \/ client[c] = "left"
            \/ /\ Method(c) = "GET"
               /\ Path(c) \in files => serving = Nobody /\ Cardinality(open) = limit

(* The files somebody, anybody, asked for. *)
Asked == {File(d) : d \in {e \in Clients : Method(e) = "GET"}}
(* A byte that is not of the file asked for: something left in memory, or the byte that
   stands at that place in a file of another answer. *)
Stale(i, byte, asked) == byte = Junk \/ \E file \in asked : i \in DOMAIN file /\ byte = file[i]
(* The file, as far as body holds it and up to its first NUL; then stale bytes. *)
Fits(text, file, asked) ==
    /\ \A i \in DOMAIN text :
         IF i <= BodySize /\ i \in DOMAIN file THEN text[i] = file[i] ELSE Stale(i, text[i], asked)
    /\ \A i \in (1..BodySize) \cap DOMAIN file :
         i \in DOMAIN text \/ \E j \in 1..i : file[j] = Nul

(* A client is told what belongs to its own request, and never more than one answer;
   the stale bytes behind a file are all that another one's request may add to it. *)
AnswersFit ==
    \A c \in Clients :
      LET told == answer[c]
      IN \/ told = <<>>
         \/ /\ Method(c) = "GET" /\ told[1] = <<"200">> /\ Len(told) \in {1, 2}
            /\ Len(told) = 2 => Fits(told[2], File(c), Asked)
         \/ Method(c) = "garbage" /\ told = <<<<"400">>>>
         \/ Method(c) \notin {"GET", "DELETE", "garbage"} /\ told = <<<<"405">>>>

Stuck == \/ pc = "killed"
         \/ pc = "read" /\ client[serving] = "connected"
         \/ pc = "accept" /\ Cardinality(open) = limit
Dealt(c) == c \notin open /\ \A i \in DOMAIN backlog : backlog[i] # c

(* Whoever sends a request is dealt with and its socket closed - unless it leaks (a GET
   whose file cannot be opened, a read that fails), or the server waits for a client
   that says nothing, was killed by SIGPIPE, or is out of descriptors because of leaks. *)
RequestsAreServed ==
    \A c \in Clients : (client[c] = "sent") ~> (Dealt(c) \/ Leaked(c) \/ Stuck)
==============================================================================
