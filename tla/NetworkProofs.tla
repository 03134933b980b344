---------------------------- MODULE NetworkProofs ----------------------------
(***************************************************************************)
(* Proofs about the programs of MCNetwork, for any clients, requests,      *)
(* lines, names and frames: the web server first, then the square services *)
(* over TCP and UDP, the tunnel, the sniffer and the forger; and what      *)
(* MCNetwork checks of all of them.                                        *)
(***************************************************************************)
EXTENDS MCNetwork, ProofFacts

-----------------------------------------------------------------------------
(***************************************************************************)
(* The web server.  What main() does next says what it knows of the client *)
(* it serves; whoever waits in the backlog has been told nothing and holds *)
(* no descriptor yet; and body holds what GETs have put there, or junk.    *)
(***************************************************************************)
WebLabels == {"accept", "read", "bad", "not_allowed", "get", "body", "delete", "close", "killed"}
WebTyped == /\ client \in [Clients -> {"new", "connected", "sent", "left"}]
            /\ request \in [Clients -> Requests \cup {NoRequest}]
            /\ answer = [c \in Clients |-> answer[c]]
            /\ backlog \in Seq(Clients) /\ open \in SUBSET Clients
            /\ pc \in WebLabels
            /\ serving \in IF pc = "accept" THEN {Nobody} ELSE open
            /\ files \subseteq Paths /\ limit \in Nat
            /\ Cardinality(open) \in Nat /\ Cardinality(open) <= limit

BacklogOK == /\ \A i, j \in DOMAIN backlog : backlog[i] = backlog[j] => i = j
             /\ \A i \in DOMAIN backlog : /\ backlog[i] \notin open
                                          /\ client[backlog[i]] # "new"
                                          /\ answer[backlog[i]] = <<>>

(* Who has sent nothing has no request, and is told nothing.                  *)
SilentOK == \A c \in Clients :
              /\ client[c] \in {"new", "connected"} => request[c] = NoRequest /\ answer[c] = <<>>
              /\ client[c] = "sent" => request[c] # NoRequest
              /\ client[c] = "new" => c \notin open

(* What main() has read from the client it serves, and told it so far.        *)
ServingOK ==
  /\ pc \in {"bad", "not_allowed", "get", "body", "delete", "close"} => client[serving] \in {"sent", "left"}
  /\ pc \in {"read", "bad", "not_allowed", "get"} => answer[serving] = <<>>
  /\ pc \in {"not_allowed", "get", "body"} => request[serving] # NoRequest
  /\ pc = "bad" => request[serving] = NoRequest \/ Method(serving) = "garbage"
  /\ pc = "not_allowed" => Method(serving) \notin {"GET", "DELETE", "garbage"}
  /\ pc \in {"get", "body"} => Method(serving) = "GET"
  /\ pc = "body" => Path(serving) \in Paths
  /\ pc = "body" /\ client[serving] # "left" => answer[serving] = <<<<"200">>>>

(* What lies in body, and what its start is when it is about to be sent.      *)
BodyOK == /\ \A i \in 1..BodySize : body[i] = Nul \/ Stale(i, body[i], Asked)
          /\ pc = "body" => \A i \in (1..BodySize) \cap DOMAIN File(serving) : body[i] = File(serving)[i]

WebIInv == /\ WebTyped /\ BacklogOK /\ SilentOK /\ ServingOK /\ BodyOK
           /\ OnlyUnansweredLeak /\ AnswersFit

LEMMA BacklogOfClients == WebTyped => \A i \in DOMAIN backlog : backlog[i] \in Clients
  BY DEF WebTyped

LEMMA AppendToShort ==
  ASSUME NEW x, NEW y
  PROVE  /\ Append(<<>>, x) = <<x>>
         /\ Len(Append(<<y>>, x)) = 2 /\ Append(<<y>>, x)[1] = y /\ Append(<<y>>, x)[2] = x
  <1> DEFINE S == {x, y}
  <1>1. <<>> \in Seq(S) /\ <<y>> \in Seq(S) /\ x \in S
    OBVIOUS
  <1>2. QED
    BY <1>1

(* What was stale or fitted does so still when more files have been asked for. *)
LEMMA MoreAsked ==
  ASSUME NEW A, NEW B, A \subseteq B
  PROVE  /\ \A i, byte : Stale(i, byte, A) => Stale(i, byte, B)
         /\ \A text, file : Fits(text, file, A) => Fits(text, file, B)
  <1>1. ASSUME NEW i, NEW byte, Stale(i, byte, A) PROVE Stale(i, byte, B)
    BY <1>1 DEF Stale
  <1>2. ASSUME NEW text, NEW file, Fits(text, file, A) PROVE Fits(text, file, B)
    BY <1>1, <1>2 DEF Fits
  <1>3. QED
    BY <1>1, <1>2

(* A step that answers nobody and takes no request back.                      *)
LEMMA NothingToldStep ==
  ASSUME AnswersFit, answer' = answer,
         \A c \in Clients : answer[c] # <<>> \/ Method(c) = "GET" => request'[c] = request[c]
  PROVE  Asked \subseteq Asked' /\ AnswersFit'
  <1>1. ASSUME NEW d \in Clients, request'[d] = request[d]
        PROVE  Method(d)' = Method(d) /\ Path(d)' = Path(d) /\ File(d)' = File(d)
    BY <1>1 DEF Method, Path, File
  <1>2. Asked \subseteq Asked'
    <2>1. \A d \in Clients : Method(d) = "GET" => Method(d)' = "GET" /\ File(d)' = File(d)
      BY <1>1
    <2>2. QED
      BY <2>1 DEF Asked
  <1>3. PICK A, B : A = Asked /\ B = Asked' /\ A \subseteq B
    BY <1>2
  <1>4. ASSUME NEW c \in Clients, answer[c] # <<>>
        PROVE  LET said == answer'[c]
               IN \/ /\ Method(c)' = "GET" /\ said[1] = <<"200">> /\ Len(said) \in {1, 2}
                     /\ Len(said) = 2 => Fits(said[2], File(c)', B)
                  \/ Method(c)' = "garbage" /\ said = <<<<"400">>>>
                  \/ Method(c)' \notin {"GET", "DELETE", "garbage"} /\ said = <<<<"405">>>>
    <2>1. PICK said, m, file : said = answer[c] /\ m = Method(c) /\ file = File(c)
      OBVIOUS
    <2>2. answer'[c] = said /\ Method(c)' = m /\ File(c)' = file
      BY <1>1, <1>4, <2>1
    <2>3. \/ /\ m = "GET" /\ said[1] = <<"200">> /\ Len(said) \in {1, 2}
             /\ Len(said) = 2 => Fits(said[2], file, A)
          \/ m = "garbage" /\ said = <<<<"400">>>>
          \/ m \notin {"GET", "DELETE", "garbage"} /\ said = <<<<"405">>>>
      BY <1>3, <1>4, <2>1 DEF AnswersFit
    <2>4. Fits(said[2], file, A) => Fits(said[2], file, B)
      BY ONLY <1>3, MoreAsked
    <2>5. QED
      BY <2>2, <2>3, <2>4
  <1>5. AnswersFit'
    BY <1>3, <1>4 DEF AnswersFit
  <1>6. QED
    BY <1>2, <1>5

(* The same of body, when nothing is read into it.                            *)
LEMMA BodyStays ==
  ASSUME BodyOK, body' = body, Asked \subseteq Asked',
         pc' = "body" => pc = "body" /\ File(serving)' = File(serving)
  PROVE  BodyOK'
  <1>1. PICK A, B : A = Asked /\ B = Asked' /\ A \subseteq B
    OBVIOUS
  <1>2. \A i \in 1..BodySize : body'[i] = Nul \/ Stale(i, body'[i], B)
    BY <1>1, MoreAsked DEF BodyOK
  <1>3. pc' = "body" => \A i \in (1..BodySize) \cap DOMAIN File(serving)' : body'[i] = File(serving)'[i]
    BY DEF BodyOK
  <1>4. QED
    BY <1>1, <1>2, <1>3 DEF BodyOK

LEMMA WebInit == Init => WebIInv
  <1> SUFFICES ASSUME Init PROVE WebIInv
    OBVIOUS
  <1>1. backlog = <<>> /\ DOMAIN backlog = {} /\ backlog \in Seq(Clients)
    BY DEF Init
  <1>2. WebTyped
    <2>1. limit \in Nat /\ Cardinality(open) = 0
      BY WebAssumption, FS_EmptySet DEF Init
    <2>2. QED
      BY <1>1, <2>1 DEF Init, WebTyped, WebLabels
  <1>3. BodyOK
    BY DEF Init, BodyOK, Stale
  <1>4. QED
    BY <1>1, <1>2, <1>3, WebAssumption
       DEF Init, WebIInv, BacklogOK, SilentOK, ServingOK, OnlyUnansweredLeak, Leaked, AnswersFit, Nobody

(* What the clients do. *)
LEMMA ConnectStep == ASSUME WebIInv, NEW c \in Clients, Connect(c) PROVE WebIInv'
  <1> USE DEF WebIInv
  <1>1. /\ client[c] = "new" /\ client' = [client EXCEPT ![c] = "connected"]
        /\ backlog' = Append(backlog, c)
        /\ files' = files /\ request' = request /\ answer' = answer /\ open' = open
        /\ serving' = serving /\ pc' = pc /\ body' = body /\ limit' = limit
    BY DEF Connect
  <1>2. \A d \in Clients : client'[d] = IF d = c THEN "connected" ELSE client[d]
    BY <1>1 DEF WebTyped
  <1>3. c \notin open /\ answer[c] = <<>> /\ request[c] = NoRequest /\ serving # c
    BY <1>1, WebAssumption DEF SilentOK, WebTyped, Nobody
  <1>4. WebTyped'
    <2>1. backlog' \in Seq(Clients)
      BY <1>1, AppendFacts DEF WebTyped
    <2>2. client' \in [Clients -> {"new", "connected", "sent", "left"}]
      BY <1>1 DEF WebTyped
    <2>3. QED
      BY <1>1, <2>1, <2>2 DEF WebTyped
  <1>5. BacklogOK'
    <2>1. /\ Len(backlog) \in Nat /\ DOMAIN backlog = 1..Len(backlog)
          /\ DOMAIN backlog' = 1..Len(backlog) + 1
          /\ backlog'[Len(backlog) + 1] = c
          /\ \A i \in 1..Len(backlog) : backlog'[i] = backlog[i] /\ backlog[i] \in Clients
      BY <1>1 DEF WebTyped
    <2>2. \A i \in DOMAIN backlog : backlog[i] # c
      BY <1>1 DEF BacklogOK
    <2>3. \A i \in DOMAIN backlog' : i \in 1..Len(backlog) \/ i = Len(backlog) + 1
      BY <2>1
    <2>4. \A i, j \in DOMAIN backlog' : backlog'[i] = backlog'[j] => i = j
      BY <2>1, <2>2, <2>3 DEF BacklogOK
    <2>5. c \notin open /\ answer[c] = <<>> /\ client'[c] # "new"
      BY <1>1, <1>2 DEF SilentOK
    <2>6. QED
      BY <1>1, <1>2, <2>1, <2>3, <2>4, <2>5 DEF BacklogOK
  <1>6. SilentOK'
    BY <1>1, <1>2 DEF SilentOK
  <1>7. ServingOK'
    BY <1>1, <1>2, <1>3 DEF ServingOK, Method, Path, SilentOK, WebTyped, Nobody
  <1>8. AnswersFit' /\ BodyOK'
    BY <1>1, NothingToldStep, BodyStays DEF File, Path
  <1>9. OnlyUnansweredLeak'
    BY <1>1, <1>2, <1>3 DEF OnlyUnansweredLeak, Leaked, Method, Path
  <1>10. QED
    BY <1>4, <1>5, <1>6, <1>7, <1>8, <1>9

LEMMA SendStep == ASSUME WebIInv, NEW c \in Clients, Send(c) PROVE WebIInv'
  <1> USE DEF WebIInv
  <1>1. PICK r \in Requests : request' = [request EXCEPT ![c] = r]
    BY DEF Send
  <1>2. /\ client[c] = "connected" /\ client' = [client EXCEPT ![c] = "sent"]
        /\ backlog' = backlog
        /\ files' = files /\ answer' = answer /\ open' = open
        /\ serving' = serving /\ pc' = pc /\ body' = body /\ limit' = limit
    BY DEF Send
  <1>3. r # NoRequest
    BY WebAssumption DEF NoRequest
  <1>4. \A d \in Clients : /\ client'[d] = IF d = c THEN "sent" ELSE client[d]
                           /\ request'[d] = IF d = c THEN r ELSE request[d]
    BY <1>1, <1>2 DEF WebTyped
  <1>5. answer[c] = <<>> /\ request[c] = NoRequest /\ Method(c) # "GET"
    BY <1>2 DEF SilentOK, Method, NoRequest
  <1>6. WebTyped'
    BY <1>1, <1>2 DEF WebTyped
  <1>7. BacklogOK'
    BY <1>2, <1>4, BacklogOfClients DEF BacklogOK
  <1>8. SilentOK'
    BY <1>2, <1>3, <1>4 DEF SilentOK
  <1>9. ServingOK'
    BY <1>2, <1>4 DEF ServingOK, Method, Path, WebTyped, WebLabels
  <1>10. OnlyUnansweredLeak'
    <2>1. ~Leaked(c)
      BY <1>2, <1>5 DEF OnlyUnansweredLeak
    <2>2. \A d \in Clients : Leaked(d)' => d # c /\ Leaked(d)
      BY <1>2, <2>1 DEF Leaked
    <2>3. QED
      BY <1>2, <1>4, <2>2 DEF OnlyUnansweredLeak, Method, Path
  <1>11. Asked \subseteq Asked' /\ AnswersFit'
    <2>1. \A d \in Clients : answer[d] # <<>> \/ Method(d) = "GET" => request'[d] = request[d]
      BY <1>4, <1>5
    <2>2. QED
      BY <1>2, <2>1, NothingToldStep
  <1>12. BodyOK'
    <2>1. pc = "body" => serving \in Clients /\ serving # c
      BY <1>2 DEF ServingOK, WebTyped
    <2>2. pc' = "body" => pc = "body" /\ File(serving)' = File(serving)
      BY <1>2, <1>4, <2>1 DEF File, Path
    <2>3. QED
      BY <1>2, <1>11, <2>2, BodyStays
  <1>13. QED
    BY <1>6, <1>7, <1>8, <1>9, <1>10, <1>11, <1>12

LEMMA LeaveStep == ASSUME WebIInv, NEW c \in Clients, Leave(c) PROVE WebIInv'
  <1> USE DEF WebIInv
  <1>1. /\ client[c] \in {"connected", "sent"} /\ client' = [client EXCEPT ![c] = "left"]
        /\ backlog' = backlog /\ request' = request
        /\ files' = files /\ answer' = answer /\ open' = open
        /\ serving' = serving /\ pc' = pc /\ body' = body /\ limit' = limit
    BY DEF Leave
  <1>2. \A d \in Clients : client'[d] = IF d = c THEN "left" ELSE client[d]
    BY <1>1 DEF WebTyped
  <1>3. WebTyped' /\ BacklogOK' /\ SilentOK'
    BY <1>1, <1>2 DEF WebTyped, BacklogOK, SilentOK
  <1>4. ServingOK'
    BY <1>1, <1>2 DEF ServingOK, Method, Path, WebTyped, WebLabels
  <1>5. AnswersFit' /\ BodyOK'
    BY <1>1, NothingToldStep, BodyStays DEF File, Path
  <1>6. OnlyUnansweredLeak'
    BY <1>1, <1>2 DEF OnlyUnansweredLeak, Leaked, Method, Path
  <1>7. QED
    BY <1>3, <1>4, <1>5, <1>6

(* What main() does. *)
LEMMA AcceptStep == ASSUME WebIInv, Accept PROVE WebIInv'
  <1> USE DEF WebIInv
  <1> DEFINE c == Head(backlog)
  <1>1. /\ pc = "accept" /\ pc' = "read" /\ serving' = c /\ open' = open \cup {c}
        /\ backlog # <<>> /\ backlog' = Tail(backlog) /\ Cardinality(open) < limit
        /\ files' = files /\ client' = client /\ request' = request /\ answer' = answer
        /\ body' = body /\ limit' = limit
    BY DEF Accept, clientVars
  <1>2. /\ Len(backlog) \in Nat \ {0} /\ DOMAIN backlog = 1..Len(backlog)
        /\ c = backlog[1] /\ 1 \in DOMAIN backlog
        /\ DOMAIN backlog' = 1..Len(backlog) - 1
        /\ \A i \in 1..Len(backlog) - 1 : backlog'[i] = backlog[i + 1] /\ i + 1 \in DOMAIN backlog
        /\ \A i \in DOMAIN backlog : backlog[i] \in Clients
        /\ backlog' \in Seq(Clients)
    BY <1>1 DEF WebTyped
  <1> HIDE DEF c
  <1>3. c \in Clients /\ c \notin open /\ client[c] # "new" /\ answer[c] = <<>>
    BY <1>2 DEF BacklogOK
  <1>4. WebTyped'
    <2>1. IsFiniteSet(open) /\ c \notin open
      BY <1>3, WebAssumption, FS_Subset DEF WebTyped
    <2>2. Cardinality(open \cup {c}) = Cardinality(open) + 1
      BY <2>1, CardFacts
    <2>3. Cardinality(open') \in Nat /\ Cardinality(open') <= limit
      BY <1>1, <2>2 DEF WebTyped
    <2>4. QED
      BY <1>1, <1>2, <1>3, <2>3 DEF WebTyped, WebLabels
  <1>5. BacklogOK'
    <2>1. \A i \in DOMAIN backlog' : backlog'[i] = backlog[i + 1] /\ i + 1 \in DOMAIN backlog /\ i + 1 # 1 /\ i \in Int
      BY <1>2
    <2>2. \A i \in DOMAIN backlog' : backlog'[i] # c
      BY <1>2, <2>1 DEF BacklogOK
    <2>3. \A i, j \in DOMAIN backlog' : backlog'[i] = backlog'[j] => i + 1 = j + 1
      BY <2>1 DEF BacklogOK
    <2>4. \A i, j \in DOMAIN backlog' : i + 1 = j + 1 => i = j
      BY <2>1
    <2>5. QED
      BY <1>1, <2>1, <2>2, <2>3, <2>4 DEF BacklogOK
  <1>6. SilentOK'
    BY <1>1, <1>3 DEF SilentOK
  <1>7. ServingOK'
    BY <1>1, <1>3 DEF ServingOK
  <1>8. OnlyUnansweredLeak'
    <2>1. \A d \in Clients : Leaked(d)' => Leaked(d)
      BY <1>1, WebAssumption DEF Leaked, WebTyped, Nobody
    <2>2. Cardinality(open) # limit
      BY <1>1 DEF WebTyped
    <2>3. QED
      BY <1>1, <2>1, <2>2 DEF OnlyUnansweredLeak, Method, Path
  <1>9. AnswersFit' /\ BodyOK'
    BY <1>1, NothingToldStep, BodyStays
  <1>10. QED
    BY <1>4, <1>5, <1>6, <1>7, <1>8, <1>9

LEMMA ReadStep == ASSUME WebIInv, Read PROVE WebIInv'
  <1> USE DEF WebIInv
  <1>1. /\ pc = "read" /\ client[serving] # "connected"
        /\ files' = files /\ client' = client /\ request' = request /\ answer' = answer
        /\ backlog' = backlog /\ open' = open /\ serving' = serving
        /\ body' = body /\ limit' = limit
    BY DEF Read, clientVars
  <1>2. \/ pc' = "bad" /\ (request[serving] = NoRequest \/ Method(serving) = "garbage")
        \/ pc' = "get" /\ request[serving] # NoRequest /\ Method(serving) = "GET"
        \/ pc' = "delete" /\ request[serving] # NoRequest /\ Method(serving) = "DELETE"
        \/ /\ pc' = "not_allowed" /\ request[serving] # NoRequest
           /\ Method(serving) \notin {"GET", "DELETE", "garbage"}
    BY DEF Read
  <1>3. serving \in Clients /\ serving \in open /\ client[serving] \in {"sent", "left"}
    BY <1>1 DEF WebTyped, SilentOK
  <1>4. WebTyped'
    BY <1>1, <1>2, <1>3 DEF WebTyped, WebLabels
  <1>5. ServingOK'
    BY <1>1, <1>2, <1>3 DEF ServingOK, Method
  <1>6. AnswersFit' /\ BodyOK'
    BY <1>1, <1>2, NothingToldStep, BodyStays
  <1>7. QED
    BY <1>1, <1>4, <1>5, <1>6 DEF BacklogOK, SilentOK, OnlyUnansweredLeak, Leaked, Method, Path

(* Something is written to the client that is served; before a header, the    *)
(* file has been read into body.                                              *)
LEMMA WriteStep ==
  ASSUME WebIInv, NEW text, NEW next \in {"close", "body"}, Write(text, next),
         pc \in {"bad", "not_allowed", "get", "body"},
         next = "body" => pc = "get" /\ text = <<"200">> /\ Path(serving) \in Paths,
         pc = "get" => next = "body",
         pc = "bad" => text = <<"400">>, pc = "not_allowed" => text = <<"405">>,
         pc = "body" => Fits(text, File(serving), Asked),
         \A i \in 1..BodySize : body'[i] = Nul \/ Stale(i, body'[i], Asked),
         next = "body" => \A i \in (1..BodySize) \cap DOMAIN File(serving) : body'[i] = File(serving)[i],
         files' = files, client' = client, request' = request,
         backlog' = backlog, open' = open, serving' = serving, limit' = limit
  PROVE  WebIInv'
  <1> USE DEF WebIInv
  <1>1. /\ serving \in Clients /\ serving \in open /\ serving # Nobody
        /\ client[serving] \in {"sent", "left"}
    BY WebAssumption DEF WebTyped, ServingOK, Nobody
  <1>2. pc' \in {next, "killed"} /\ pc' \in WebLabels /\ pc' # "accept"
    BY DEF Write, WebLabels
  <1>3. Asked' = Asked /\ \A d \in Clients : Method(d)' = Method(d) /\ Path(d)' = Path(d) /\ File(d)' = File(d)
    BY DEF Asked, Method, Path, File
  <1>4. BodyOK'
    BY <1>1, <1>2, <1>3 DEF BodyOK
  <1>5. CASE client[serving] = "left"
    <2>1. answer' = answer
      BY <1>5 DEF Write
    <2>2. WebTyped'
      BY <1>1, <1>2, <2>1 DEF WebTyped
    <2>3. ServingOK'
      BY <1>1, <1>2, <1>5, <2>1 DEF ServingOK, Method, Path
    <2>4. AnswersFit'
      BY <2>1, NothingToldStep
    <2>5. QED
      BY <1>4, <2>1, <2>2, <2>3, <2>4 DEF BacklogOK, SilentOK, OnlyUnansweredLeak, Leaked, Method, Path
  <1>6. CASE client[serving] # "left"
    <2>1. pc' = next /\ answer' = [answer EXCEPT ![serving] = Append(answer[serving], text)]
      BY <1>6 DEF Write
    <2>2. client[serving] = "sent" /\ request[serving] # NoRequest
      BY <1>1, <1>6 DEF SilentOK
    <2>3. \A d \in Clients : answer'[d] = IF d = serving THEN Append(answer[serving], text) ELSE answer[d]
      BY <1>1, <2>1 DEF WebTyped
    <2>4. WebTyped'
      <3>1. answer' = [c \in Clients |-> answer'[c]]
        BY <2>1 DEF WebTyped
      <3>2. QED
        BY <1>1, <1>2, <3>1 DEF WebTyped
    <2>5. \A i \in DOMAIN backlog : backlog[i] # serving /\ backlog[i] \in Clients
      BY <1>1, BacklogOfClients DEF BacklogOK
    <2>6. BacklogOK' /\ SilentOK'
      BY <2>2, <2>3, <2>5 DEF BacklogOK, SilentOK
    <2>7. PICK said : said = answer'[serving]
      OBVIOUS
    <2>8. /\ pc = "bad" => said = <<<<"400">>>>
          /\ pc = "not_allowed" => said = <<<<"405">>>>
          /\ pc = "get" => said = <<<<"200">>>>
          /\ pc = "body" => Len(said) = 2 /\ said[1] = <<"200">> /\ said[2] = text
      <3>1. CASE pc = "body"
        <4>1. said = Append(<<<<"200">>>>, text)
          BY <1>1, <1>6, <2>3, <2>7, <3>1 DEF ServingOK
        <4>2. QED
          BY <3>1, <4>1, AppendToShort
      <3>2. CASE pc # "body"
        <4>1. said = Append(<<>>, text)
          BY <1>1, <2>3, <2>7, <3>2 DEF ServingOK
        <4>2. said = <<text>>
          BY <4>1, AppendToShort
        <4>3. QED
          BY <3>2, <4>2
      <3>3. QED
        BY <3>1, <3>2
    <2>9. ServingOK'
      BY <1>1, <2>1, <2>2, <2>7, <2>8 DEF ServingOK, Method, Path
    <2>10. OnlyUnansweredLeak'
      BY <1>1, <2>3 DEF OnlyUnansweredLeak, Leaked, Method, Path
    <2>11. AnswersFit'
      <3>1. /\ pc = "bad" => Method(serving) = "garbage"
            /\ pc = "not_allowed" => Method(serving) \notin {"GET", "DELETE", "garbage"}
            /\ pc \in {"get", "body"} => Method(serving) = "GET"
        BY <2>2 DEF ServingOK
      <3>2. PICK A : A = Asked /\ A = Asked'
        BY <1>3
      <3>3. \/ /\ Method(serving)' = "GET" /\ said[1] = <<"200">> /\ Len(said) \in {1, 2}
               /\ Len(said) = 2 => Fits(said[2], File(serving)', A)
            \/ Method(serving)' = "garbage" /\ said = <<<<"400">>>>
            \/ Method(serving)' \notin {"GET", "DELETE", "garbage"} /\ said = <<<<"405">>>>
        <4>1. CASE pc \in {"bad", "not_allowed"}
          BY <1>1, <1>3, <2>8, <3>1, <4>1
        <4>2. CASE pc = "get"
          <5>1. said[1] = <<"200">> /\ Len(said) = 1
            BY <2>8, <4>2
          <5>2. QED
            BY <1>1, <1>3, <3>1, <4>2, <5>1
        <4>3. CASE pc = "body"
          BY <1>1, <1>3, <2>8, <3>1, <3>2, <4>3
        <4>4. QED
          BY <4>1, <4>2, <4>3
      <3>4. ASSUME NEW d \in Clients, d # serving
            PROVE  \/ answer'[d] = <<>>
                   \/ /\ Method(d)' = "GET" /\ answer'[d][1] = <<"200">> /\ Len(answer'[d]) \in {1, 2}
                      /\ Len(answer'[d]) = 2 => Fits(answer'[d][2], File(d)', A)
                   \/ Method(d)' = "garbage" /\ answer'[d] = <<<<"400">>>>
                   \/ Method(d)' \notin {"GET", "DELETE", "garbage"} /\ answer'[d] = <<<<"405">>>>
        BY <1>3, <2>3, <3>2, <3>4 DEF AnswersFit
      <3>5. QED
        BY <2>7, <3>2, <3>3, <3>4 DEF AnswersFit
    <2>12. QED
      BY <1>4, <2>4, <2>6, <2>9, <2>10, <2>11
  <1>7. QED
    BY <1>5, <1>6

LEMMA RefusalStep == ASSUME WebIInv, BadRequest \/ NotAllowed PROVE WebIInv'
  <1>1. /\ \A i \in 1..BodySize : body'[i] = Nul \/ Stale(i, body'[i], Asked)
        /\ \/ pc = "bad" /\ Write(<<"400">>, "close")
           \/ pc = "not_allowed" /\ Write(<<"405">>, "close")
        /\ files' = files /\ client' = client /\ request' = request
        /\ backlog' = backlog /\ open' = open /\ serving' = serving /\ limit' = limit
    BY DEF BadRequest, NotAllowed, clientVars, AfterRefusal, WebIInv, BodyOK
  <1>2. CASE pc = "bad"
    <2>1. Write(<<"400">>, "close")
      BY <1>1, <1>2
    <2>2. QED
      BY <1>1, <1>2, <2>1, WriteStep
  <1>3. CASE pc = "not_allowed"
    <2>1. Write(<<"405">>, "close")
      BY <1>1, <1>3
    <2>2. QED
      BY <1>1, <1>3, <2>1, WriteStep
  <1>4. QED
    BY <1>1, <1>2, <1>3

LEMMA HeaderStep == ASSUME WebIInv, GetHeader PROVE WebIInv'
  <1> USE DEF WebIInv
  <1>1. PICK kept \in SUBSET (1..BodySize), noise \in [1..BodySize -> {Nul, Junk}] :
          body' = [i \in 1..BodySize |-> IF i \in DOMAIN File(serving) THEN File(serving)[i]
                                         ELSE IF i \in kept THEN body[i] ELSE noise[i]]
    BY DEF GetHeader
  <1>2. /\ pc = "get" /\ Write(<<"200">>, "body") /\ Path(serving) \in files
        /\ files' = files /\ client' = client /\ request' = request
        /\ backlog' = backlog /\ open' = open /\ serving' = serving /\ limit' = limit
    BY DEF GetHeader, CanOpen, clientVars
  <1>3. Path(serving) \in Paths /\ serving \in Clients /\ Method(serving) = "GET"
    BY <1>2 DEF WebTyped, ServingOK
  <1>4. PICK file, A : file = File(serving) /\ A = Asked /\ file \in A
    <2>1. File(serving) \in Asked
      BY ONLY <1>3, Zenon DEF Asked
    <2>2. QED
      BY ONLY <2>1
  <1>5. ASSUME NEW i \in 1..BodySize
        PROVE  /\ body'[i] = Nul \/ Stale(i, body'[i], A)
               /\ i \in DOMAIN file => body'[i] = file[i]
    <2>1. body'[i] = IF i \in DOMAIN file THEN file[i] ELSE IF i \in kept THEN body[i] ELSE noise[i]
      BY <1>1, <1>4
    <2>2. noise[i] \in {Nul, Junk}
      OBVIOUS
    <2>3. body[i] = Nul \/ Stale(i, body[i], A)
      BY <1>4 DEF BodyOK
    <2>4. CASE i \in DOMAIN file
      BY <1>4, <2>1, <2>4 DEF Stale
    <2>5. CASE i \notin DOMAIN file /\ i \in kept
      BY <2>1, <2>3, <2>5
    <2>6. CASE i \notin DOMAIN file /\ i \notin kept
      BY <2>1, <2>2, <2>6 DEF Stale
    <2>7. QED
      BY <2>4, <2>5, <2>6
  <1>6. \A i \in 1..BodySize : body'[i] = Nul \/ Stale(i, body'[i], Asked)
    BY <1>4, <1>5
  <1>7. \A i \in (1..BodySize) \cap DOMAIN File(serving) : body'[i] = File(serving)[i]
    BY <1>4, <1>5
  <1>8. QED
    BY <1>2, <1>3, <1>6, <1>7, WriteStep

LEMMA BodyStep == ASSUME WebIInv, GetBody PROVE WebIInv'
  <1> USE DEF WebIInv
  <1>1. PICK n \in 0..BodySize + 1 :
          /\ IsStrlen(n)
          /\ Write([i \in 1..n |-> IF i <= BodySize THEN body[i] ELSE Junk], "close")
    BY DEF GetBody
  <1>2. /\ pc = "body" /\ body' = body
        /\ files' = files /\ client' = client /\ request' = request
        /\ backlog' = backlog /\ open' = open /\ serving' = serving /\ limit' = limit
    BY DEF GetBody, clientVars
  <1>3. PICK text : text = [i \in 1..n |-> IF i <= BodySize THEN body[i] ELSE Junk]
    OBVIOUS
  <1>4. PICK file, A : file = File(serving) /\ A = Asked
    OBVIOUS
  <1>5. /\ Len(file) \in Nat /\ DOMAIN file = 1..Len(file) /\ BodySize \in Nat /\ n \in Nat
    <2>1. Path(serving) \in Paths
      BY <1>2 DEF ServingOK
    <2>2. QED
      BY <1>4, <2>1, WebAssumption DEF File
  <1>6. /\ \A i \in 1..BodySize : body[i] = Nul \/ Stale(i, body[i], A)
        /\ \A i \in (1..BodySize) \cap DOMAIN file : body[i] = file[i]
    BY <1>2, <1>4 DEF BodyOK
  <1>7. ASSUME NEW i \in 1..n
        PROVE  IF i <= BodySize /\ i \in DOMAIN file THEN text[i] = file[i] ELSE Stale(i, text[i], A)
    <2>1. CASE i <= BodySize
      <3>1. i \in 1..BodySize /\ text[i] = body[i] /\ body[i] # Nul
        BY <1>1, <1>3, <1>5, <2>1 DEF IsStrlen
      <3>2. QED
        BY <1>6, <3>1
    <2>2. CASE ~(i <= BodySize)
      <3>1. text[i] = Junk
        BY <1>3, <2>2
      <3>2. QED
        BY <2>2, <3>1 DEF Stale
    <2>3. QED
      BY <2>1, <2>2
  <1>8. ASSUME NEW i \in (1..BodySize) \cap DOMAIN file, i \notin 1..n
        PROVE  \E j \in 1..i : file[j] = Nul
    <2>1. n < i /\ i \in 1..BodySize /\ i \in 1..Len(file)
      BY <1>5, <1>8
    <2>2. n < BodySize /\ n + 1 \in 1..i /\ n + 1 \in 1..BodySize /\ n + 1 \in DOMAIN file
      BY <1>5, <2>1
    <2>3. body[n + 1] = Nul /\ body[n + 1] = file[n + 1]
      BY <1>1, <1>6, <2>2 DEF IsStrlen
    <2>4. QED
      BY <2>2, <2>3
  <1>9. Fits(text, File(serving), Asked)
    <2>1. DOMAIN text = 1..n
      BY <1>3
    <2>2. Fits(text, file, A)
      BY <1>7, <1>8, <2>1 DEF Fits
    <2>3. QED
      BY <1>4, <2>2
  <1>10. Write(text, "close")
    BY <1>1, <1>3
  <1>11. \A i \in 1..BodySize : body'[i] = Nul \/ Stale(i, body'[i], Asked)
    BY <1>2, <1>4, <1>6
  <1>12. QED
    BY <1>2, <1>9, <1>10, <1>11, WriteStep

(* The client is done with: its socket is closed, or leaks.                   *)
LEMMA DoneStep == ASSUME WebIInv, GetMissing \/ ReadFails \/ Close PROVE WebIInv'
  <1> USE DEF WebIInv
  <1>1. /\ pc \in {"read", "get", "close"} /\ pc' = "accept" /\ serving' = Nobody
        /\ files' = files /\ client' = client /\ request' = request /\ answer' = answer
        /\ backlog' = backlog /\ body' = body /\ limit' = limit
        /\ open' = IF pc = "close" THEN open \ {serving} ELSE open
        /\ pc = "read" => client[serving] = "left"
        /\ pc = "get" => ~CanOpen(Path(serving))
    BY DEF GetMissing, ReadFails, Close, Closed, clientVars
  <1>2. serving \in open /\ serving \in Clients /\ serving # Nobody
    BY <1>1, WebAssumption DEF WebTyped, Nobody
  <1>3. WebTyped'
    <2>1. IsFiniteSet(open)
      BY WebAssumption, FS_Subset DEF WebTyped
    <2>2. Cardinality(open \ {serving}) = Cardinality(open) - 1
      BY <1>2, <2>1, FS_RemoveElement
    <2>3. Cardinality(open \ {serving}) \in Nat
      BY <2>1, FS_RemoveElement, FS_CardinalityType
    <2>4. Cardinality(open') \in Nat /\ Cardinality(open') <= limit
      BY <1>1, <2>2, <2>3 DEF WebTyped
    <2>5. QED
      BY <1>1, <2>4 DEF WebTyped, WebLabels
  <1>4. BacklogOK' /\ SilentOK'
    BY <1>1 DEF BacklogOK, SilentOK
  <1>5. ServingOK'
    BY <1>1 DEF ServingOK
  <1>6. OnlyUnansweredLeak'
    <2>1. \A d \in Clients : Leaked(d)' => Leaked(d) \/ (d = serving /\ pc # "close")
      <3>1. CASE pc = "close"
        <4>1. open' = open \ {serving}
          BY <1>1, <3>1
        <4>2. QED
          BY <4>1 DEF Leaked
      <3>2. CASE pc # "close"
        <4>1. open' = open
          BY <1>1, <3>2
        <4>2. QED
          BY <3>2, <4>1 DEF Leaked
      <3>3. QED
        BY <3>1, <3>2
    <2>2. ASSUME NEW d \in Clients, Leaked(d)
          PROVE  answer[d] = <<>> /\ (client[d] = "left" \/ (Method(d) = "GET" /\ Path(d) \notin files))
      BY <1>2, <2>2 DEF OnlyUnansweredLeak
    <2>3. CASE pc = "close"
      BY <1>1, <2>1, <2>2, <2>3 DEF OnlyUnansweredLeak, Method, Path
    <2>4. CASE pc = "read"
      <3>1. answer[serving] = <<>> /\ client[serving] = "left"
        BY <1>1, <2>4 DEF ServingOK
      <3>2. QED
        BY <1>1, <2>1, <2>2, <3>1 DEF OnlyUnansweredLeak, Method, Path
    <2>5. CASE pc = "get"
      <3>1. Method(serving) = "GET" /\ answer[serving] = <<>>
        BY <2>5 DEF ServingOK
      <3>2. Path(serving) \in files => Cardinality(open') = limit'
        <4>1. open' = open
          BY <1>1, <2>5
        <4>2. Path(serving) \in files => ~(Cardinality(open) < limit)
          BY <1>1, <2>5 DEF CanOpen
        <4>3. Cardinality(open) \in Nat /\ limit \in Nat /\ Cardinality(open) <= limit
          BY DEF WebTyped
        <4>4. QED
          BY <1>1, <4>1, <4>2, <4>3
      <3>3. QED
        BY <1>1, <2>1, <2>2, <3>1, <3>2 DEF OnlyUnansweredLeak, Method, Path
    <2>6. QED
      BY <1>1, <2>3, <2>4, <2>5
  <1>7. AnswersFit' /\ BodyOK'
    BY <1>1, NothingToldStep, BodyStays
  <1>8. QED
    BY <1>3, <1>4, <1>5, <1>6, <1>7

LEMMA DeleteStep == ASSUME WebIInv, Delete PROVE WebIInv'
  <1> USE DEF WebIInv
  <1>1. /\ pc = "delete" /\ pc' = "close" /\ files' = files \ {Path(serving)}
        /\ client' = client /\ request' = request /\ answer' = answer /\ backlog' = backlog
        /\ open' = open /\ serving' = serving /\ body' = body /\ limit' = limit
    BY DEF Delete, clientVars
  <1>2. WebTyped' /\ ServingOK'
    BY <1>1 DEF WebTyped, WebLabels, ServingOK
  <1>3. AnswersFit' /\ BodyOK'
    BY <1>1, NothingToldStep, BodyStays
  <1>4. QED
    BY <1>1, <1>2, <1>3 DEF BacklogOK, SilentOK, OnlyUnansweredLeak, Leaked, Method, Path

LEMMA WebNext == WebIInv /\ [Next]_vars => WebIInv'
  <1> SUFFICES ASSUME WebIInv, [Next]_vars PROVE WebIInv'
    OBVIOUS
  <1>1. CASE UNCHANGED vars
    <2>1. /\ files' = files /\ client' = client /\ request' = request /\ answer' = answer
          /\ backlog' = backlog /\ open' = open /\ serving' = serving /\ pc' = pc
          /\ body' = body /\ limit' = limit
      BY <1>1 DEF vars
    <2>2. AnswersFit' /\ BodyOK'
      BY <2>1, NothingToldStep, BodyStays DEF WebIInv, File, Path
    <2>3. WebTyped' /\ BacklogOK' /\ SilentOK'
      BY <2>1 DEF WebIInv, WebTyped, BacklogOK, SilentOK
    <2>4. ServingOK' /\ OnlyUnansweredLeak'
      BY <2>1 DEF WebIInv, ServingOK, OnlyUnansweredLeak, Leaked, Method, Path
    <2>5. QED
      BY <2>2, <2>3, <2>4 DEF WebIInv
  <1>2. CASE Server
    BY <1>2, AcceptStep, ReadStep, RefusalStep, HeaderStep, BodyStep, DoneStep, DeleteStep DEF Server
  <1>3. ASSUME NEW c \in Clients, Connect(c) \/ Send(c) \/ Leave(c) PROVE WebIInv'
    BY <1>3, ConnectStep, SendStep, LeaveStep
  <1>4. QED
    BY <1>1, <1>2, <1>3 DEF Next

LEMMA WebInvariant == Init /\ [][Next]_vars => []WebIInv
  BY WebInit, WebNext, PTL

(* OnlyUnansweredLeak and AnswersFit of web-server.c, for any files, any size *)
(* of body, and whatever lies in it.                                          *)
THEOREM SocketsAndAnswers == Spec => []OnlyUnansweredLeak /\ []AnswersFit
  BY WebInvariant, PTL DEF Spec, WebIInv

-----------------------------------------------------------------------------
(***************************************************************************)
(* The square service over TCP.  AnswersMatch is inductive: a client that  *)
(* asks has nothing under way, so nothing of an earlier question can reach *)
(* it later.                                                               *)
(***************************************************************************)
TcpTyped == /\ tcpClient \in [Clients -> {"new", "ask", "wait", "gone"}]
            /\ asked = [c \in Clients |-> asked[c]]
            /\ up = [c \in Clients |-> up[c]]
            /\ down = [c \in Clients |-> down[c]]
TcpIInv == TcpTyped /\ Tcp!AnswersMatch

LEMMA TcpInit == Tcp!Init => TcpIInv
  BY DEF Tcp!Init, TcpIInv, TcpTyped, Tcp!AnswersMatch

LEMMA TalkStep ==
  ASSUME TcpIInv, NEW c \in Clients, Tcp!Connect(c) \/ Tcp!Talk(c) PROVE TcpIInv'
  <1> USE DEF TcpIInv
  <1>1. ASSUME Tcp!Connect(c) \/ Tcp!Interrupt(c) PROVE TcpIInv'
    <2>1. /\ asked' = asked /\ up' = up /\ down' = down
          /\ \/ tcpClient[c] = "new" /\ tcpClient' = [tcpClient EXCEPT ![c] = "ask"]
             \/ tcpClient' = [tcpClient EXCEPT ![c] = "gone"]
      BY <1>1 DEF Tcp!Connect, Tcp!Interrupt
    <2>2. QED
      BY <2>1 DEF TcpTyped, Tcp!AnswersMatch
  <1>2. ASSUME NEW t, tcpClient[c] = "ask", Tcp!Say(c, t) PROVE TcpIInv'
    <2>1. /\ asked' = [asked EXCEPT ![c] = t] /\ up' = [up EXCEPT ![c] = t] /\ down' = down
          /\ \E l \in {"gone", "wait"} : tcpClient' = [tcpClient EXCEPT ![c] = l]
      BY <1>2 DEF Tcp!Say
    <2>2. up[c] = Tcp!Nothing /\ down[c] = Tcp!Nothing
      BY <1>2 DEF Tcp!AnswersMatch
    <2>3. \A d \in Clients : /\ asked'[d] = IF d = c THEN t ELSE asked[d]
                             /\ up'[d] = IF d = c THEN t ELSE up[d]
                             /\ d = c => tcpClient'[d] \in {"gone", "wait"}
                             /\ d # c => tcpClient'[d] = tcpClient[d]
      BY <2>1 DEF TcpTyped
    <2>4. TcpTyped'
      BY <2>1 DEF TcpTyped
    <2>5. QED
      BY <2>1, <2>2, <2>3, <2>4 DEF Tcp!AnswersMatch
  <1>3. ASSUME Tcp!Receive(c) PROVE TcpIInv'
    <2>1. /\ tcpClient' = [tcpClient EXCEPT ![c] = "ask"]
          /\ down[c] # Tcp!Nothing /\ down' = [down EXCEPT ![c] = Tcp!Nothing]
          /\ asked' = asked /\ up' = up
      BY <1>3 DEF Tcp!Receive
    <2>2. QED
      BY <2>1 DEF TcpTyped, Tcp!AnswersMatch
  <1>4. Tcp!Ask(c) => \E t : tcpClient[c] = "ask" /\ Tcp!Say(c, t)
    BY DEF Tcp!Ask
  <1>5. Tcp!AskAgain(c) => tcpClient[c] = "ask" /\ Tcp!Say(c, tcpBuffer[c])
    BY DEF Tcp!AskAgain
  <1>6. QED
    BY <1>1, <1>2, <1>3, <1>4, <1>5 DEF Tcp!Talk

LEMMA TcpServerStep == ASSUME TcpIInv, Tcp!Server PROVE TcpIInv'
  <1> USE DEF TcpIInv
  <1>1. ASSUME Tcp!Accept PROVE TcpIInv'
    BY <1>1 DEF Tcp!Accept, TcpTyped, Tcp!AnswersMatch
  <1>2. ASSUME Tcp!Answer PROVE TcpIInv'
    <2>1. /\ up[talking] # Tcp!Nothing
          /\ up' = [up EXCEPT ![talking] = Tcp!Nothing]
          /\ down' = [down EXCEPT ![talking] = Tcp!Reply(up[talking])]
          /\ asked' = asked /\ tcpClient' = tcpClient
      BY <1>2 DEF Tcp!Answer, Tcp!Taken
    <2>2. \A d \in Clients : /\ up'[d] = IF d = talking THEN Tcp!Nothing ELSE up[d]
                             /\ down'[d] = IF d = talking THEN Tcp!Reply(up[talking]) ELSE down[d]
      BY <2>1 DEF TcpTyped
    <2>3. TcpTyped'
      BY <2>1 DEF TcpTyped
    <2>4. QED
      BY <2>1, <2>2, <2>3 DEF Tcp!AnswersMatch
  <1>3. ASSUME Tcp!HangUp PROVE TcpIInv'
    <2>1. /\ up' = [up EXCEPT ![talking] = Tcp!Nothing]
          /\ down' = down /\ asked' = asked /\ tcpClient' = tcpClient
      BY <1>3 DEF Tcp!HangUp, Tcp!Taken
    <2>2. \A d \in Clients : up'[d] = IF d = talking THEN Tcp!Nothing ELSE up[d]
      BY <2>1 DEF TcpTyped
    <2>3. TcpTyped'
      BY <2>1 DEF TcpTyped
    <2>4. QED
      BY <2>1, <2>2, <2>3 DEF Tcp!AnswersMatch
  <1>4. QED
    BY <1>1, <1>2, <1>3 DEF Tcp!Server

LEMMA TcpNext == TcpIInv /\ [Tcp!Next]_(Tcp!vars) => TcpIInv'
  <1>1. TcpIInv /\ UNCHANGED Tcp!vars => TcpIInv'
    BY DEF Tcp!vars, TcpIInv, TcpTyped, Tcp!AnswersMatch
  <1>2. QED
    BY <1>1, TalkStep, TcpServerStep DEF Tcp!Next

(* AnswersMatch of square-server.c and square-client.c.                       *)
THEOREM TcpAnswersMatch == Tcp!Init /\ [][Tcp!Next]_(Tcp!vars) => []Tcp!AnswersMatch
  <1>1. TcpIInv => Tcp!AnswersMatch
    BY DEF TcpIInv
  <1>2. QED
    BY <1>1, TcpInit, TcpNext, PTL

-----------------------------------------------------------------------------
(***************************************************************************)
(* Bags of datagrams and packets: adding one and removing one.             *)
(***************************************************************************)
IsBag(B) == B \in [DOMAIN B -> Nat \ {0}]
Copies(B, e) == IF e \in DOMAIN B THEN B[e] ELSE 0

LEMMA CopiesFacts ==
  ASSUME NEW B, IsBag(B)
  PROVE  \A e : Copies(B, e) \in Nat /\ (e \in DOMAIN B <=> Copies(B, e) > 0)
  BY DEF IsBag, Copies

LEMMA AddFacts ==
  ASSUME NEW B, IsBag(B), NEW x
  PROVE  /\ IsBag(Tun!Bag!BagAdd(B, x)) /\ DOMAIN Tun!Bag!BagAdd(B, x) = DOMAIN B \cup {x}
         /\ \A e : Copies(Tun!Bag!BagAdd(B, x), e) = Copies(B, e) + IF e = x THEN 1 ELSE 0
  <1>1. CASE x \in DOMAIN B
    <2>1. PICK A : A = Tun!Bag!BagAdd(B, x)
      OBVIOUS
    <2>2. A = [e \in DOMAIN B |-> IF e = x THEN B[e] + 1 ELSE B[e]]
      BY <1>1, <2>1 DEF Tun!Bag!BagAdd
    <2>3. DOMAIN A = DOMAIN B /\ \A e \in DOMAIN B : A[e] = B[e] + (IF e = x THEN 1 ELSE 0) /\ B[e] \in Nat \ {0}
      BY <2>2 DEF IsBag
    <2>4. IsBag(A)
      BY <2>2 DEF IsBag
    <2>5. \A e : Copies(A, e) = Copies(B, e) + IF e = x THEN 1 ELSE 0
      BY <1>1, <2>3 DEF Copies
    <2>6. QED
      BY <1>1, <2>1, <2>3, <2>4, <2>5
  <1>2. CASE x \notin DOMAIN B
    <2>1. Tun!Bag!BagAdd(B, x) = [e \in DOMAIN B \cup {x} |-> IF e = x THEN 1 ELSE B[e]]
      BY <1>2 DEF Tun!Bag!BagAdd
    <2>2. QED
      BY <1>2, <2>1 DEF IsBag, Copies
  <1>3. QED
    BY <1>1, <1>2

LEMMA RemoveFacts ==
  ASSUME NEW B, IsBag(B), NEW x \in DOMAIN B
  PROVE  /\ IsBag(Tun!Bag!BagRemove(B, x)) /\ DOMAIN Tun!Bag!BagRemove(B, x) \subseteq DOMAIN B
         /\ \A e : Copies(Tun!Bag!BagRemove(B, x), e) = Copies(B, e) - IF e = x THEN 1 ELSE 0
  <1>1. CASE B[x] = 1
    <2>1. Tun!Bag!BagRemove(B, x) = [e \in DOMAIN B \ {x} |-> B[e]]
      BY <1>1 DEF Tun!Bag!BagRemove
    <2>2. QED
      BY <1>1, <2>1 DEF IsBag, Copies
  <1>2. CASE B[x] # 1
    <2>1. Tun!Bag!BagRemove(B, x) = [e \in DOMAIN B |-> IF e = x THEN B[e] - 1 ELSE B[e]]
      BY <1>2 DEF Tun!Bag!BagRemove
    <2>2. B[x] \in Nat \ {0}
      BY DEF IsBag
    <2>3. QED
      BY <1>2, <2>1, <2>2 DEF IsBag, Copies
  <1>3. QED
    BY <1>1, <1>2

LEMMA SameBags == \A B, x : Udp!BagAdd(B, x) = Tun!Bag!BagAdd(B, x) /\ Udp!BagRemove(B, x) = Tun!Bag!BagRemove(B, x)
  BY Zenon DEF Udp!BagAdd, Tun!Bag!BagAdd, Udp!BagRemove, Tun!Bag!BagRemove

LEMMA EmptyBagFacts ==
  /\ IsBag(Tun!NoneUnderWay) /\ DOMAIN Tun!NoneUnderWay = {}
  /\ IsBag(Udp!NoneUnderWay) /\ DOMAIN Udp!NoneUnderWay = {}
  BY DEF IsBag, Tun!NoneUnderWay, Udp!NoneUnderWay

-----------------------------------------------------------------------------
(***************************************************************************)
(* The square service over UDP.  Whatever is under way for a client was    *)
(* asked by it, or answers what it asked; and as long as no datagram of    *)
(* its was repeated there is at most one, about the question it waits for. *)
(***************************************************************************)
FirstTexts == UdpLines \cup {Udp!Garbage, Udp!FalseFormat}
Texts == FirstTexts \cup {Udp!Reply(t) : t \in FirstTexts}

LEMMA ReplyIsText == \A t \in Texts : Udp!Reply(t) \in Texts
  <1>1. \A t : Udp!Reply(t) = Udp!FalseFormat \/ \E v : Udp!Reply(t) = <<"number", v>>
    BY DEF Udp!Reply
  <1>2. \A v : Udp!Reply(<<"number", v>>) = Udp!FalseFormat
    BY DEF Udp!Reply
  <1>3. Udp!FalseFormat \in FirstTexts
    BY DEF FirstTexts
  <1>4. QED
    BY <1>1, <1>2, <1>3 DEF Texts

UdpTyped == /\ udpClient \in [Askers -> {"ask", "wait", "gone"}]
            /\ sent \in [Askers -> Seq(Texts)] /\ told \in [Askers -> Seq(Texts)]
            /\ IsBag(requests) /\ DOMAIN requests \subseteq Askers \X Texts
            /\ IsBag(replies) /\ DOMAIN replies \subseteq Askers \X Texts
            /\ repeated \in [Askers -> Nat]

(* How often the question t of c is under way, and the answer t to c.         *)
Asking(c, t) == Copies(requests, <<c, t>>)
Answering(c, t) == Copies(replies, <<c, t>>)

OwnQuestions(c) == \A t \in Texts : Asking(c, t) > 0 => \E j \in 1..Len(sent[c]) : t = sent[c][j]
OwnAnswers(c) == \A t \in Texts :
                   Answering(c, t) > 0 => \E j \in 1..Len(sent[c]) : t = Udp!Reply(sent[c][j])
OnlyLatest(c) ==
  repeated[c] = 0 =>
    /\ \A t \in Texts : Asking(c, t) > 0 =>
          /\ udpClient[c] = "wait" /\ t = sent[c][Len(sent[c])] /\ Asking(c, t) = 1
          /\ \A s \in Texts : Answering(c, s) = 0
    /\ \A t \in Texts : Answering(c, t) > 0 =>
          udpClient[c] = "wait" /\ t = Udp!Reply(sent[c][Len(sent[c])]) /\ Answering(c, t) = 1
AskerOK(c) == /\ Len(sent[c]) = Len(told[c]) + IF udpClient[c] = "wait" THEN 1 ELSE 0
              /\ OwnQuestions(c) /\ OwnAnswers(c) /\ OnlyLatest(c)

UdpIInv == UdpTyped /\ (\A c \in Askers : AskerOK(c)) /\ Udp!AnswersOwn

LEMMA UdpInit == Udp!Init => UdpIInv
  <1> SUFFICES ASSUME Udp!Init PROVE UdpIInv
    OBVIOUS
  <1>1. /\ IsBag(requests) /\ IsBag(replies) /\ DOMAIN requests = {} /\ DOMAIN replies = {}
        /\ sent = [c \in Askers |-> <<>>] /\ told = [c \in Askers |-> <<>>]
        /\ repeated = [c \in Askers |-> 0] /\ udpClient = [c \in Askers |-> "ask"]
    <2>1. requests = Udp!NoneUnderWay /\ replies = Udp!NoneUnderWay
      BY DEF Udp!Init
    <2>2. IsBag(requests) /\ IsBag(replies) /\ DOMAIN requests = {} /\ DOMAIN replies = {}
      BY <2>1, EmptyBagFacts
    <2>3. QED
      BY <2>2 DEF Udp!Init
  <1>2. <<>> \in Seq(Texts) /\ Len(<<>>) = 0 /\ DOMAIN <<>> = {}
    OBVIOUS
  <1>3. UdpTyped
    BY <1>1, <1>2 DEF UdpTyped
  <1>4. \A c \in Askers, t \in Texts : Asking(c, t) = 0 /\ Answering(c, t) = 0
    BY <1>1 DEF Asking, Answering, Copies
  <1>5. \A c \in Askers : AskerOK(c)
    BY <1>1, <1>2, <1>4 DEF AskerOK, OwnQuestions, OwnAnswers, OnlyLatest
  <1>6. Udp!AnswersOwn
    BY <1>1, <1>2 DEF Udp!AnswersOwn
  <1>7. QED
    BY <1>3, <1>5, <1>6 DEF UdpIInv

LEMMA UdpNumbers ==
  ASSUME UdpTyped, NEW c \in Askers
  PROVE  /\ \A t \in Texts : Asking(c, t) \in Nat /\ Answering(c, t) \in Nat
         /\ Len(sent[c]) \in Nat /\ Len(told[c]) \in Nat
         /\ DOMAIN told[c] = 1..Len(told[c])
  BY CopiesFacts DEF UdpTyped, Asking, Answering

(* What is left alone, and what only loses datagrams, stays right.            *)
LEMMA FewerUnderway ==
  ASSUME UdpTyped, NEW c \in Askers, AskerOK(c),
         sent'[c] = sent[c], told'[c] = told[c], udpClient'[c] = udpClient[c],
         repeated'[c] = repeated[c],
         \A t \in Texts : /\ Asking(c, t)' \in Nat /\ Asking(c, t)' <= Asking(c, t)
                          /\ Answering(c, t)' \in Nat /\ Answering(c, t)' <= Answering(c, t)
  PROVE  AskerOK(c)'
  <1>1. \A t \in Texts : /\ Asking(c, t)' \in Nat /\ Asking(c, t) \in Nat
                         /\ Answering(c, t)' \in Nat /\ Answering(c, t) \in Nat
    BY UdpNumbers
  <1>2. \A t \in Texts : /\ Asking(c, t)' > 0 => Asking(c, t) > 0
                         /\ Answering(c, t)' > 0 => Answering(c, t) > 0
                         /\ Asking(c, t)' > 0 /\ Asking(c, t) = 1 => Asking(c, t)' = 1
                         /\ Answering(c, t)' > 0 /\ Answering(c, t) = 1 => Answering(c, t)' = 1
                         /\ Answering(c, t) = 0 => Answering(c, t)' = 0
    BY <1>1
  <1>3. OwnQuestions(c)' /\ OwnAnswers(c)'
    BY <1>2 DEF AskerOK, OwnQuestions, OwnAnswers
  <1>4. OnlyLatest(c)'
    BY <1>2 DEF AskerOK, OnlyLatest
  <1>5. QED
    BY <1>3, <1>4 DEF AskerOK

LEMMA SameUnderway ==
  ASSUME UdpTyped, NEW c \in Askers, AskerOK(c),
         sent'[c] = sent[c], told'[c] = told[c], udpClient'[c] = udpClient[c],
         repeated'[c] = repeated[c],
         \A t \in Texts : Asking(c, t)' = Asking(c, t) /\ Answering(c, t)' = Answering(c, t)
  PROVE  AskerOK(c)'
  <1>1. \A t \in Texts : Asking(c, t) \in Nat /\ Answering(c, t) \in Nat
    BY UdpNumbers
  <1>2. \A t \in Texts : /\ Asking(c, t)' \in Nat /\ Asking(c, t)' <= Asking(c, t)
                         /\ Answering(c, t)' \in Nat /\ Answering(c, t)' <= Answering(c, t)
    BY <1>1
  <1>3. QED
    BY <1>2, FewerUnderway

LEMMA UdpAskStep == ASSUME UdpIInv, NEW c \in Askers, Udp!Ask(c) PROVE UdpIInv'
  <1> USE DEF UdpIInv
  <1>1. PICK t \in (UdpLines \ {Udp!Bye}) \cup {Udp!LeftInBuffer(c)} :
          /\ sent' = [sent EXCEPT ![c] = Append(sent[c], t)]
          /\ requests' = Udp!BagAdd(requests, <<c, t>>)
    BY DEF Udp!Ask
  <1>2. /\ udpClient[c] = "ask" /\ udpClient' = [udpClient EXCEPT ![c] = "wait"]
        /\ told' = told /\ replies' = replies /\ repeated' = repeated
    BY DEF Udp!Ask
  <1>3. t \in Texts
    <2>1. CASE told[c] = <<>>
      BY <2>1 DEF Udp!LeftInBuffer, Texts, FirstTexts
    <2>2. CASE told[c] # <<>>
      <3>1. told[c] \in Seq(Texts)
        BY DEF UdpTyped
      <3>2. told[c][Len(told[c])] \in Texts
        BY <2>2, <3>1
      <3>3. QED
        BY <2>2, <3>2 DEF Udp!LeftInBuffer, Texts, FirstTexts
    <2>3. QED
      BY <2>1, <2>2
  <1>4. /\ IsBag(requests') /\ DOMAIN requests' = DOMAIN requests \cup {<<c, t>>}
        /\ \A e : Copies(requests', e) = Copies(requests, e) + IF e = <<c, t>> THEN 1 ELSE 0
    <2>1. IsBag(requests)
      BY DEF UdpTyped
    <2>2. requests' = Tun!Bag!BagAdd(requests, <<c, t>>)
      BY <1>1, SameBags
    <2>3. PICK B, d : B = requests /\ d = <<c, t>>
      OBVIOUS
    <2>4. IsBag(B)
      BY <2>1, <2>3
    <2>5. /\ IsBag(Tun!Bag!BagAdd(B, d)) /\ DOMAIN Tun!Bag!BagAdd(B, d) = DOMAIN B \cup {d}
          /\ \A e : Copies(Tun!Bag!BagAdd(B, d), e) = Copies(B, e) + IF e = d THEN 1 ELSE 0
      BY ONLY <2>4, AddFacts
    <2>6. QED
      BY ONLY <2>2, <2>3, <2>5
  <1>5. /\ sent'[c] \in Seq(Texts) /\ Len(sent'[c]) = Len(sent[c]) + 1
        /\ Len(sent[c]) \in Nat /\ Len(told[c]) = Len(sent[c])
        /\ \A i \in 1..Len(sent[c]) : sent'[c][i] = sent[c][i]
        /\ sent'[c][Len(sent[c]) + 1] = t
        /\ \A d \in Askers : d # c => sent'[d] = sent[d]
    <2>1. sent'[c] = Append(sent[c], t) /\ sent[c] \in Seq(Texts)
      BY <1>1 DEF UdpTyped
    <2>2. \A d \in Askers : d # c => sent'[d] = sent[d]
      BY <1>1 DEF UdpTyped
    <2>3. Len(told[c]) = Len(sent[c])
      <3>1. AskerOK(c) /\ Len(told[c]) \in Nat
        BY UdpNumbers
      <3>2. QED
        BY <1>2, <3>1 DEF AskerOK
    <2>4. QED
      BY <1>3, <2>1, <2>2, <2>3, AppendFacts, AppendProperties
  <1>6. UdpTyped'
    <2>1. sent' \in [Askers -> Seq(Texts)]
      BY <1>1, <1>5 DEF UdpTyped
    <2>2. DOMAIN requests' \subseteq Askers \X Texts
      BY <1>3, <1>4 DEF UdpTyped
    <2>3. udpClient' \in [Askers -> {"ask", "wait", "gone"}]
      BY <1>2 DEF UdpTyped
    <2>4. QED
      BY <1>2, <1>4, <2>1, <2>2, <2>3 DEF UdpTyped
  <1>7. \A d \in Askers, s \in Texts :
          /\ Answering(d, s)' = Answering(d, s)
          /\ Asking(d, s)' = Asking(d, s) + IF d = c /\ s = t THEN 1 ELSE 0
          /\ Asking(d, s) \in Nat /\ Answering(d, s) \in Nat
    BY <1>2, <1>4, UdpNumbers DEF Asking, Answering
  <1>8. ASSUME NEW d \in Askers, d # c PROVE AskerOK(d)'
    <2>1. \A s \in Texts : Asking(d, s)' = Asking(d, s) /\ Answering(d, s)' = Answering(d, s)
      BY <1>7, <1>8
    <2>2. sent'[d] = sent[d] /\ told'[d] = told[d] /\ udpClient'[d] = udpClient[d] /\ repeated'[d] = repeated[d]
      BY <1>2, <1>5, <1>8 DEF UdpTyped
    <2>3. QED
      BY <2>1, <2>2, SameUnderway
  <1>9. AskerOK(c)'
    <2>1. udpClient'[c] = "wait"
      BY <1>2 DEF UdpTyped
    <2>2. OwnQuestions(c)'
      <3> SUFFICES ASSUME NEW s \in Texts, Asking(c, s)' > 0
                   PROVE  \E j \in 1..Len(sent'[c]) : s = sent'[c][j]
        BY DEF OwnQuestions
      <3>1. CASE s = t
        BY <1>5, <3>1
      <3>2. CASE s # t
        <4>1. Asking(c, s) > 0
          BY <1>7, <3>2
        <4>2. PICK j \in 1..Len(sent[c]) : s = sent[c][j]
          BY <4>1 DEF AskerOK, OwnQuestions
        <4>3. QED
          BY <1>5, <4>2
      <3>3. QED
        BY <3>1, <3>2
    <2>3. OwnAnswers(c)'
      <3> SUFFICES ASSUME NEW s \in Texts, Answering(c, s)' > 0
                   PROVE  \E j \in 1..Len(sent'[c]) : s = Udp!Reply(sent'[c][j])
        BY DEF OwnAnswers
      <3>1. PICK j \in 1..Len(sent[c]) : s = Udp!Reply(sent[c][j])
        BY <1>7 DEF AskerOK, OwnAnswers
      <3>2. QED
        BY <1>5, <3>1
    <2>4. OnlyLatest(c)'
      <3> SUFFICES ASSUME repeated[c] = 0 PROVE OnlyLatest(c)'
        BY <1>2 DEF OnlyLatest
      <3>1. \A s \in Texts : Asking(c, s) = 0 /\ Answering(c, s) = 0
        <4>1. AskerOK(c) /\ repeated[c] = 0 /\ udpClient[c] # "wait"
          BY <1>2
        <4>2. \A s \in Texts : ~(Asking(c, s) > 0) /\ ~(Answering(c, s) > 0)
          BY <4>1 DEF AskerOK, OnlyLatest
        <4>3. QED
          BY <1>7, <4>2
      <3>2. \A s \in Texts : Answering(c, s)' = 0 /\ Asking(c, s)' = IF s = t THEN 1 ELSE 0
        BY <1>7, <3>1
      <3>3. QED
        BY <1>5, <2>1, <3>2 DEF OnlyLatest
    <2>5. QED
      BY <1>2, <1>5, <2>1, <2>2, <2>3, <2>4 DEF AskerOK
  <1>10. Udp!AnswersOwn'
    <2>1. \A d \in Askers : \A i \in DOMAIN told[d] : \A j \in 1..i : sent'[d][j] = sent[d][j]
      <3> SUFFICES ASSUME NEW d \in Askers, NEW i \in DOMAIN told[d], NEW j \in 1..i
                   PROVE  sent'[d][j] = sent[d][j]
        OBVIOUS
      <3>1. DOMAIN told[d] = 1..Len(told[d]) /\ Len(told[d]) \in Nat
        BY UdpNumbers
      <3>2. CASE d = c
        BY <1>5, <3>1, <3>2
      <3>3. CASE d # c
        BY <1>5, <3>3
      <3>4. QED
        BY <3>2, <3>3
    <2>2. \A d \in Askers : \A i \in DOMAIN told[d] : i \in 1..i
      BY UdpNumbers
    <2>3. QED
      BY <1>2, <2>1, <2>2 DEF Udp!AnswersOwn
  <1>11. QED
    BY <1>6, <1>8, <1>9, <1>10

(* A datagram leaves a bag, or joins it. *)
LEMMA Leaves ==
  ASSUME NEW B, IsBag(B), DOMAIN B \subseteq Askers \X Texts,
         NEW d \in DOMAIN B, NEW A, A = Udp!BagRemove(B, d)
  PROVE  /\ d[1] \in Askers /\ d[2] \in Texts /\ d = <<d[1], d[2]>>
         /\ Copies(B, d) > 0
         /\ IsBag(A) /\ DOMAIN A \subseteq Askers \X Texts
         /\ \A c \in Askers, t \in Texts :
              /\ Copies(A, <<c, t>>) \in Nat /\ Copies(B, <<c, t>>) \in Nat
              /\ Copies(A, <<c, t>>) = Copies(B, <<c, t>>) - IF c = d[1] /\ t = d[2] THEN 1 ELSE 0
  <1>1. d[1] \in Askers /\ d[2] \in Texts /\ d = <<d[1], d[2]>> /\ Copies(B, d) > 0
    BY CopiesFacts
  <1>2. A = Tun!Bag!BagRemove(B, d)
    BY SameBags
  <1>3. /\ IsBag(Tun!Bag!BagRemove(B, d)) /\ DOMAIN Tun!Bag!BagRemove(B, d) \subseteq DOMAIN B
        /\ \A e : Copies(Tun!Bag!BagRemove(B, d), e) = Copies(B, e) - IF e = d THEN 1 ELSE 0
    BY RemoveFacts
  <1>4. /\ IsBag(A) /\ DOMAIN A \subseteq DOMAIN B
        /\ \A e : Copies(A, e) = Copies(B, e) - IF e = d THEN 1 ELSE 0
    BY ONLY <1>2, <1>3
  <1>5. \A c \in Askers, t \in Texts : Copies(A, <<c, t>>) \in Nat /\ Copies(B, <<c, t>>) \in Nat
    BY <1>4, CopiesFacts
  <1>6. \A c \in Askers, t \in Texts : <<c, t>> = d <=> c = d[1] /\ t = d[2]
    BY <1>1
  <1>7. QED
    BY <1>1, <1>4, <1>5, <1>6

LEMMA Joins ==
  ASSUME NEW B, IsBag(B), DOMAIN B \subseteq Askers \X Texts,
         NEW u \in Askers, NEW s \in Texts, NEW A, A = Udp!BagAdd(B, <<u, s>>)
  PROVE  /\ IsBag(A) /\ DOMAIN A \subseteq Askers \X Texts
         /\ \A c \in Askers, t \in Texts :
              /\ Copies(A, <<c, t>>) \in Nat /\ Copies(B, <<c, t>>) \in Nat
              /\ Copies(A, <<c, t>>) = Copies(B, <<c, t>>) + IF c = u /\ t = s THEN 1 ELSE 0
  <1> DEFINE d == <<u, s>>
  <1>1. A = Tun!Bag!BagAdd(B, d)
    BY SameBags
  <1>2. \A c \in Askers, t \in Texts : <<c, t>> = d <=> c = u /\ t = s
    OBVIOUS
  <1>3. d \in Askers \X Texts
    OBVIOUS
  <1> HIDE DEF d
  <1>4. /\ IsBag(Tun!Bag!BagAdd(B, d)) /\ DOMAIN Tun!Bag!BagAdd(B, d) = DOMAIN B \cup {d}
        /\ \A e : Copies(Tun!Bag!BagAdd(B, d), e) = Copies(B, e) + IF e = d THEN 1 ELSE 0
    BY AddFacts
  <1>5. /\ IsBag(A) /\ DOMAIN A = DOMAIN B \cup {d}
        /\ \A e : Copies(A, e) = Copies(B, e) + IF e = d THEN 1 ELSE 0
    BY ONLY <1>1, <1>4
  <1>6. \A c \in Askers, t \in Texts : Copies(A, <<c, t>>) \in Nat /\ Copies(B, <<c, t>>) \in Nat
    BY <1>5, CopiesFacts
  <1>7. QED
    BY <1>2, <1>3, <1>5, <1>6

LEMMA UdpReceiveStep == ASSUME UdpIInv, NEW c \in Askers, Udp!Receive(c) PROVE UdpIInv'
  <1> USE DEF UdpIInv
  <1>1. PICK d \in DOMAIN replies :
          /\ d[1] = c
          /\ told' = [told EXCEPT ![c] = Append(told[c], d[2])]
          /\ replies' = Udp!BagRemove(replies, d)
    BY DEF Udp!Receive
  <1>2. /\ udpClient[c] = "wait" /\ udpClient' = [udpClient EXCEPT ![c] = "ask"]
        /\ sent' = sent /\ requests' = requests /\ repeated' = repeated
    BY DEF Udp!Receive
  <1>3. /\ d[2] \in Texts /\ d = <<c, d[2]>> /\ Copies(replies, d) > 0
        /\ IsBag(replies') /\ DOMAIN replies' \subseteq Askers \X Texts
        /\ \A u \in Askers, t \in Texts :
             /\ Copies(replies', <<u, t>>) \in Nat
             /\ Copies(replies', <<u, t>>)
                  = Copies(replies, <<u, t>>) - IF u = c /\ t = d[2] THEN 1 ELSE 0
    <2>1. IsBag(replies) /\ DOMAIN replies \subseteq Askers \X Texts
      BY DEF UdpTyped
    <2>2. PICK A : A = replies'
      OBVIOUS
    <2>3. A = Udp!BagRemove(replies, d)
      BY <1>1, <2>2
    <2>4. /\ d[1] \in Askers /\ d[2] \in Texts /\ d = <<d[1], d[2]>> /\ Copies(replies, d) > 0
          /\ IsBag(A) /\ DOMAIN A \subseteq Askers \X Texts
          /\ \A u \in Askers, t \in Texts :
               /\ Copies(A, <<u, t>>) \in Nat /\ Copies(replies, <<u, t>>) \in Nat
               /\ Copies(A, <<u, t>>) = Copies(replies, <<u, t>>) - IF u = d[1] /\ t = d[2] THEN 1 ELSE 0
      BY ONLY <2>1, <2>3, Leaves, d \in DOMAIN replies
    <2>5. QED
      BY <1>1, <2>2, <2>4
  <1>4. /\ told'[c] \in Seq(Texts) /\ Len(told'[c]) = Len(told[c]) + 1
        /\ Len(sent[c]) = Len(told[c]) + 1 /\ Len(told[c]) \in Nat
        /\ \A i \in 1..Len(told[c]) : told'[c][i] = told[c][i]
        /\ told'[c][Len(told[c]) + 1] = d[2]
        /\ \A u \in Askers : u # c => told'[u] = told[u]
    <2>1. told'[c] = Append(told[c], d[2]) /\ told[c] \in Seq(Texts)
      BY <1>1 DEF UdpTyped
    <2>2. \A u \in Askers : u # c => told'[u] = told[u]
      BY <1>1 DEF UdpTyped
    <2>3. Len(sent[c]) = Len(told[c]) + 1
      <3>1. AskerOK(c) /\ Len(told[c]) \in Nat
        BY UdpNumbers
      <3>2. QED
        BY <1>2, <3>1 DEF AskerOK
    <2>4. QED
      BY <1>3, <2>1, <2>2, <2>3, AppendFacts, AppendProperties
  <1>5. UdpTyped'
    <2>1. told' \in [Askers -> Seq(Texts)]
      BY <1>1, <1>4 DEF UdpTyped
    <2>2. udpClient' \in [Askers -> {"ask", "wait", "gone"}]
      BY <1>2 DEF UdpTyped
    <2>3. QED
      BY <1>2, <1>3, <2>1, <2>2 DEF UdpTyped
  <1>6. \A u \in Askers, t \in Texts :
          /\ Asking(u, t)' = Asking(u, t) /\ Asking(u, t) \in Nat
          /\ Answering(u, t)' = Answering(u, t) - IF u = c /\ t = d[2] THEN 1 ELSE 0
          /\ Answering(u, t) \in Nat /\ Answering(u, t)' \in Nat
    BY <1>2, <1>3, UdpNumbers DEF Asking, Answering
  <1>7. ASSUME NEW u \in Askers, u # c PROVE AskerOK(u)'
    <2>1. \A s \in Texts : Asking(u, s)' = Asking(u, s) /\ Answering(u, s)' = Answering(u, s)
      BY <1>6, <1>7
    <2>2. sent'[u] = sent[u] /\ told'[u] = told[u] /\ udpClient'[u] = udpClient[u] /\ repeated'[u] = repeated[u]
      BY <1>2, <1>4, <1>7 DEF UdpTyped
    <2>3. QED
      BY <2>1, <2>2, SameUnderway
  <1>8. AskerOK(c) /\ Answering(c, d[2]) > 0
    BY <1>3 DEF Answering
  <1>9. AskerOK(c)'
    <2>1. udpClient'[c] = "ask" /\ Len(sent'[c]) = Len(told'[c])
      BY <1>2, <1>4 DEF UdpTyped
    <2>2. OwnQuestions(c)' /\ OwnAnswers(c)'
      <3>1. \A t \in Texts : Answering(c, t)' > 0 => Answering(c, t) > 0
        BY <1>6
      <3>2. QED
        BY <1>2, <1>6, <1>8, <3>1 DEF AskerOK, OwnQuestions, OwnAnswers
    <2>3. OnlyLatest(c)'
      <3> SUFFICES ASSUME repeated[c] = 0 PROVE OnlyLatest(c)'
        BY <1>2 DEF OnlyLatest
      <3>1. \A t \in Texts : Asking(c, t) = 0
        <4>1. \A t \in Texts : Asking(c, t) > 0 => Answering(c, d[2]) = 0
          BY <1>3, <1>8 DEF AskerOK, OnlyLatest
        <4>2. QED
          BY <1>6, <1>8, <4>1
      <3>2. \A t \in Texts : Answering(c, t) > 0 => t = d[2] /\ Answering(c, t) = 1
        BY <1>3, <1>8 DEF AskerOK, OnlyLatest
      <3>3. \A t \in Texts : Asking(c, t)' = 0 /\ Answering(c, t)' = 0
        BY <1>6, <3>1, <3>2
      <3>4. QED
        BY <3>3 DEF OnlyLatest
    <2>4. QED
      <3>1. udpClient'[c] # "wait" /\ Len(told'[c]) \in Nat
        BY <1>4, <2>1
      <3>2. QED
        BY <2>1, <2>2, <2>3, <3>1 DEF AskerOK
  <1>10. Udp!AnswersOwn'
    <2> SUFFICES ASSUME NEW u \in Askers, NEW k \in DOMAIN told'[u]
                 PROVE  /\ \E j \in 1..k : told'[u][k] = Udp!Reply(sent'[u][j])
                        /\ repeated'[u] = 0 => told'[u][k] = Udp!Reply(sent'[u][k])
      BY DEF Udp!AnswersOwn
    <2>1. CASE u # c
      BY <1>2, <1>4, <2>1 DEF Udp!AnswersOwn
    <2>2. CASE u = c
      <3>1. DOMAIN told'[c] = 1..Len(told[c]) + 1 /\ DOMAIN told[c] = 1..Len(told[c])
        BY <1>4 DEF UdpTyped
      <3>2. CASE k \in 1..Len(told[c])
        BY <1>2, <1>4, <2>2, <3>1, <3>2 DEF Udp!AnswersOwn
      <3>3. CASE k = Len(told[c]) + 1
        <4>1. k = Len(sent[c]) /\ told'[c][k] = d[2]
          BY <1>4, <3>3
        <4>2. \E j \in 1..k : d[2] = Udp!Reply(sent[c][j])
          BY <1>3, <1>8, <4>1 DEF AskerOK, OwnAnswers
        <4>3. repeated[c] = 0 => d[2] = Udp!Reply(sent[c][k])
          BY <1>3, <1>8, <4>1 DEF AskerOK, OnlyLatest
        <4>4. QED
          BY <1>2, <2>2, <4>1, <4>2, <4>3
      <3>4. QED
        BY <1>4, <2>2, <3>1, <3>2, <3>3
    <2>3. QED
      BY <2>1, <2>2
  <1>11. QED
    BY <1>5, <1>7, <1>9, <1>10

(* Only datagrams of one client come and go. *)
LEMMA UdpOneAsker ==
  ASSUME UdpIInv, UdpTyped', NEW c \in Askers, AskerOK(c)',
         sent' = sent, told' = told,
         \A u \in Askers : u # c =>
            /\ udpClient'[u] = udpClient[u] /\ repeated'[u] = repeated[u]
            /\ \A t \in Texts : Asking(u, t)' = Asking(u, t) /\ Answering(u, t)' = Answering(u, t),
         \A u \in Askers : repeated'[u] = 0 => repeated[u] = 0
  PROVE  UdpIInv'
  <1>1. ASSUME NEW u \in Askers, u # c PROVE AskerOK(u)'
    <2>1. sent'[u] = sent[u] /\ told'[u] = told[u] /\ udpClient'[u] = udpClient[u] /\ repeated'[u] = repeated[u]
      BY <1>1
    <2>2. \A t \in Texts : Asking(u, t)' = Asking(u, t) /\ Answering(u, t)' = Answering(u, t)
      BY <1>1
    <2>3. UdpTyped /\ AskerOK(u)
      BY DEF UdpIInv
    <2>4. QED
      BY <2>1, <2>2, <2>3, SameUnderway
  <1>2. \A u \in Askers : AskerOK(u)'
    BY <1>1
  <1>3. Udp!AnswersOwn'
    BY DEF UdpIInv, Udp!AnswersOwn
  <1>4. QED
    BY <1>2, <1>3 DEF UdpIInv

LEMMA UdpSayByeStep == ASSUME UdpIInv, NEW c \in Askers, Udp!SayBye(c) PROVE UdpIInv'
  <1> USE DEF UdpIInv
  <1>1. /\ udpClient[c] = "ask" /\ udpClient' = [udpClient EXCEPT ![c] = "gone"]
        /\ sent' = sent /\ told' = told /\ requests' = requests /\ replies' = replies
        /\ repeated' = repeated
    BY DEF Udp!SayBye, Udp!network
  <1>2. UdpTyped'
    BY <1>1 DEF UdpTyped
  <1>3. \A u \in Askers, t \in Texts : Asking(u, t)' = Asking(u, t) /\ Answering(u, t)' = Answering(u, t)
    BY <1>1 DEF Asking, Answering
  <1>4. udpClient'[c] = "gone" /\ \A u \in Askers : u # c => udpClient'[u] = udpClient[u]
    BY <1>1 DEF UdpTyped
  <1>5. AskerOK(c)'
    <2>1. AskerOK(c) /\ udpClient[c] # "wait" /\ udpClient'[c] # "wait"
      BY <1>1, <1>4
    <2>2. OwnQuestions(c)' /\ OwnAnswers(c)'
      BY <1>1, <1>3, <2>1 DEF AskerOK, OwnQuestions, OwnAnswers
    <2>3. OnlyLatest(c)'
      BY <1>1, <1>3, <2>1 DEF AskerOK, OnlyLatest
    <2>4. QED
      BY <1>1, <2>1, <2>2, <2>3 DEF AskerOK
  <1>6. QED
    BY <1>1, <1>2, <1>3, <1>4, <1>5, UdpOneAsker

LEMMA UdpAnswerStep == ASSUME UdpIInv, Udp!Answer PROVE UdpIInv'
  <1> USE DEF UdpIInv
  <1>1. PICK d \in DOMAIN requests :
          /\ requests' = Udp!BagRemove(requests, d)
          /\ replies' = Udp!BagAdd(replies, <<d[1], Udp!Reply(d[2])>>)
    BY DEF Udp!Answer, Udp!AnswerTo
  <1>2. udpClient' = udpClient /\ sent' = sent /\ told' = told /\ repeated' = repeated
    BY DEF Udp!Answer
  <1>3. PICK c, q, r : c = d[1] /\ q = d[2] /\ r = Udp!Reply(d[2])
    OBVIOUS
  <1>4. /\ c \in Askers /\ q \in Texts /\ Asking(c, q) > 0
        /\ IsBag(requests') /\ DOMAIN requests' \subseteq Askers \X Texts
        /\ \A u \in Askers, t \in Texts :
             /\ Asking(u, t) \in Nat /\ Asking(u, t)' \in Nat
             /\ Asking(u, t)' = Asking(u, t) - IF u = c /\ t = q THEN 1 ELSE 0
    <2>1. IsBag(requests) /\ DOMAIN requests \subseteq Askers \X Texts
      BY DEF UdpTyped
    <2>2. PICK A : A = requests'
      OBVIOUS
    <2>3. A = Udp!BagRemove(requests, d)
      BY <1>1, <2>2
    <2>4. /\ d[1] \in Askers /\ d[2] \in Texts /\ d = <<d[1], d[2]>> /\ Copies(requests, d) > 0
          /\ IsBag(A) /\ DOMAIN A \subseteq Askers \X Texts
          /\ \A u \in Askers, t \in Texts :
               /\ Copies(A, <<u, t>>) \in Nat /\ Copies(requests, <<u, t>>) \in Nat
               /\ Copies(A, <<u, t>>) = Copies(requests, <<u, t>>) - IF u = d[1] /\ t = d[2] THEN 1 ELSE 0
      BY ONLY <2>1, <2>3, Leaves, d \in DOMAIN requests
    <2>5. QED
      BY <1>3, <2>2, <2>4 DEF Asking
  <1>5. /\ r = Udp!Reply(q) /\ r \in Texts
        /\ IsBag(replies') /\ DOMAIN replies' \subseteq Askers \X Texts
        /\ \A u \in Askers, t \in Texts :
             /\ Answering(u, t) \in Nat /\ Answering(u, t)' \in Nat
             /\ Answering(u, t)' = Answering(u, t) + IF u = c /\ t = r THEN 1 ELSE 0
    <2>1. IsBag(replies) /\ DOMAIN replies \subseteq Askers \X Texts
      BY DEF UdpTyped
    <2>2. PICK A : A = replies'
      OBVIOUS
    <2>3. r = Udp!Reply(q) /\ r \in Texts /\ c \in Askers
      BY <1>3, <1>4, ReplyIsText
    <2>4. A = Udp!BagAdd(replies, <<c, r>>)
      BY <1>1, <1>3, <2>2
    <2>5. /\ IsBag(A) /\ DOMAIN A \subseteq Askers \X Texts
          /\ \A u \in Askers, t \in Texts :
               /\ Copies(A, <<u, t>>) \in Nat /\ Copies(replies, <<u, t>>) \in Nat
               /\ Copies(A, <<u, t>>) = Copies(replies, <<u, t>>) + IF u = c /\ t = r THEN 1 ELSE 0
      BY ONLY <2>1, <2>3, <2>4, Joins
    <2>6. QED
      BY <2>2, <2>3, <2>5 DEF Answering
  <1>6. UdpTyped'
    BY <1>2, <1>4, <1>5 DEF UdpTyped
  <1>7. AskerOK(c)
    BY <1>4
  <1>8. OwnQuestions(c)'
    <2>1. \A t \in Texts : Asking(c, t)' > 0 => Asking(c, t) > 0
      BY <1>4
    <2>2. QED
      BY <1>2, <1>7, <2>1 DEF AskerOK, OwnQuestions
  <1>9. OwnAnswers(c)'
    <2>1. \A t \in Texts : Answering(c, t)' > 0 => Answering(c, t) > 0 \/ t = r
      BY <1>4, <1>5
    <2>2. \E j \in 1..Len(sent[c]) : r = Udp!Reply(sent[c][j])
      BY <1>4, <1>5, <1>7 DEF AskerOK, OwnQuestions
    <2>3. QED
      BY <1>2, <1>7, <2>1, <2>2 DEF AskerOK, OwnAnswers
  <1>10. OnlyLatest(c)'
    <2> SUFFICES ASSUME repeated[c] = 0 PROVE OnlyLatest(c)'
      BY <1>2 DEF OnlyLatest
    <2>1. /\ udpClient[c] = "wait" /\ q = sent[c][Len(sent[c])] /\ Asking(c, q) = 1
          /\ \A s \in Texts : Answering(c, s) = 0
          /\ \A t \in Texts : Asking(c, t) > 0 => t = q
      BY <1>4, <1>7 DEF AskerOK, OnlyLatest
    <2>2. \A t \in Texts : ~(Asking(c, t)' > 0)
      BY <1>4, <2>1
    <2>3. \A t \in Texts : Answering(c, t)' > 0 => t = r /\ Answering(c, t)' = 1
      BY <1>4, <1>5, <2>1
    <2>4. QED
      BY <1>2, <1>5, <2>1, <2>2, <2>3 DEF OnlyLatest
  <1>11. AskerOK(c)'
    BY <1>2, <1>7, <1>8, <1>9, <1>10 DEF AskerOK
  <1>12. \A u \in Askers : u # c =>
           \A t \in Texts : Asking(u, t)' = Asking(u, t) /\ Answering(u, t)' = Answering(u, t)
    BY <1>4, <1>5
  <1>13. QED
    BY <1>2, <1>4, <1>6, <1>11, <1>12, UdpOneAsker

(* The network loses a datagram, or repeats one. *)
LEMMA UdpLoseStep == ASSUME UdpIInv, Udp!Lose PROVE UdpIInv'
  <1> USE DEF UdpIInv
  <1>1. /\ udpClient' = udpClient /\ sent' = sent /\ told' = told /\ repeated' = repeated
        /\ \/ replies' = replies /\ \E d \in DOMAIN requests : requests' = Udp!BagRemove(requests, d)
           \/ requests' = requests /\ \E d \in DOMAIN replies : replies' = Udp!BagRemove(replies, d)
    BY DEF Udp!Lose
  <1>2. ASSUME NEW B, IsBag(B), DOMAIN B \subseteq Askers \X Texts, NEW A,
               A = B \/ \E d \in DOMAIN B : A = Udp!BagRemove(B, d)
        PROVE  /\ IsBag(A) /\ DOMAIN A \subseteq Askers \X Texts
               /\ \A u \in Askers, t \in Texts :
                    Copies(A, <<u, t>>) \in Nat /\ Copies(A, <<u, t>>) <= Copies(B, <<u, t>>)
    <2>1. CASE A = B
      <3>1. \A e : Copies(B, e) \in Nat
        BY <1>2, CopiesFacts
      <3>2. QED
        BY <1>2, <2>1, <3>1
    <2>2. ASSUME NEW d \in DOMAIN B, A = Udp!BagRemove(B, d)
          PROVE  /\ IsBag(A) /\ DOMAIN A \subseteq Askers \X Texts
                 /\ \A u \in Askers, t \in Texts :
                      Copies(A, <<u, t>>) \in Nat /\ Copies(A, <<u, t>>) <= Copies(B, <<u, t>>)
      <3>1. /\ IsBag(A) /\ DOMAIN A \subseteq Askers \X Texts
            /\ \A u \in Askers, t \in Texts :
                 /\ Copies(A, <<u, t>>) \in Nat /\ Copies(B, <<u, t>>) \in Nat
                 /\ Copies(A, <<u, t>>) = Copies(B, <<u, t>>) - IF u = d[1] /\ t = d[2] THEN 1 ELSE 0
        BY ONLY <1>2, <2>2, Leaves
      <3>2. ASSUME NEW u \in Askers, NEW t \in Texts PROVE Copies(A, <<u, t>>) <= Copies(B, <<u, t>>)
        <4>1. PICK a, b : a = Copies(A, <<u, t>>) /\ b = Copies(B, <<u, t>>)
          OBVIOUS
        <4>2. a \in Nat /\ b \in Nat /\ (a = b \/ a = b - 1)
          BY <3>1, <4>1
        <4>3. QED
          BY <4>1, <4>2
      <3>3. QED
        BY <3>1, <3>2
    <2>3. QED
      BY <1>2, <2>1, <2>2
  <1>3. /\ requests' = requests \/ \E d \in DOMAIN requests : requests' = Udp!BagRemove(requests, d)
        /\ replies' = replies \/ \E d \in DOMAIN replies : replies' = Udp!BagRemove(replies, d)
    BY <1>1
  <1>4. PICK A, C : A = requests' /\ C = replies'
    OBVIOUS
  <1>5. IsBag(requests) /\ DOMAIN requests \subseteq Askers \X Texts /\ IsBag(replies) /\ DOMAIN replies \subseteq Askers \X Texts
    BY DEF UdpTyped
  <1>6. /\ IsBag(A) /\ DOMAIN A \subseteq Askers \X Texts
        /\ \A u \in Askers, t \in Texts :
             Copies(A, <<u, t>>) \in Nat /\ Copies(A, <<u, t>>) <= Copies(requests, <<u, t>>)
    <2>1. A = requests \/ \E d \in DOMAIN requests : A = Udp!BagRemove(requests, d)
      BY <1>3, <1>4
    <2>2. QED
      BY ONLY <1>2, <1>5, <2>1
  <1>7. /\ IsBag(C) /\ DOMAIN C \subseteq Askers \X Texts
        /\ \A u \in Askers, t \in Texts :
             Copies(C, <<u, t>>) \in Nat /\ Copies(C, <<u, t>>) <= Copies(replies, <<u, t>>)
    <2>1. C = replies \/ \E d \in DOMAIN replies : C = Udp!BagRemove(replies, d)
      BY <1>3, <1>4
    <2>2. QED
      BY ONLY <1>2, <1>5, <2>1
  <1>8. UdpTyped'
    BY <1>1, <1>4, <1>6, <1>7 DEF UdpTyped
  <1>9. ASSUME NEW c \in Askers PROVE AskerOK(c)'
    <2>1. \A t \in Texts : /\ Asking(c, t)' \in Nat /\ Asking(c, t)' <= Asking(c, t)
                           /\ Answering(c, t)' \in Nat /\ Answering(c, t)' <= Answering(c, t)
      BY <1>4, <1>6, <1>7 DEF Asking, Answering
    <2>2. sent'[c] = sent[c] /\ told'[c] = told[c] /\ udpClient'[c] = udpClient[c] /\ repeated'[c] = repeated[c]
      BY <1>1
    <2>3. QED
      BY <2>1, <2>2, FewerUnderway
  <1>10. Udp!AnswersOwn'
    BY <1>1 DEF Udp!AnswersOwn
  <1>11. QED
    BY <1>8, <1>9, <1>10

LEMMA UdpRepeatStep == ASSUME UdpIInv, Udp!Repeat PROVE UdpIInv'
  <1> USE DEF UdpIInv
  <1>1. PICK d \in DOMAIN requests \cup DOMAIN replies :
          /\ udpClient' = udpClient /\ sent' = sent /\ told' = told
          /\ repeated' = [repeated EXCEPT ![d[1]] = repeated[d[1]] + 1]
          /\ \/ /\ d \in DOMAIN requests /\ requests' = Udp!BagAdd(requests, d)
                /\ replies' = replies
             \/ /\ d \in DOMAIN replies /\ replies' = Udp!BagAdd(replies, d)
                /\ requests' = requests
    BY DEF Udp!Repeat
  <1>2. /\ IsBag(requests) /\ DOMAIN requests \subseteq Askers \X Texts
        /\ IsBag(replies) /\ DOMAIN replies \subseteq Askers \X Texts
    BY DEF UdpTyped
  <1>3. PICK c, q : c = d[1] /\ q = d[2]
    OBVIOUS
  <1>4. c \in Askers /\ q \in Texts /\ d = <<c, q>>
    BY <1>2, <1>3
  <1>5. ASSUME NEW B, IsBag(B), DOMAIN B \subseteq Askers \X Texts, NEW A,
               \/ A = B
               \/ d \in DOMAIN B /\ A = Udp!BagAdd(B, d)
        PROVE  /\ IsBag(A) /\ DOMAIN A \subseteq Askers \X Texts
               /\ \A u \in Askers, t \in Texts :
                    /\ Copies(A, <<u, t>>) \in Nat
                    /\ u # c => Copies(A, <<u, t>>) = Copies(B, <<u, t>>)
                    /\ Copies(A, <<u, t>>) > 0 => Copies(B, <<u, t>>) > 0
    <2>1. \A e : Copies(B, e) \in Nat /\ (e \in DOMAIN B <=> Copies(B, e) > 0)
      BY <1>5, CopiesFacts
    <2>2. CASE A = B
      BY <1>5, <2>1, <2>2
    <2>3. CASE d \in DOMAIN B /\ A = Udp!BagAdd(B, d)
      <3>1. A = Udp!BagAdd(B, <<c, q>>)
        BY <1>4, <2>3
      <3>2. /\ IsBag(A) /\ DOMAIN A \subseteq Askers \X Texts
            /\ \A u \in Askers, t \in Texts :
                 /\ Copies(A, <<u, t>>) \in Nat /\ Copies(B, <<u, t>>) \in Nat
                 /\ Copies(A, <<u, t>>) = Copies(B, <<u, t>>) + IF u = c /\ t = q THEN 1 ELSE 0
        BY ONLY <1>4, <1>5, <3>1, Joins
      <3>3. Copies(B, <<c, q>>) > 0
        BY <1>4, <2>1, <2>3
      <3>4. QED
        BY ONLY <3>2, <3>3
    <2>4. QED
      BY <1>5, <2>2, <2>3
  <1>6. PICK A, C : A = requests' /\ C = replies'
    OBVIOUS
  <1>7. /\ IsBag(A) /\ DOMAIN A \subseteq Askers \X Texts
        /\ \A u \in Askers, t \in Texts :
             /\ Copies(A, <<u, t>>) \in Nat
             /\ u # c => Copies(A, <<u, t>>) = Copies(requests, <<u, t>>)
             /\ Copies(A, <<u, t>>) > 0 => Copies(requests, <<u, t>>) > 0
    <2>1. A = requests \/ (d \in DOMAIN requests /\ A = Udp!BagAdd(requests, d))
      BY <1>1, <1>6
    <2>2. QED
      BY ONLY <1>2, <1>5, <2>1
  <1>8. /\ IsBag(C) /\ DOMAIN C \subseteq Askers \X Texts
        /\ \A u \in Askers, t \in Texts :
             /\ Copies(C, <<u, t>>) \in Nat
             /\ u # c => Copies(C, <<u, t>>) = Copies(replies, <<u, t>>)
             /\ Copies(C, <<u, t>>) > 0 => Copies(replies, <<u, t>>) > 0
    <2>1. C = replies \/ (d \in DOMAIN replies /\ C = Udp!BagAdd(replies, d))
      BY <1>1, <1>6
    <2>2. QED
      BY ONLY <1>2, <1>5, <2>1
  <1>9. /\ repeated' = [repeated EXCEPT ![c] = repeated[c] + 1]
        /\ repeated'[c] # 0 /\ \A u \in Askers : u # c => repeated'[u] = repeated[u]
        /\ repeated' \in [Askers -> Nat]
    BY <1>1, <1>3, <1>4 DEF UdpTyped
  <1>10. UdpTyped'
    BY <1>1, <1>6, <1>7, <1>8, <1>9 DEF UdpTyped
  <1>11. AskerOK(c)'
    <2>1. AskerOK(c)
      BY <1>4
    <2>2. \A t \in Texts : (Asking(c, t)' > 0 => Asking(c, t) > 0) /\ (Answering(c, t)' > 0 => Answering(c, t) > 0)
      BY <1>4, <1>6, <1>7, <1>8 DEF Asking, Answering
    <2>3. OwnQuestions(c)' /\ OwnAnswers(c)'
      BY <1>1, <2>1, <2>2 DEF AskerOK, OwnQuestions, OwnAnswers
    <2>4. OnlyLatest(c)'
      BY <1>9 DEF OnlyLatest
    <2>5. QED
      BY <1>1, <2>1, <2>3, <2>4 DEF AskerOK
  <1>12. \A u \in Askers : u # c =>
           \A t \in Texts : Asking(u, t)' = Asking(u, t) /\ Answering(u, t)' = Answering(u, t)
    BY <1>6, <1>7, <1>8 DEF Asking, Answering
  <1>13. \A u \in Askers : repeated'[u] = 0 => repeated[u] = 0
    BY <1>9
  <1>14. QED
    BY <1>1, <1>4, <1>9, <1>10, <1>11, <1>12, <1>13, UdpOneAsker

LEMMA UdpNext == UdpIInv /\ [Udp!Next]_(Udp!vars) => UdpIInv'
  <1> SUFFICES ASSUME UdpIInv, [Udp!Next]_(Udp!vars) PROVE UdpIInv'
    OBVIOUS
  <1>1. CASE UNCHANGED Udp!vars
    BY <1>1 DEF Udp!vars, UdpIInv, UdpTyped, AskerOK, OwnQuestions, OwnAnswers, OnlyLatest, Asking,
                Answering, Udp!AnswersOwn
  <1>2. ASSUME NEW c \in Askers, Udp!Ask(c) \/ Udp!SayBye(c) \/ Udp!Receive(c) PROVE UdpIInv'
    BY <1>2, UdpAskStep, UdpSayByeStep, UdpReceiveStep
  <1>3. CASE Udp!Answer \/ Udp!Lose \/ Udp!Repeat
    BY <1>3, UdpAnswerStep, UdpLoseStep, UdpRepeatStep
  <1>4. QED
    BY <1>1, <1>2, <1>3 DEF Udp!Next

(* AnswersOwn of square-server-udp.c and square-client-udp.c.                 *)
THEOREM UdpAnswersOwn == Udp!Init /\ [][Udp!Next]_(Udp!vars) => []Udp!AnswersOwn
  <1>1. UdpIInv => Udp!AnswersOwn
    BY DEF UdpIInv
  <1>2. QED
    BY <1>1, UdpInit, UdpNext, PTL

-----------------------------------------------------------------------------
(***************************************************************************)
(* The tunnel.  Every packet is one its sender made; those its receiver    *)
(* will show, and those it has shown, are no more than were typed by users *)
(* whose messages reach it.                                                *)
(***************************************************************************)
Messages == {myname[u] : u \in Users} \X TunnelLines
NoSum == Tun!icmp_checksum(Tun!NoWords)

(* A packet of u's, and one that v takes for the message m: the code byte of  *)
(* the header is encrypted in every other packet.                             *)
Plain == <<0, FALSE>>
Encrypted == <<0, TRUE>>
Packet(u, code, data) ==
  [icmp |-> [type |-> <<8, TRUE>>, code |-> code,
             checksum |-> <<Tun!icmp_checksum(whoname[u].rest), TRUE>>],
   sname |-> myname[u], dname |-> whoname[u], data |-> data]
Passing(v, m, code) ==
  <<v, [icmp |-> [type |-> <<8, TRUE>>, code |-> code, checksum |-> <<NoSum, TRUE>>],
        sname |-> m[1], dname |-> myname[v], data |-> m[2]]>>

TunTyped == /\ header \in [Users -> {Plain, Encrypted}]
            /\ typed \in [Users -> Seq(TunnelLines)]
            /\ \A u \in Users : Len(typed[u]) <= MaxSent
            /\ shown \in [Users -> Seq(Messages)]
            /\ IsBag(packets)
            /\ \A p \in DOMAIN packets :
                 \E u \in Users, code \in {Plain, Encrypted}, data \in TunnelLines :
                   p = <<Peer[u], Packet(u, code, data)>>
Budget(v, m) == Cardinality(Tun!Showings(m, v))
                  + Copies(packets, Passing(v, m, Plain)) + Copies(packets, Passing(v, m, Encrypted))
                <= Cardinality(Tun!Typings(m, v))
TunIInv == TunTyped /\ \A v \in Users, m \in Messages : Budget(v, m)

LEMMA SameCounting ==
  /\ \A S : Tun!IsFiniteSet(S) <=> IsFiniteSet(S)
  /\ \A S : Tun!Cardinality(S) = Cardinality(S)
  <1>1. ASSUME NEW S PROVE Tun!IsFiniteSet(S) <=> IsFiniteSet(S)
    BY Zenon DEF Tun!IsFiniteSet, IsFiniteSet
  <1>2. ASSUME NEW S PROVE Tun!Cardinality(S) = Cardinality(S)
    BY Zenon DEF Tun!Cardinality, Cardinality
  <1>3. QED
    BY <1>1, <1>2

LEMMA TunConstants == /\ IsFiniteSet(Users) /\ Peer \in [Users -> Users] /\ MaxSent \in Nat
                      /\ \A u \in Users : whoname[u].rest \in [1..4 -> 0..Tun!WordSize - 1]
  BY Assumptions, SameCounting DEF Tun!TunnelAssumption

LEMMA WordSizeIs == Tun!WordSize = 65536
  BY DEF Tun!WordSize

(* Only a name without a third byte has the checksum of an empty buffer.      *)
LEMMA CarriesGone ==
  ASSUME NEW s \in Nat, NEW q \in Nat, NEW r \in Nat, NEW k \in Nat, NEW z \in Nat,
         s = 65536 * q + r, r < 65536, q < 4,
         q + r = 65536 * k + z, z < 65536,
         (q + r + k) % 65536 = 0
  PROVE  s = 0
  <1>1. (k = 0 /\ q + r = z) \/ (k = 1 /\ q + r >= 65536 /\ q + r <= 65538)
    OBVIOUS
  <1>2. CASE k = 0
    <2>1. q + r + k = z
      BY <1>1, <1>2
    <2>2. z = 0
      BY <2>1
    <2>3. QED
      BY <1>1, <1>2, <2>2
  <1>3. CASE k = 1
    <2>1. PICK y \in Nat : q + r + k = y
      OBVIOUS
    <2>2. y >= 65537 /\ y <= 65539 /\ y % 65536 = 0
      BY <1>1, <1>3, <2>1
    <2>3. QED
      BY ONLY <2>2, y \in Nat
  <1>4. QED
    BY <1>1, <1>2, <1>3

LEMMA Divided ==
  ASSUME NEW s \in Nat
  PROVE  /\ s = 65536 * (s \div 65536) + (s % 65536)
         /\ s \div 65536 \in Nat /\ s % 65536 \in Nat /\ s % 65536 < 65536
  OBVIOUS

LEMMA FourWords ==
  ASSUME NEW W \in Nat, NEW rest \in [1..4 -> 0..W - 1]
  PROVE  /\ \A i \in 1..4 : rest[i] \in Nat /\ rest[i] < W
         /\ (\A i \in 1..4 : rest[i] = 0) => rest = <<0, 0, 0, 0>>
  <1>1. <<0, 0, 0, 0>> = [i \in 1..4 |-> 0]
    OBVIOUS
  <1>2. QED
    BY <1>1

LEMMA SumOfNoWords ==
  ASSUME NEW rest, rest \in [1..4 -> 0..Tun!WordSize - 1], Tun!icmp_checksum(rest) = NoSum
  PROVE  rest = Tun!NoWords
  <1>1. PICK s : s = rest[1] + rest[2] + rest[3] + rest[4]
    OBVIOUS
  <1>2. PICK W : W = Tun!WordSize
    OBVIOUS
  <1>3. W = 65536
    BY ONLY <1>2, WordSizeIs
  <1>4. rest \in [1..4 -> 0..W - 1]
    BY <1>2
  <1>5. /\ \A i \in 1..4 : rest[i] \in Nat /\ rest[i] < W
        /\ (\A i \in 1..4 : rest[i] = 0) => rest = <<0, 0, 0, 0>>
    <2>1. W \in Nat
      BY ONLY <1>3
    <2>2. QED
      BY ONLY <2>1, <1>4, FourWords
  <1>6. s \in Nat /\ s < 4 * 65536
    BY <1>1, <1>3, <1>5
  <1>7. PICK q, r : q = s \div 65536 /\ r = s % 65536
    OBVIOUS
  <1>8. /\ s = 65536 * q + r /\ q \in Nat /\ r \in Nat /\ r < 65536
    BY ONLY <1>6, <1>7, Divided
  <1>9. PICK k, z : k = (q + r) \div 65536 /\ z = (q + r) % 65536
    OBVIOUS
  <1>10. q + r = 65536 * k + z /\ k \in Nat /\ z \in Nat /\ z < 65536
    <2>1. PICK o : o = q + r
      OBVIOUS
    <2>2. o \in Nat
      BY <1>8, <2>1
    <2>3. /\ o = 65536 * (o \div 65536) + (o % 65536)
          /\ o \div 65536 \in Nat /\ o % 65536 \in Nat /\ o % 65536 < 65536
      BY ONLY <2>2, Divided
    <2>4. QED
      BY <1>9, <2>1, <2>3
  <1>11. NoSum = 65535
    <2>1. PICK w : w = Tun!NoWords
      OBVIOUS
    <2>2. w[1] = 0 /\ w[2] = 0 /\ w[3] = 0 /\ w[4] = 0
      BY ONLY <2>1 DEF Tun!NoWords
    <2>3. w[1] + w[2] + w[3] + w[4] = 0
      BY ONLY <2>2
    <2>4. Tun!icmp_checksum(w) = 65535
      BY ONLY WordSizeIs, <2>3 DEF Tun!icmp_checksum
    <2>5. QED
      BY ONLY <2>1, <2>4 DEF NoSum
  <1>12. Tun!icmp_checksum(rest) = 65535 - ((q + r + k) % 65536)
    BY ONLY <1>1, <1>7, <1>9, WordSizeIs DEF Tun!icmp_checksum
  <1>13. (q + r + k) % 65536 = 0
    <2>1. PICK o : o = (q + r + k) % 65536
      OBVIOUS
    <2>2. o \in Int
      BY ONLY <1>8, <1>10, <2>1
    <2>3. 65535 - o = 65535
      BY ONLY <1>11, <1>12, <2>1, Tun!icmp_checksum(rest) = NoSum
    <2>4. o = 0
      BY <2>2, <2>3
    <2>5. QED
      BY <2>1, <2>4
  <1>14. q < 4
    BY ONLY <1>6, <1>8
  <1>15. s = 0
    BY ONLY <1>6, <1>8, <1>10, <1>13, <1>14, CarriesGone
  <1>16. \A i \in 1..4 : rest[i] = 0
    <2>1. PICK a, b, c, d : a = rest[1] /\ b = rest[2] /\ c = rest[3] /\ d = rest[4]
      OBVIOUS
    <2>2. a \in Nat /\ b \in Nat /\ c \in Nat /\ d \in Nat /\ a + b + c + d = 0
      BY ONLY <1>1, <1>5, <1>15, <2>1
    <2>3. a = 0 /\ b = 0 /\ c = 0 /\ d = 0
      BY ONLY <2>2
    <2>4. \A i \in 1..4 : i = 1 \/ i = 2 \/ i = 3 \/ i = 4
      OBVIOUS
    <2>5. QED
      BY ONLY <2>1, <2>3, <2>4
  <1>17. QED
    BY <1>5, <1>16 DEF Tun!NoWords

LEMMA ReachingPackets ==
  ASSUME NEW u \in Users, NEW v \in Users, NEW m \in Messages, NEW code, NEW other,
         NEW data \in TunnelLines,
         <<Peer[u], Packet(u, code, data)>> = Passing(v, m, other)
  PROVE  code = other /\ Tun!Reaches(u, v) /\ m = <<myname[u], data>>
  <1>1. /\ Peer[u] = v /\ code = other /\ Tun!icmp_checksum(whoname[u].rest) = NoSum
        /\ myname[u] = m[1] /\ whoname[u] = myname[v] /\ data = m[2]
    <2>1. PICK s, my, who, m1, m2, name :
             /\ s = Tun!icmp_checksum(whoname[u].rest) /\ my = myname[u] /\ who = whoname[u]
             /\ m1 = m[1] /\ m2 = m[2] /\ name = myname[v]
      OBVIOUS
    <2>2. <<Peer[u], [icmp |-> [type |-> <<8, TRUE>>, code |-> code, checksum |-> <<s, TRUE>>],
                      sname |-> my, dname |-> who, data |-> data]>>
          = <<v, [icmp |-> [type |-> <<8, TRUE>>, code |-> other, checksum |-> <<NoSum, TRUE>>],
                  sname |-> m1, dname |-> name, data |-> m2]>>
      BY <2>1 DEF Packet, Passing
    <2>3. /\ Peer[u] = v
          /\ [icmp |-> [type |-> <<8, TRUE>>, code |-> code, checksum |-> <<s, TRUE>>],
              sname |-> my, dname |-> who, data |-> data]
             = [icmp |-> [type |-> <<8, TRUE>>, code |-> other, checksum |-> <<NoSum, TRUE>>],
                sname |-> m1, dname |-> name, data |-> m2]
      BY ONLY <2>2
    <2>4. /\ my = m1 /\ who = name /\ data = m2
          /\ [type |-> <<8, TRUE>>, code |-> code, checksum |-> <<s, TRUE>>]
             = [type |-> <<8, TRUE>>, code |-> other, checksum |-> <<NoSum, TRUE>>]
      BY ONLY <2>3
    <2>5. code = other /\ <<s, TRUE>> = <<NoSum, TRUE>>
      BY ONLY <2>4
    <2>6. s = NoSum
      BY ONLY <2>5
    <2>7. QED
      BY <2>1, <2>3, <2>4, <2>5, <2>6
  <1>2. whoname[u].rest \in [1..4 -> 0..Tun!WordSize - 1]
    BY TunConstants
  <1>3. whoname[u].rest = Tun!NoWords
    BY <1>1, <1>2, SumOfNoWords
  <1>4. m = <<m[1], m[2]>>
    BY DEF Messages
  <1>5. QED
    BY <1>1, <1>3, <1>4 DEF Tun!Reaches

LEMMA TunFinite ==
  ASSUME TunTyped, NEW v \in Users, NEW m
  PROVE  /\ IsFiniteSet(Tun!Typings(m, v)) /\ Cardinality(Tun!Typings(m, v)) \in Nat
         /\ IsFiniteSet(Tun!Showings(m, v)) /\ Cardinality(Tun!Showings(m, v)) \in Nat
  <1>1. IsFiniteSet(Users) /\ MaxSent \in Nat
    BY TunConstants
  <1>2. IsFiniteSet(1..MaxSent)
    BY <1>1, FS_Interval
  <1>3. IsFiniteSet(Users \X (1..MaxSent))
    BY <1>1, <1>2, FS_Product
  <1>4. Tun!Typings(m, v) \subseteq Users \X (1..MaxSent)
    BY DEF Tun!Typings
  <1>5. Len(shown[v]) \in Nat /\ DOMAIN shown[v] = 1..Len(shown[v])
    BY DEF TunTyped
  <1>6. IsFiniteSet(1..Len(shown[v]))
    <2>1. 1 \in Int /\ Len(shown[v]) \in Int
      BY <1>5
    <2>2. QED
      BY ONLY <2>1, FS_Interval
  <1>7. Tun!Showings(m, v) \subseteq 1..Len(shown[v])
    BY <1>5 DEF Tun!Showings
  <1>8. QED
    BY <1>3, <1>4, <1>6, <1>7, FS_Subset, FS_CardinalityType

LEMMA TunInit == Tun!Init => TunIInv
  <1> SUFFICES ASSUME Tun!Init PROVE TunIInv
    OBVIOUS
  <1>1. /\ IsBag(packets) /\ DOMAIN packets = {}
        /\ typed = [u \in Users |-> <<>>] /\ shown = [u \in Users |-> <<>>]
        /\ header = [u \in Users |-> <<0, FALSE>>]
    <2>1. packets = Tun!NoneUnderWay
      BY DEF Tun!Init
    <2>2. IsBag(packets) /\ DOMAIN packets = {}
      BY <2>1, EmptyBagFacts
    <2>3. QED
      BY <2>2 DEF Tun!Init
  <1>2. \A S : <<>> \in Seq(S) /\ Len(<<>>) = 0 /\ DOMAIN <<>> = {}
    OBVIOUS
  <1>3. MaxSent \in Nat
    BY TunConstants
  <1>4. TunTyped
    BY <1>1, <1>2, <1>3 DEF TunTyped, Plain, Encrypted
  <1>5. ASSUME NEW v \in Users, NEW m \in Messages PROVE Budget(v, m)
    <2>1. Tun!Showings(m, v) = {}
      BY <1>1, <1>2 DEF Tun!Showings
    <2>2. Cardinality(Tun!Showings(m, v)) = 0
      BY <2>1, FS_EmptySet
    <2>3. Copies(packets, Passing(v, m, Plain)) = 0 /\ Copies(packets, Passing(v, m, Encrypted)) = 0
      BY <1>1 DEF Copies
    <2>4. QED
      BY <1>4, <2>2, <2>3, TunFinite DEF Budget
  <1>6. QED
    BY <1>4, <1>5 DEF TunIInv

LEMMA TunAddFacts ==
  ASSUME IsBag(packets), NEW p, packets' = Tun!Bag!BagAdd(packets, p)
  PROVE  /\ IsBag(packets') /\ DOMAIN packets' = DOMAIN packets \cup {p}
         /\ \A e : Copies(packets', e) = Copies(packets, e) + IF e = p THEN 1 ELSE 0
  <1>1. PICK B : B = packets
    OBVIOUS
  <1>2. IsBag(B) /\ packets' = Tun!Bag!BagAdd(B, p)
    BY <1>1
  <1>3. /\ IsBag(Tun!Bag!BagAdd(B, p)) /\ DOMAIN Tun!Bag!BagAdd(B, p) = DOMAIN B \cup {p}
        /\ \A e : Copies(Tun!Bag!BagAdd(B, p), e) = Copies(B, e) + IF e = p THEN 1 ELSE 0
    BY ONLY <1>2, AddFacts
  <1>4. QED
    BY ONLY <1>1, <1>2, <1>3

LEMMA TunRemoveFacts ==
  ASSUME IsBag(packets), NEW p \in DOMAIN packets, packets' = Tun!Bag!BagRemove(packets, p)
  PROVE  /\ IsBag(packets') /\ DOMAIN packets' \subseteq DOMAIN packets
         /\ \A e : Copies(packets', e) = Copies(packets, e) - IF e = p THEN 1 ELSE 0
  <1>1. PICK B, A : B = packets /\ A = packets'
    OBVIOUS
  <1>2. IsBag(B) /\ p \in DOMAIN B /\ A = Tun!Bag!BagRemove(B, p)
    BY <1>1
  <1>3. /\ IsBag(A) /\ DOMAIN A \subseteq DOMAIN B
        /\ \A e : Copies(A, e) = Copies(B, e) - IF e = p THEN 1 ELSE 0
    BY ONLY <1>2, RemoveFacts
  <1>4. QED
    BY ONLY <1>1, <1>3

LEMMA TunLoseStep == ASSUME TunIInv, Tun!Lose PROVE TunIInv'
  <1> USE DEF TunIInv
  <1>1. PICK p \in DOMAIN packets : packets' = Tun!Bag!BagRemove(packets, p)
    BY DEF Tun!Lose
  <1>2. header' = header /\ typed' = typed /\ shown' = shown
    BY DEF Tun!Lose
  <1>3. /\ IsBag(packets') /\ DOMAIN packets' \subseteq DOMAIN packets
        /\ \A e : Copies(packets', e) = Copies(packets, e) - IF e = p THEN 1 ELSE 0
    BY <1>1, TunRemoveFacts DEF TunTyped
  <1>4. TunTyped'
    BY <1>2, <1>3 DEF TunTyped
  <1>5. ASSUME NEW v \in Users, NEW m \in Messages PROVE Budget(v, m)'
    <2>1. Tun!Showings(m, v)' = Tun!Showings(m, v) /\ Tun!Typings(m, v)' = Tun!Typings(m, v)
      BY <1>2 DEF Tun!Showings, Tun!Typings, Tun!Reaches
    <2>2. Budget(v, m)
      OBVIOUS
    <2>3. \A code : Passing(v, m, code)' = Passing(v, m, code)
      BY DEF Passing
    <2>4. /\ Copies(packets, Passing(v, m, Plain)) \in Nat /\ Copies(packets, Passing(v, m, Encrypted)) \in Nat
          /\ Copies(packets', Passing(v, m, Plain)) \in Nat /\ Copies(packets', Passing(v, m, Encrypted)) \in Nat
      BY <1>3, CopiesFacts DEF TunTyped
    <2>5. /\ Copies(packets', Passing(v, m, Plain)) <= Copies(packets, Passing(v, m, Plain))
          /\ Copies(packets', Passing(v, m, Encrypted)) <= Copies(packets, Passing(v, m, Encrypted))
      BY <1>3, <2>4
    <2>6. Cardinality(Tun!Showings(m, v)) \in Nat /\ Cardinality(Tun!Typings(m, v)) \in Nat
      BY TunFinite
    <2>7. QED
      BY <2>1, <2>2, <2>4, <2>5, <2>6 DEF Budget
  <1>6. QED
    BY <1>4, <1>5

(* Encrypting flips every byte of the header, and decrypting flips it back.   *)
LEMMA FlipFacts == /\ Tun!Flip(Plain) = Encrypted /\ Tun!Flip(Encrypted) = Plain
                   /\ \A n : Tun!Flip(<<n, FALSE>>) = <<n, TRUE>> /\ Tun!Flip(<<n, TRUE>>) = <<n, FALSE>>
  BY DEF Tun!Flip, Plain, Encrypted

LEMMA EncryptFacts ==
  ASSUME NEW t, NEW code, NEW sum
  PROVE  Tun!encrypt([type |-> t, code |-> code, checksum |-> sum])
           = [type |-> Tun!Flip(t), code |-> Tun!Flip(code), checksum |-> Tun!Flip(sum)]
  BY DEF Tun!encrypt

LEMMA TunSendStep == ASSUME TunIInv, NEW u \in Users, Tun!senddata(u) PROVE TunIInv'
  <1> USE DEF TunIInv
  <1> DEFINE h == Tun!encrypt([type |-> <<8, FALSE>>, code |-> header[u],
                               checksum |-> <<Tun!icmp_checksum(whoname[u].rest), FALSE>>])
  <1>1. PICK data \in TunnelLines :
          /\ header' = [header EXCEPT ![u] = h.code]
          /\ typed' = [typed EXCEPT ![u] = Append(typed[u], data)]
          /\ packets' = Tun!Bag!BagAdd(packets, <<Peer[u], [icmp |-> h, sname |-> myname[u],
                                                           dname |-> whoname[u], data |-> data]>>)
    BY DEF Tun!senddata, Tun!ICMP_ECHO
  <1>2. Len(typed[u]) < MaxSent /\ shown' = shown
    BY DEF Tun!senddata
  <1>3. PICK code : code = Tun!Flip(header[u])
    OBVIOUS
  <1>4. code \in {Plain, Encrypted}
    <2>1. header[u] \in {Plain, Encrypted}
      BY DEF TunTyped
    <2>2. QED
      BY <1>3, <2>1, FlipFacts
  <1>5. /\ h = [type |-> <<8, TRUE>>, code |-> code,
                checksum |-> <<Tun!icmp_checksum(whoname[u].rest), TRUE>>]
        /\ h.code = code
    <2>1. PICK s : s = Tun!icmp_checksum(whoname[u].rest)
      OBVIOUS
    <2>2. h = Tun!encrypt([type |-> <<8, FALSE>>, code |-> header[u], checksum |-> <<s, FALSE>>])
      BY <1>1, <2>1
    <2> HIDE DEF h
    <2>3. h = [type |-> Tun!Flip(<<8, FALSE>>), code |-> code, checksum |-> Tun!Flip(<<s, FALSE>>)]
      BY ONLY <1>3, <2>2, EncryptFacts
    <2>4. h = [type |-> <<8, TRUE>>, code |-> code, checksum |-> <<s, TRUE>>]
      BY ONLY <2>3, FlipFacts
    <2>5. QED
      BY <2>1, <2>4
  <1> HIDE DEF h
  <1>6. PICK p : p = <<Peer[u], Packet(u, code, data)>>
    OBVIOUS
  <1>7. /\ IsBag(packets') /\ DOMAIN packets' = DOMAIN packets \cup {p}
        /\ \A e : Copies(packets', e) = Copies(packets, e) + IF e = p THEN 1 ELSE 0
    <2>1. packets' = Tun!Bag!BagAdd(packets, p)
      BY <1>1, <1>5, <1>6 DEF Packet
    <2>2. IsBag(packets)
      BY DEF TunTyped
    <2>3. QED
      BY ONLY <2>1, <2>2, TunAddFacts
  <1>8. /\ typed[u] \in Seq(TunnelLines) /\ Len(typed[u]) \in Nat
        /\ typed'[u] \in Seq(TunnelLines) /\ Len(typed'[u]) = Len(typed[u]) + 1
        /\ \A i \in 1..Len(typed[u]) : typed'[u][i] = typed[u][i]
        /\ typed'[u][Len(typed[u]) + 1] = data
        /\ \A v \in Users : v # u => typed'[v] = typed[v]
    <2>1. typed'[u] = Append(typed[u], data) /\ typed[u] \in Seq(TunnelLines)
      BY <1>1 DEF TunTyped
    <2>2. \A v \in Users : v # u => typed'[v] = typed[v]
      BY <1>1 DEF TunTyped
    <2>3. QED
      BY <2>1, <2>2, AppendFacts, AppendProperties
  <1>9. TunTyped'
    <2>1. header' \in [Users -> {Plain, Encrypted}]
      BY <1>1, <1>4, <1>5 DEF TunTyped
    <2>2. typed' \in [Users -> Seq(TunnelLines)]
      BY <1>1, <1>8 DEF TunTyped
    <2>3. \A v \in Users : Len(typed'[v]) <= MaxSent
      <3>1. Len(typed'[u]) <= MaxSent
        BY <1>2, <1>8, TunConstants
      <3>2. \A v \in Users : v # u => Len(typed'[v]) <= MaxSent
        BY <1>8 DEF TunTyped
      <3>3. QED
        BY <3>1, <3>2
    <2>4. \A e \in DOMAIN packets' :
            \E v \in Users, c \in {Plain, Encrypted}, d \in TunnelLines :
              e = <<Peer[v], Packet(v, c, d)>>
      BY <1>4, <1>6, <1>7 DEF TunTyped
    <2>5. QED
      BY <1>2, <1>7, <2>1, <2>2, <2>3, <2>4 DEF TunTyped, Packet
  <1>10. ASSUME NEW v \in Users, NEW m \in Messages PROVE Budget(v, m)'
    <2>1. Budget(v, m) /\ Tun!Showings(m, v)' = Tun!Showings(m, v)
      BY <1>2 DEF Tun!Showings
    <2>2. /\ Cardinality(Tun!Typings(m, v)) \in Nat /\ Cardinality(Tun!Typings(m, v)') \in Nat
          /\ IsFiniteSet(Tun!Typings(m, v)) /\ IsFiniteSet(Tun!Typings(m, v)')
          /\ Cardinality(Tun!Showings(m, v)) \in Nat
      <3>1. TunTyped
        OBVIOUS
      <3>2. Tun!Typings(m, v)' \subseteq Users \X (1..MaxSent)
        BY DEF Tun!Typings
      <3>3. IsFiniteSet(Users \X (1..MaxSent))
        <4>1. 1 \in Int /\ MaxSent \in Int /\ IsFiniteSet(Users)
          BY TunConstants
        <4>2. IsFiniteSet(1..MaxSent)
          BY ONLY <4>1, FS_Interval
        <4>3. QED
          BY ONLY <4>1, <4>2, FS_Product
      <3>4. IsFiniteSet(Tun!Typings(m, v)') /\ Cardinality(Tun!Typings(m, v)') \in Nat
        BY ONLY <3>2, <3>3, FS_Subset, FS_CardinalityType
      <3>5. QED
        BY <3>1, <3>4, TunFinite
    <2>3. Tun!Typings(m, v) \subseteq Tun!Typings(m, v)'
      <3>1. \A t \in Users \X (1..MaxSent) :
              t[2] <= Len(typed[t[1]]) => t[2] <= Len(typed'[t[1]]) /\ typed'[t[1]][t[2]] = typed[t[1]][t[2]]
        <4> SUFFICES ASSUME NEW w \in Users, NEW i \in 1..MaxSent, i <= Len(typed[w])
                     PROVE  i <= Len(typed'[w]) /\ typed'[w][i] = typed[w][i]
          OBVIOUS
        <4>1. CASE w = u
          <5>1. i \in 1..Len(typed[u]) /\ i <= Len(typed'[u])
            BY <1>8, <4>1, TunConstants
          <5>2. QED
            BY <1>8, <4>1, <5>1
        <4>2. CASE w # u
          BY <1>8, <4>2
        <4>3. QED
          BY <4>1, <4>2
      <3>2. QED
        BY <3>1 DEF Tun!Typings, Tun!Reaches
    <2>4. Cardinality(Tun!Typings(m, v)) <= Cardinality(Tun!Typings(m, v)')
      BY <2>2, <2>3, FS_Subset
    <2>5. PICK one, two : one = Passing(v, m, Plain) /\ two = Passing(v, m, Encrypted)
      OBVIOUS
    <2>6. one # two
      <3>1. Plain # Encrypted
        BY DEF Plain, Encrypted
      <3>2. PICK s, m1, m2, name : s = <<NoSum, TRUE>> /\ m1 = m[1] /\ m2 = m[2] /\ name = myname[v]
        OBVIOUS
      <3>3. /\ one = <<v, [icmp |-> [type |-> <<8, TRUE>>, code |-> Plain, checksum |-> s],
                           sname |-> m1, dname |-> name, data |-> m2]>>
            /\ two = <<v, [icmp |-> [type |-> <<8, TRUE>>, code |-> Encrypted, checksum |-> s],
                           sname |-> m1, dname |-> name, data |-> m2]>>
        BY <2>5, <3>2 DEF Passing
      <3>4. one[2].icmp.code = Plain /\ two[2].icmp.code = Encrypted
        BY ONLY <3>3
      <3>5. QED
        BY ONLY <3>1, <3>4
    <2>7. /\ Copies(packets, one) \in Nat /\ Copies(packets, two) \in Nat
          /\ Copies(packets', one) = Copies(packets, one) + IF one = p THEN 1 ELSE 0
          /\ Copies(packets', two) = Copies(packets, two) + IF two = p THEN 1 ELSE 0
      <3>1. IsBag(packets)
        BY DEF TunTyped
      <3>2. QED
        BY <1>7, <3>1, CopiesFacts
    <2>8. /\ Cardinality(Tun!Showings(m, v)) + Copies(packets, one) + Copies(packets, two)
               <= Cardinality(Tun!Typings(m, v))
          /\ Budget(v, m)' <=> Cardinality(Tun!Showings(m, v)) + Copies(packets', one) + Copies(packets', two)
                                 <= Cardinality(Tun!Typings(m, v)')
      BY <2>1, <2>5 DEF Budget, Passing
    <2>9. ASSUME p = one \/ p = two
          PROVE  Cardinality(Tun!Typings(m, v)) + 1 <= Cardinality(Tun!Typings(m, v)')
      <3>1. Tun!Reaches(u, v) /\ m = <<myname[u], data>>
        BY <1>6, <2>5, <2>9, ReachingPackets
      <3>2. PICK e : e = <<u, Len(typed[u]) + 1>>
        OBVIOUS
      <3>3. e \in Users \X (1..MaxSent) /\ e[1] = u /\ e[2] = Len(typed[u]) + 1
        BY <1>2, <1>8, <3>2, TunConstants
      <3>4. e \in Tun!Typings(m, v)'
        <4>1. e[2] <= Len(typed'[e[1]]) /\ m[2] = typed'[e[1]][e[2]] /\ m[1] = myname[e[1]]
          BY <1>8, <3>1, <3>3
        <4>2. QED
          BY <3>1, <3>3, <4>1 DEF Tun!Typings, Tun!Reaches
      <3>5. e \notin Tun!Typings(m, v)
        BY <1>8, <3>3 DEF Tun!Typings
      <3>6. PICK T, X : T = Tun!Typings(m, v) /\ X = Tun!Typings(m, v)'
        OBVIOUS
      <3>7. /\ IsFiniteSet(T) /\ Cardinality(T \cup {e}) = Cardinality(T) + 1
            /\ IsFiniteSet(X) /\ T \cup {e} \subseteq X
        BY <2>2, <2>3, <3>4, <3>5, <3>6, CardFacts
      <3>8. Cardinality(T \cup {e}) <= Cardinality(X)
        BY ONLY <3>7, FS_Subset
      <3>9. QED
        BY ONLY <3>6, <3>7, <3>8
    <2>10. QED
      BY <2>2, <2>4, <2>6, <2>7, <2>8, <2>9
  <1>11. QED
    BY <1>9, <1>10

LEMMA TunReceiveStep == ASSUME TunIInv, NEW u \in Users, Tun!Receive(u) PROVE TunIInv'
  <1> USE DEF TunIInv
  <1>1. PICK p \in DOMAIN packets :
          /\ p[1] = u /\ packets' = Tun!Bag!BagRemove(packets, p)
          /\ shown' = IF Tun!filter(u, Tun!decrypt(p[2].icmp), p[2])
                        THEN [shown EXCEPT ![u] = Append(shown[u], <<p[2].sname, p[2].data>>)]
                        ELSE shown
    BY DEF Tun!Receive
  <1>2. header' = header /\ typed' = typed
    BY DEF Tun!Receive
  <1>3. /\ IsBag(packets') /\ DOMAIN packets' \subseteq DOMAIN packets
        /\ \A e : Copies(packets', e) = Copies(packets, e) - IF e = p THEN 1 ELSE 0
    BY <1>1, TunRemoveFacts DEF TunTyped
  <1>4. PICK w \in Users, code \in {Plain, Encrypted}, data \in TunnelLines :
          p = <<Peer[w], Packet(w, code, data)>>
    BY DEF TunTyped
  <1>5. PICK s, name : s = Tun!icmp_checksum(whoname[w].rest) /\ name = whoname[w]
    OBVIOUS
  <1>6. /\ Peer[w] = u
        /\ p[2].icmp = [type |-> <<8, TRUE>>, code |-> code, checksum |-> <<s, TRUE>>]
        /\ p[2].sname = myname[w] /\ p[2].dname = name /\ p[2].data = data
    BY <1>1, <1>4, <1>5 DEF Packet
  <1>7. PICK m : m = <<myname[w], data>>
    OBVIOUS
  <1>8. m \in Messages /\ m[1] = myname[w] /\ m[2] = data
    BY <1>7 DEF Messages
  (* What is shown has passed: the checksum is that of an empty buffer.       *)
  <1>9. Tun!filter(u, Tun!decrypt(p[2].icmp), p[2]) => p = Passing(u, m, code)
    <2> SUFFICES ASSUME Tun!filter(u, Tun!decrypt(p[2].icmp), p[2]) PROVE p = Passing(u, m, code)
      OBVIOUS
    <2>1. Tun!decrypt(p[2].icmp)
            = [type |-> Tun!Flip(<<8, TRUE>>), code |-> Tun!Flip(code), checksum |-> Tun!Flip(<<s, TRUE>>)]
      BY ONLY <1>6, EncryptFacts DEF Tun!decrypt
    <2>2. PICK h : h = Tun!decrypt(p[2].icmp)
      OBVIOUS
    <2>3. h.checksum = <<s, FALSE>>
      <3>1. h.checksum = Tun!Flip(<<s, TRUE>>)
        BY ONLY <2>1, <2>2
      <3>2. QED
        BY ONLY <3>1, FlipFacts
    <2>4. p[2].dname = myname[u] /\ h.checksum = <<NoSum, FALSE>>
      BY <2>2 DEF Tun!filter, NoSum
    <2>5. s = NoSum /\ name = myname[u]
      BY ONLY <1>6, <2>3, <2>4
    <2>6. QED
      BY ONLY <1>4, <1>5, <1>6, <1>8, <2>5 DEF Packet, Passing
  <1>10. /\ shown[u] \in Seq(Messages) /\ Len(shown[u]) \in Nat /\ DOMAIN shown[u] = 1..Len(shown[u])
         /\ \A v \in Users : v # u => shown'[v] = shown[v]
         /\ shown'[u] \in {shown[u], Append(shown[u], m)}
         /\ shown'[u] # shown[u] => p = Passing(u, m, code)
    <2>1. shown \in [Users -> Seq(Messages)]
      BY DEF TunTyped
    <2>2. <<p[2].sname, p[2].data>> = m
      BY <1>6, <1>7
    <2>3. shown' = shown \/ (shown' = [shown EXCEPT ![u] = Append(shown[u], m)] /\ p = Passing(u, m, code))
      BY <1>1, <1>9, <2>2
    <2>4. QED
      BY <2>1, <2>3
  <1>11. shown' \in [Users -> Seq(Messages)]
    <2>1. shown \in [Users -> Seq(Messages)] /\ <<p[2].sname, p[2].data>> = m
      BY <1>6, <1>7 DEF TunTyped
    <2>2. Append(shown[u], m) \in Seq(Messages)
      BY <1>8, <1>10
    <2>3. QED
      BY <1>1, <2>1, <2>2
  <1>12. TunTyped'
    BY <1>2, <1>3, <1>11 DEF TunTyped, Packet
  <1>13. ASSUME NEW v \in Users, NEW l \in Messages PROVE Budget(v, l)'
    <2>1. Budget(v, l) /\ Tun!Typings(l, v)' = Tun!Typings(l, v)
      BY <1>2 DEF Tun!Typings, Tun!Reaches
    <2>2. /\ Cardinality(Tun!Typings(l, v)) \in Nat /\ Cardinality(Tun!Showings(l, v)) \in Nat
          /\ IsFiniteSet(Tun!Showings(l, v))
      BY TunFinite
    <2>3. PICK one, two : one = Passing(v, l, Plain) /\ two = Passing(v, l, Encrypted)
      OBVIOUS
    <2>4. /\ Copies(packets, one) \in Nat /\ Copies(packets, two) \in Nat
          /\ Copies(packets', one) \in Nat /\ Copies(packets', two) \in Nat
          /\ Copies(packets', one) = Copies(packets, one) - IF one = p THEN 1 ELSE 0
          /\ Copies(packets', two) = Copies(packets, two) - IF two = p THEN 1 ELSE 0
      <3>1. IsBag(packets)
        BY DEF TunTyped
      <3>2. QED
        BY <1>3, <3>1, CopiesFacts
    <2>5. /\ Cardinality(Tun!Showings(l, v)) + Copies(packets, one) + Copies(packets, two)
               <= Cardinality(Tun!Typings(l, v))
          /\ Cardinality(Tun!Showings(l, v)') + Copies(packets', one) + Copies(packets', two)
               <= Cardinality(Tun!Typings(l, v))
             => Budget(v, l)'
      BY <2>1, <2>3 DEF Budget, Passing
    <2>6. CASE shown'[v] = shown[v]
      <3>1. Tun!Showings(l, v)' = Tun!Showings(l, v)
        BY <2>6 DEF Tun!Showings
      <3>2. QED
        BY <2>2, <2>4, <2>5, <3>1
    <2>7. CASE shown'[v] # shown[v]
      <3>1. v = u /\ shown'[u] = Append(shown[u], m) /\ p = Passing(u, m, code)
        BY <1>10, <2>7
      <3>2. PICK n : n = Len(shown[u]) + 1
        OBVIOUS
      <3>3. /\ DOMAIN shown'[u] = DOMAIN shown[u] \cup {n} /\ n \notin DOMAIN shown[u]
            /\ shown'[u][n] = m /\ \A k \in DOMAIN shown[u] : shown'[u][k] = shown[u][k]
        <4>1. /\ Len(shown'[u]) = n /\ DOMAIN shown'[u] = 1..n /\ n \in Nat \ {0}
              /\ \A k \in 1..Len(shown[u]) : shown'[u][k] = shown[u][k]
              /\ shown'[u][n] = m
          BY <1>8, <1>10, <3>1, <3>2, AppendProperties
        <4>2. 1..n = (1..Len(shown[u])) \cup {n} /\ n \notin 1..Len(shown[u])
          BY <1>10, <3>2
        <4>3. QED
          BY <1>10, <4>1, <4>2
      <3>4. CASE l # m
        <4>1. Tun!Showings(l, v)' = Tun!Showings(l, v)
          BY <3>1, <3>3, <3>4 DEF Tun!Showings
        <4>2. QED
          BY <2>2, <2>4, <2>5, <4>1
      <3>5. CASE l = m
        <4>1. PICK S : S = Tun!Showings(l, v)
          OBVIOUS
        <4>2. Tun!Showings(l, v)' = S \cup {n} /\ n \notin S
          BY <3>1, <3>3, <3>5, <4>1 DEF Tun!Showings
        <4>3. Cardinality(S \cup {n}) = Cardinality(S) + 1
          BY <2>2, <4>1, <4>2, CardFacts
        <4>4. one = p \/ two = p
          BY <1>4, <2>3, <3>1, <3>5
        <4>5. Cardinality(Tun!Showings(l, v)') = Cardinality(Tun!Showings(l, v)) + 1
          BY ONLY <4>1, <4>2, <4>3
        <4>6. QED
          BY <2>2, <2>4, <2>5, <4>4, <4>5
      <3>6. QED
        BY <3>4, <3>5
    <2>8. QED
      BY <2>6, <2>7
  <1>14. QED
    BY <1>12, <1>13

LEMMA TunNext == TunIInv /\ [Tun!Next]_(Tun!vars) => TunIInv'
  <1> SUFFICES ASSUME TunIInv, [Tun!Next]_(Tun!vars) PROVE TunIInv'
    OBVIOUS
  <1>1. CASE UNCHANGED Tun!vars \/ \E u \in Users : Tun!SendFails(u)
    <2>1. header' = header /\ typed' = typed /\ shown' = shown /\ packets' = packets
      BY <1>1 DEF Tun!vars, Tun!SendFails
    <2>2. TunTyped'
      BY <2>1 DEF TunIInv, TunTyped, Packet
    <2>3. ASSUME NEW v \in Users, NEW m \in Messages PROVE Budget(v, m)'
      <3>1. Tun!Showings(m, v)' = Tun!Showings(m, v) /\ Tun!Typings(m, v)' = Tun!Typings(m, v)
        BY <2>1 DEF Tun!Showings, Tun!Typings, Tun!Reaches
      <3>2. Budget(v, m)
        BY DEF TunIInv
      <3>3. QED
        BY <2>1, <3>1, <3>2 DEF Budget, Passing
    <2>4. QED
      BY <2>2, <2>3 DEF TunIInv
  <1>2. CASE Tun!Lose
    BY <1>2, TunLoseStep
  <1>3. ASSUME NEW u \in Users, Tun!senddata(u) \/ Tun!Receive(u) PROVE TunIInv'
    BY <1>3, TunSendStep, TunReceiveStep
  <1>4. QED
    BY <1>1, <1>2, <1>3 DEF Tun!Next

(* OnlyReachedSee of send_icmp.c.                                             *)
THEOREM TunOnlyReachedSee == Tun!Init /\ [][Tun!Next]_(Tun!vars) => []Tun!OnlyReachedSee
  <1>1. ASSUME TunIInv PROVE Tun!OnlyReachedSee
    <2> SUFFICES ASSUME NEW v \in Users, NEW k \in DOMAIN shown[v]
                 PROVE  Cardinality(Tun!Showings(shown[v][k], v)) <= Cardinality(Tun!Typings(shown[v][k], v))
      BY SameCounting DEF Tun!OnlyReachedSee
    <2>1. PICK m : m = shown[v][k]
      OBVIOUS
    <2>2. TunTyped /\ m \in Messages
      BY <1>1, <2>1 DEF TunIInv, TunTyped
    <2>3. Budget(v, m)
      BY <1>1, <2>2 DEF TunIInv
    <2>4. PICK one, two : one = Copies(packets, Passing(v, m, Plain)) /\ two = Copies(packets, Passing(v, m, Encrypted))
      OBVIOUS
    <2>5. one \in Nat /\ two \in Nat
      BY <2>2, <2>4, CopiesFacts DEF TunTyped
    <2>6. Cardinality(Tun!Typings(m, v)) \in Nat /\ Cardinality(Tun!Showings(m, v)) \in Nat
      BY <2>2, TunFinite
    <2>7. Cardinality(Tun!Showings(m, v)) + one + two <= Cardinality(Tun!Typings(m, v))
      BY <2>3, <2>4 DEF Budget
    <2>8. Cardinality(Tun!Showings(m, v)) <= Cardinality(Tun!Typings(m, v))
      BY ONLY <2>5, <2>6, <2>7
    <2>9. QED
      BY <2>1, <2>8
  <1>2. QED
    BY <1>1, TunInit, TunNext, PTL

-----------------------------------------------------------------------------
(***************************************************************************)
(* The sniffer.  The counters hold how many frames of each kind were       *)
(* received; the buffer holds the last frame and, where that was too short *)
(* to overwrite it, the IP protocol of the latest frame that was not.      *)
(***************************************************************************)
LEMMA SnCounting ==
  /\ \A S : Sn!IsFiniteSet(S) <=> IsFiniteSet(S)
  /\ \A S : Sn!Cardinality(S) = Cardinality(S)
  <1>1. ASSUME NEW S PROVE Sn!IsFiniteSet(S) <=> IsFiniteSet(S)
    BY Zenon DEF Sn!IsFiniteSet, IsFiniteSet
  <1>2. ASSUME NEW S PROVE Sn!Cardinality(S) = Cardinality(S)
    BY Zenon DEF Sn!Cardinality, Cardinality
  <1>3. QED
    BY <1>1, <1>2

LEMMA MaxFacts ==
  ASSUME NEW n \in Nat, NEW S, S \subseteq 1..n, S # {}
  PROVE  Sn!Max(S) \in S /\ \A y \in S : Sn!Max(S) >= y
  <1> DEFINE R == OpToRel(<, Nat)
             B == {n - x : x \in S}
  <1>1. IsWellFoundedOn(R, Nat)
    BY NatLessThanWellFounded
  <1>2. \A i, j \in Nat : i < j => <<i, j>> \in R
    BY DEF OpToRel
  <1>3. B \subseteq Nat /\ B # {}
    <2>1. ASSUME NEW x \in S PROVE n - x \in Nat
      <3>1. x \in 1..n
        OBVIOUS
      <3>2. QED
        BY ONLY <3>1, n \in Nat
    <2>2. QED
      BY <2>1
  <1> HIDE DEF R
  <1>4. PICK i \in B : \A j \in B : ~(<<j, i>> \in R)
    <2> HIDE DEF B
    <2>1. QED
      BY <1>1, <1>3, WFMin
  <1>5. PICK x \in S : i = n - x
    OBVIOUS
  <1>6. \A y \in S : ~(n - y < n - x)
    BY <1>2, <1>3, <1>4, <1>5
  <1>7. \A y \in S : x >= y
    BY <1>6
  <1>8. QED
    BY <1>7 DEF Sn!Max

FrameCounts == /\ count \in [Sn!Kinds -> Nat]
               /\ seen \in Seq(Frames)
               /\ buf.protocol = Sn!ProtocolOf(Len(seen))
(* What lies in the buffer is the latest frame, as far as that was long enough. *)
LatestFrame ==
  seen # <<>> =>
    LET f == seen[Len(seen)]
    IN /\ buf.h_proto = f.h_proto /\ buf.eth = f.eth
       /\ f.n >= 34 => buf.saddr = f.saddr /\ buf.daddr = f.daddr
SnIInv == FrameCounts /\ LatestFrame /\ Sn!CountsFrames

LEMMA SnInit == Sn!Init => SnIInv
  <1> SUFFICES ASSUME Sn!Init PROVE SnIInv
    OBVIOUS
  <1>1. /\ seen = <<>> /\ Len(seen) = 0 /\ DOMAIN seen = {} /\ seen \in Seq(Frames)
        /\ count = [k \in Sn!Kinds |-> 0]
    BY DEF Sn!Init
  <1>2. buf.protocol = "none"
    BY DEF Sn!Init, Sn!Empty
  <1>3. Sn!Complete(0) = {}
    BY DEF Sn!Complete
  <1>4. FrameCounts
    BY <1>1, <1>2, <1>3 DEF FrameCounts, Sn!ProtocolOf
  <1>5. /\ Sn!ArpFrames = {} /\ (\A p : Sn!IpFrames(p) = {}) /\ DOMAIN seen \ Sn!DroppedFrames = {}
    BY <1>1 DEF Sn!ArpFrames, Sn!IpFrames
  <1>6. Sn!Cardinality({}) = 0
    BY SnCounting, FS_EmptySet
  <1>7. Sn!CountsFrames
    <2>1. \A k \in {"tcp", "udp", "icmp", "igmp", "arp", "other", "total"} : count[k] = 0
      BY <1>1 DEF Sn!Kinds
    <2>2. QED
      BY <1>5, <1>6, <2>1 DEF Sn!CountsFrames
  <1>8. LatestFrame
    BY <1>1 DEF LatestFrame
  <1>9. QED
    BY <1>4, <1>7, <1>8 DEF SnIInv

(* What the frames before the last one said is as it was. *)
LEMMA SnGrows ==
  ASSUME seen \in Seq(Frames), NEW f \in Frames, seen' = Append(seen, f)
  PROVE  /\ Len(seen) \in Nat /\ Len(seen') = Len(seen) + 1 /\ seen' \in Seq(Frames)
         /\ DOMAIN seen = 1..Len(seen) /\ DOMAIN seen' = DOMAIN seen \cup {Len(seen) + 1}
         /\ \A k \in DOMAIN seen : seen'[k] = seen[k]
         /\ seen'[Len(seen) + 1] = f
         /\ \A k \in 0..Len(seen) : Sn!ProtocolOf(k)' = Sn!ProtocolOf(k)
         /\ Sn!ProtocolOf(Len(seen))'
              = IF f.n >= 24 THEN f.protocol ELSE Sn!ProtocolOf(Len(seen))
  <1>1. PICK n : n = Len(seen)
    OBVIOUS
  <1>2. /\ n \in Nat /\ Len(seen') = n + 1 /\ seen' \in Seq(Frames)
        /\ DOMAIN seen = 1..n /\ DOMAIN seen' = 1..n + 1
        /\ \A k \in 1..n : seen'[k] = seen[k]
        /\ seen'[n + 1] = f
    BY <1>1, AppendProperties
  <1>3. 1..n + 1 = (1..n) \cup {n + 1} /\ n + 1 \notin 1..n
    BY <1>2
  <1>4. ASSUME NEW k \in 0..n PROVE Sn!Complete(k)' = Sn!Complete(k) /\ Sn!Complete(k) \subseteq 1..k /\ k \in Nat
    <2>1. \A j \in 1..k : j \in 1..n
      BY <1>2
    <2>2. QED
      BY <1>2, <2>1 DEF Sn!Complete
  <1>5. ASSUME NEW k \in 0..n PROVE Sn!ProtocolOf(k)' = Sn!ProtocolOf(k)
    <2>1. PICK C : C = Sn!Complete(k)
      OBVIOUS
    <2>2. Sn!Complete(k)' = C /\ C \subseteq 1..k /\ k \in Nat
      BY <1>4, <2>1
    <2>3. CASE C = {}
      BY <2>1, <2>2, <2>3 DEF Sn!ProtocolOf
    <2>4. CASE C # {}
      <3>1. Sn!Max(C) \in C
        BY ONLY <2>2, <2>4, MaxFacts
      <3>2. Sn!Max(C) \in 1..n
        <4>1. PICK x : x = Sn!Max(C)
          OBVIOUS
        <4>2. x \in 1..k /\ n \in Nat /\ k \in 0..n
          BY <1>2, <2>2, <3>1, <4>1
        <4>3. x \in 1..n
          BY ONLY <4>2
        <4>4. QED
          BY <4>1, <4>3
      <3>3. seen'[Sn!Max(C)] = seen[Sn!Max(C)]
        BY <1>2, <3>2
      <3>4. Sn!ProtocolOf(k) = seen[Sn!Max(C)].protocol
        BY <2>1, <2>4 DEF Sn!ProtocolOf
      <3>5. Sn!ProtocolOf(k)' = seen'[Sn!Max(C)].protocol
        <4>1. Sn!Max(Sn!Complete(k))' = Sn!Max(Sn!Complete(k)')
          BY DEF Sn!Max
        <4>2. QED
          BY <2>2, <2>4, <4>1 DEF Sn!ProtocolOf
      <3>6. QED
        BY <3>3, <3>4, <3>5
    <2>5. QED
      BY <2>3, <2>4
  <1>6. PICK C, D : C = Sn!Complete(n) /\ D = Sn!Complete(n + 1)'
    OBVIOUS
  <1>7. C \subseteq 1..n /\ D \subseteq 1..n + 1 /\ D = IF f.n >= 24 THEN C \cup {n + 1} ELSE C
    <2>1. Sn!ProtocolEnd = 24
      BY DEF Sn!ProtocolEnd, Sn!sizeof_eth
    <2>2. D = {j \in 1..n + 1 : seen'[j].n >= 24} /\ C = {j \in 1..n : seen[j].n >= 24}
      BY <1>6, <2>1 DEF Sn!Complete
    <2>3. QED
      BY <1>2, <1>3, <2>2
  <1>8. CASE f.n >= 24
    <2>1. D # {} /\ n + 1 \in D
      BY <1>7, <1>8
    <2>2. Sn!Max(D) \in D /\ Sn!Max(D) >= n + 1
      <3>1. n + 1 \in Nat
        BY <1>2
      <3>2. QED
        BY ONLY <1>7, <2>1, <3>1, MaxFacts
    <2>3. Sn!Max(D) = n + 1
      <3>1. PICK x : x = Sn!Max(D)
        OBVIOUS
      <3>2. x \in 1..n + 1 /\ x >= n + 1 /\ n \in Nat
        BY <1>2, <1>7, <2>2, <3>1
      <3>3. x = n + 1
        BY ONLY <3>2
      <3>4. QED
        BY <3>1, <3>3
    <2>4. Sn!ProtocolOf(n + 1)' = seen'[n + 1].protocol
      <3>1. Sn!Max(Sn!Complete(n + 1))' = Sn!Max(D)
        BY <1>6 DEF Sn!Max
      <3>2. QED
        BY <1>6, <2>1, <2>3, <3>1 DEF Sn!ProtocolOf
    <2>5. Sn!ProtocolOf(n + 1)' = IF f.n >= 24 THEN f.protocol ELSE Sn!ProtocolOf(n)
      BY <1>2, <1>8, <2>4
    <2>6. QED
      <3>1. Sn!ProtocolOf(Len(seen))' = IF f.n >= 24 THEN f.protocol ELSE Sn!ProtocolOf(n)
        BY <1>2, <2>5
      <3>2. QED
        BY <1>1, <1>2, <1>3, <1>5, <3>1
  <1>9. CASE ~(f.n >= 24)
    <2>1. D = C
      BY <1>7, <1>9
    <2>2. n \in 0..n
      BY <1>2
    <2>3. Sn!Complete(n)' = C
      BY <1>4, <1>6, <2>2
    <2>4. Sn!ProtocolOf(n + 1)' = Sn!ProtocolOf(n)'
      BY <1>6, <2>1, <2>3 DEF Sn!ProtocolOf
    <2>5. Sn!ProtocolOf(n)' = Sn!ProtocolOf(n)
      BY <1>5, <2>2
    <2>6. Sn!ProtocolOf(n + 1)' = IF f.n >= 24 THEN f.protocol ELSE Sn!ProtocolOf(n)
      BY <1>9, <2>4, <2>5
    <2>7. QED
      <3>1. Sn!ProtocolOf(Len(seen))' = IF f.n >= 24 THEN f.protocol ELSE Sn!ProtocolOf(n)
        BY <1>2, <2>6
      <3>2. QED
        BY <1>1, <1>2, <1>3, <1>5, <3>1
  <1>10. QED
    BY <1>8, <1>9

LEMMA CountedFacts ==
  ASSUME NEW b, NEW h, NEW q, h = b.h_proto, q = b.protocol
  PROVE  /\ "total" \notin Sn!Counted(b)
         /\ "arp" \in Sn!Counted(b) <=> h = "arp"
         /\ \A p \in {"icmp", "tcp", "udp", "igmp"} : p \in Sn!Counted(b) <=> h = "ip" /\ q = p
         /\ "other" \in Sn!Counted(b) <=> ~(h = "ip" /\ q \in {"icmp", "tcp", "udp", "igmp"})
         /\ Sn!filterByProtocol(b, 2) <=> h = "arp" \/ q # "icmp"
  <1>1. Sn!filterByProtocol(b, 2) <=> h = "arp" \/ q # "icmp"
    BY DEF Sn!filterByProtocol, Sn!Types
  <1>2. CASE h = "ip"
    <2>1. Sn!Counted(b) = IF q \in {"icmp", "igmp", "tcp", "udp"} THEN {q} ELSE {"other"}
      BY <1>2 DEF Sn!Counted, Sn!IpCases
    <2>2. QED
      BY <1>1, <1>2, <2>1
  <1>3. CASE h = "arp"
    <2>1. Sn!Counted(b) = {"arp", "other"}
      BY <1>3 DEF Sn!Counted
    <2>2. QED
      BY <1>1, <1>3, <2>1
  <1>4. CASE h \notin {"ip", "arp"}
    <2>1. Sn!Counted(b) = {"other"}
      BY <1>4 DEF Sn!Counted
    <2>2. QED
      BY <1>1, <1>4, <2>1
  <1>5. QED
    BY <1>2, <1>3, <1>4

(* A set of frames received so far gains the next one, or does not. *)
LEMMA OneMoreFrame ==
  ASSUME NEW n \in Nat, NEW K, K \subseteq 1..n
  PROVE  Sn!Cardinality(K \cup {n + 1}) = Sn!Cardinality(K) + 1
  <1>1. IsFiniteSet(1..n)
    BY FS_Interval
  <1>2. IsFiniteSet(K)
    BY <1>1, FS_Subset
  <1>3. n + 1 \notin K
    BY n + 1 \notin 1..n
  <1>4. Cardinality(K \cup {n + 1}) = Cardinality(K) + 1
    BY <1>2, <1>3, CardFacts
  <1>5. QED
    BY <1>4, SnCounting

LEMMA SnReceiveStep == ASSUME SnIInv, Sn!Receive PROVE SnIInv'
  <1> USE DEF SnIInv, FrameCounts
  <1>1. PICK f \in Frames :
          /\ seen' = Append(seen, f)
          /\ buf' = Sn!Overwritten(f)
          /\ IF Sn!filterByProtocol(buf', 2) THEN Sn!packet_process(buf') ELSE UNCHANGED count
    BY DEF Sn!Receive
  <1>2. PICK n, h, q : n = Len(seen) /\ h = f.h_proto /\ q = Sn!ProtocolOf(Len(seen))'
    OBVIOUS
  <1>3. /\ n \in Nat /\ seen' \in Seq(Frames)
        /\ DOMAIN seen = 1..n /\ DOMAIN seen' = 1..n \cup {n + 1}
        /\ \A k \in 1..n : seen'[k] = seen[k]
        /\ seen'[n + 1] = f
        /\ \A k \in 0..n : Sn!ProtocolOf(k)' = Sn!ProtocolOf(k)
        /\ Sn!ProtocolOf(n + 1)' = q
        /\ q = IF f.n >= 24 THEN f.protocol ELSE Sn!ProtocolOf(n)
    <2>1. seen \in Seq(Frames)
      OBVIOUS
    <2>2. /\ Len(seen) \in Nat /\ Len(seen') = Len(seen) + 1 /\ seen' \in Seq(Frames)
          /\ DOMAIN seen = 1..Len(seen) /\ DOMAIN seen' = DOMAIN seen \cup {Len(seen) + 1}
          /\ \A k \in DOMAIN seen : seen'[k] = seen[k]
          /\ seen'[Len(seen) + 1] = f
          /\ \A k \in 0..Len(seen) : Sn!ProtocolOf(k)' = Sn!ProtocolOf(k)
          /\ Sn!ProtocolOf(Len(seen))'
               = IF f.n >= 24 THEN f.protocol ELSE Sn!ProtocolOf(Len(seen))
      BY ONLY <1>1, <2>1, SnGrows
    <2>3. Sn!ProtocolOf(n + 1)' = Sn!ProtocolOf(Len(seen))'
      BY <1>2, <2>2
    <2>4. QED
      BY <1>2, <2>2, <2>3
  <1>4. buf'.h_proto = h /\ buf'.protocol = q
    <2>1. Sn!ProtocolEnd = 24
      BY DEF Sn!ProtocolEnd, Sn!sizeof_eth
    <2>2. /\ buf'.h_proto = h
          /\ buf'.protocol = IF f.n >= 24 THEN f.protocol ELSE buf.protocol
      BY <1>1, <1>2, <2>1 DEF Sn!Overwritten
    <2>3. QED
      BY <1>2, <1>3, <2>2
  <1>5. PICK C, passes : /\ C = Sn!Counted(buf')
                         /\ passes \in BOOLEAN
                         /\ passes <=> h = "arp" \/ q # "icmp"
    OBVIOUS
  <1>6. /\ "total" \notin C
        /\ "arp" \in C <=> h = "arp"
        /\ \A p \in {"icmp", "tcp", "udp", "igmp"} : p \in C <=> h = "ip" /\ q = p
        /\ "other" \in C <=> ~(h = "ip" /\ q \in {"icmp", "tcp", "udp", "igmp"})
        /\ Sn!filterByProtocol(buf', 2) <=> passes
    BY <1>4, <1>5, CountedFacts
  <1>7. /\ count' \in [Sn!Kinds -> Nat]
        /\ \A k \in Sn!Kinds : /\ count[k] \in Nat
                               /\ passes /\ k \in C \cup {"total"} => count'[k] = count[k] + 1
                               /\ ~(passes /\ k \in C \cup {"total"}) => count'[k] = count[k]
    <2>1. CASE passes
      <3>1. count' = [k \in Sn!Kinds |-> IF k \in C \cup {"total"} THEN count[k] + 1 ELSE count[k]]
        BY <1>1, <1>5, <1>6, <2>1 DEF Sn!packet_process
      <3>2. QED
        BY <2>1, <3>1
    <2>2. CASE ~passes
      <3>1. count' = count
        BY <1>1, <1>6, <2>2
      <3>2. QED
        BY <2>2, <3>1
    <2>3. QED
      BY <1>5, <2>1, <2>2
  <1>8. FrameCounts'
    BY <1>2, <1>3, <1>4, <1>7
  <1>9. /\ Sn!ArpFrames \subseteq 1..n
        /\ Sn!ArpFrames' = IF h = "arp" THEN Sn!ArpFrames \cup {n + 1} ELSE Sn!ArpFrames
    BY <1>2, <1>3 DEF Sn!ArpFrames
  <1>10. ASSUME NEW p
         PROVE  /\ Sn!IpFrames(p) \subseteq 1..n
                /\ Sn!IpFrames(p)' = IF h = "ip" /\ q = p THEN Sn!IpFrames(p) \cup {n + 1} ELSE Sn!IpFrames(p)
    BY <1>2, <1>3 DEF Sn!IpFrames
  <1>11. PICK K, L : K = DOMAIN seen \ Sn!DroppedFrames /\ L = (DOMAIN seen \ Sn!DroppedFrames)'
    OBVIOUS
  <1>12. K \subseteq 1..n /\ L = IF passes THEN K \cup {n + 1} ELSE K
    <2>1. K = {k \in 1..n : seen[k].h_proto = "arp" \/ Sn!ProtocolOf(k) # "icmp"}
      BY <1>3, <1>11 DEF Sn!DroppedFrames
    <2>2. L = {k \in 1..n \cup {n + 1} : seen'[k].h_proto = "arp" \/ Sn!ProtocolOf(k)' # "icmp"}
      BY <1>3, <1>11 DEF Sn!DroppedFrames
    <2>3. QED
      BY <1>2, <1>3, <1>5, <2>1, <2>2
  <1>13. count'["arp"] = Sn!Cardinality(Sn!ArpFrames')
    <2>1. PICK A, B, joins : /\ A = Sn!ArpFrames /\ B = Sn!ArpFrames'
                             /\ joins \in BOOLEAN /\ (joins <=> h = "arp")
      OBVIOUS
    <2>2. A \subseteq 1..n /\ B = IF joins THEN A \cup {n + 1} ELSE A
      BY <1>9, <2>1
    <2>3. PICK c, d : c = count["arp"] /\ d = count'["arp"]
      OBVIOUS
    <2>4. c = Sn!Cardinality(A)
      BY <2>1, <2>3 DEF Sn!CountsFrames
    <2>5. (joins => d = c + 1) /\ (~joins => d = c)
      BY <1>5, <1>6, <1>7, <2>1, <2>3 DEF Sn!Kinds
    <2>6. d = Sn!Cardinality(B)
      <3>1. Sn!Cardinality(A \cup {n + 1}) = Sn!Cardinality(A) + 1
        BY ONLY <1>3, <2>2, OneMoreFrame
      <3>2. CASE joins
        BY ONLY <2>2, <2>4, <2>5, <3>1, <3>2
      <3>3. CASE ~joins
        BY ONLY <2>2, <2>4, <2>5, <3>3
      <3>4. QED
        BY <3>2, <3>3
    <2>7. QED
      BY <2>1, <2>3, <2>6
  <1>14. ASSUME NEW p \in {"tcp", "udp", "igmp"} PROVE count'[p] = Sn!Cardinality(Sn!IpFrames(p)')
    <2>1. PICK A, B, joins : /\ A = Sn!IpFrames(p) /\ B = Sn!IpFrames(p)'
                             /\ joins \in BOOLEAN /\ (joins <=> (h = "ip" /\ q = p))
      OBVIOUS
    <2>2. A \subseteq 1..n /\ B = IF joins THEN A \cup {n + 1} ELSE A
      BY <1>10, <2>1
    <2>3. PICK c, d : c = count[p] /\ d = count'[p]
      OBVIOUS
    <2>4. c = Sn!Cardinality(A)
      BY <2>1, <2>3 DEF Sn!CountsFrames
    <2>5. (joins => d = c + 1) /\ (~joins => d = c)
      <3>1. p \in Sn!Kinds /\ p # "total" /\ p # "icmp"
        BY DEF Sn!Kinds
      <3>2. p \in C <=> joins
        BY <1>6, <2>1
      <3>3. joins => passes
        BY <1>5, <2>1, <3>1
      <3>4. QED
        BY <1>7, <2>3, <3>1, <3>2, <3>3
    <2>6. d = Sn!Cardinality(B)
      <3>1. Sn!Cardinality(A \cup {n + 1}) = Sn!Cardinality(A) + 1
        BY ONLY <1>3, <2>2, OneMoreFrame
      <3>2. CASE joins
        BY ONLY <2>2, <2>4, <2>5, <3>1, <3>2
      <3>3. CASE ~joins
        BY ONLY <2>2, <2>4, <2>5, <3>3
      <3>4. QED
        BY <3>2, <3>3
    <2>7. QED
      BY <2>1, <2>3, <2>6
  <1>15. count'["total"] = Sn!Cardinality(L)
    <2>1. PICK c, d : c = count["total"] /\ d = count'["total"]
      OBVIOUS
    <2>2. c = Sn!Cardinality(K)
      BY <1>11, <2>1 DEF Sn!CountsFrames
    <2>3. (passes => d = c + 1) /\ (~passes => d = c)
      BY <1>7, <2>1 DEF Sn!Kinds
    <2>4. n \in Nat /\ passes \in BOOLEAN
      BY <1>3, <1>5
    <2>5. d = Sn!Cardinality(L)
      <3>1. Sn!Cardinality(K \cup {n + 1}) = Sn!Cardinality(K) + 1
        BY ONLY <1>3, <1>12, OneMoreFrame
      <3>2. CASE passes
        BY ONLY <1>12, <2>2, <2>3, <3>1, <3>2
      <3>3. CASE ~passes
        BY ONLY <1>12, <2>2, <2>3, <3>3
      <3>4. QED
        BY <3>2, <3>3
    <2>6. QED
      BY <2>1, <2>5
  <1>16. count'["icmp"] = 0
    <2>1. "icmp" \in Sn!Kinds
      BY DEF Sn!Kinds
    <2>2. ~(passes /\ "icmp" \in C \cup {"total"})
      BY <1>5, <1>6
    <2>3. QED
      BY <1>7, <2>1, <2>2 DEF Sn!CountsFrames
  <1>17. count'["total"] = count'["tcp"] + count'["udp"] + count'["igmp"] + count'["other"]
    <2>1. PICK t, c, u, g, o : /\ t = count["total"] /\ c = count["tcp"] /\ u = count["udp"]
                               /\ g = count["igmp"] /\ o = count["other"]
      OBVIOUS
    <2>2. PICK t1, c1, u1, g1, o1 : /\ t1 = count'["total"] /\ c1 = count'["tcp"] /\ u1 = count'["udp"]
                                    /\ g1 = count'["igmp"] /\ o1 = count'["other"]
      OBVIOUS
    <2>3. /\ t \in Nat /\ c \in Nat /\ u \in Nat /\ g \in Nat /\ o \in Nat
          /\ t = c + u + g + o
      BY <1>7, <2>1 DEF Sn!CountsFrames, Sn!Kinds
    <2>4. /\ passes => t1 = t + 1
          /\ ~passes => t1 = t
          /\ passes /\ "tcp" \in C => c1 = c + 1
          /\ ~(passes /\ "tcp" \in C) => c1 = c
          /\ passes /\ "udp" \in C => u1 = u + 1
          /\ ~(passes /\ "udp" \in C) => u1 = u
          /\ passes /\ "igmp" \in C => g1 = g + 1
          /\ ~(passes /\ "igmp" \in C) => g1 = g
          /\ passes /\ "other" \in C => o1 = o + 1
          /\ ~(passes /\ "other" \in C) => o1 = o
      BY <1>7, <2>1, <2>2 DEF Sn!Kinds
    <2>5. passes => \/ "tcp" \in C /\ "udp" \notin C /\ "igmp" \notin C /\ "other" \notin C
                    \/ "tcp" \notin C /\ "udp" \in C /\ "igmp" \notin C /\ "other" \notin C
                    \/ "tcp" \notin C /\ "udp" \notin C /\ "igmp" \in C /\ "other" \notin C
                    \/ "tcp" \notin C /\ "udp" \notin C /\ "igmp" \notin C /\ "other" \in C
      BY <1>5, <1>6
    <2>6. t1 = c1 + u1 + g1 + o1
      BY ONLY <2>3, <2>4, <2>5
    <2>7. QED
      BY <2>2, <2>6
  <1>18. Sn!CountsFrames'
    BY <1>11, <1>13, <1>14, <1>15, <1>16, <1>17 DEF Sn!CountsFrames
  <1>19. LatestFrame'
    <2>1. /\ buf'.h_proto = f.h_proto /\ buf'.eth = f.eth
          /\ f.n >= 34 => buf'.saddr = f.saddr /\ buf'.daddr = f.daddr
      <3>1. /\ f.n \in Nat /\ f.saddr = [i \in 1..4 |-> f.saddr[i]] /\ f.daddr = [i \in 1..4 |-> f.daddr[i]]
        BY Assumptions DEF Sn!SnifferAssumption
      <3>2. /\ buf'.h_proto = f.h_proto /\ buf'.eth = f.eth
            /\ buf'.saddr = [i \in 1..4 |-> IF f.n >= 26 + i THEN f.saddr[i] ELSE buf.saddr[i]]
            /\ buf'.daddr = [i \in 1..4 |-> IF f.n >= 30 + i THEN f.daddr[i] ELSE buf.daddr[i]]
        BY <1>1 DEF Sn!Overwritten, Sn!Octets, Sn!SaddrAt, Sn!DaddrAt, Sn!sizeof_eth
      <3>3. QED
        BY <3>1, <3>2
    <2>2. Len(seen') = n + 1
      BY <1>1, <1>2, AppendProperties
    <2>3. seen'[Len(seen')] = f
      BY <1>3, <2>2
    <2>4. QED
      BY <2>1, <2>3 DEF LatestFrame
  <1>20. QED
    BY <1>8, <1>18, <1>19

LEMMA SnNext == ASSUME SnIInv, [Sn!Next]_(Sn!vars) PROVE SnIInv'
  <1>1. CASE Sn!Receive
    BY <1>1, SnReceiveStep
  <1>2. ASSUME UNCHANGED <<buf, seen, count>> PROVE SnIInv'
    <2>1. FrameCounts' /\ LatestFrame'
      BY <1>2 DEF SnIInv, FrameCounts, LatestFrame, Sn!ProtocolOf, Sn!Complete, Sn!Max
    <2>2. Sn!ArpFrames' = Sn!ArpFrames /\ Sn!DroppedFrames' = Sn!DroppedFrames /\ (DOMAIN seen)' = DOMAIN seen
      BY <1>2 DEF Sn!ArpFrames, Sn!DroppedFrames, Sn!ProtocolOf, Sn!Complete, Sn!Max
    <2>3. \A p : Sn!IpFrames(p)' = Sn!IpFrames(p)
      BY <1>2 DEF Sn!IpFrames, Sn!ProtocolOf, Sn!Complete, Sn!Max
    <2>4. Sn!CountsFrames'
      BY <1>2, <2>2, <2>3 DEF SnIInv, Sn!CountsFrames
    <2>5. QED
      BY <2>1, <2>4 DEF SnIInv
  <1>3. CASE Sn!ReceiveFails
    BY <1>2, <1>3 DEF Sn!ReceiveFails
  <1>4. CASE UNCHANGED Sn!vars
    BY <1>2, <1>4 DEF Sn!vars
  <1>5. QED
    BY <1>1, <1>3, <1>4 DEF Sn!Next

LEMMA SnInvariant == Sn!Init /\ [][Sn!Next]_(Sn!vars) => []SnIInv
  BY SnInit, SnNext, PTL

(* A digit that is known is kept.                                             *)
LEMMA KeptDigits ==
  ASSUME NEW d, d = [i \in 1..2 |-> d[i]], \A i \in 1..2 : d[i] \in 0..2
  PROVE  Sn!Kept(d) = d
  <1>1. DOMAIN d = 1..2
    OBVIOUS
  <1>2. ASSUME NEW i \in 1..2
        PROVE (LET known == {j \in 1..i : d[j] # Sn!Unknown}
               IN IF known = {} THEN 0 ELSE d[Sn!Max(known)]) = d[i]
    <2>1. PICK known : known = {j \in 1..i : d[j] # Sn!Unknown}
      OBVIOUS
    <2>2. \A j \in 1..i : j \in 1..2 /\ d[j] # -1
      OBVIOUS
    <2>3. known = 1..i /\ i \in Nat /\ i \in 1..i
      BY <2>1, <2>2 DEF Sn!Unknown
    <2>4. known \subseteq 1..i /\ known # {} /\ i \in Nat
      BY ONLY <2>3
    <2>5. PICK m : m = Sn!Max(known)
      OBVIOUS
    <2>6. m \in known /\ \A y \in known : m >= y
      BY ONLY <2>4, <2>5, MaxFacts
    <2>7. m = i
      BY ONLY <2>3, <2>6
    <2>8. QED
      BY <2>1, <2>4, <2>5, <2>7
  <1>3. QED
    BY <1>1, <1>2 DEF Sn!Kept

LEMMA KnownMac ==
  ASSUME NEW mac \in [1..2 -> (0..2) \X (0..2)], NEW octets \in [1..2 -> 0..8]
  PROVE  Sn!resultArray(mac) = octets <=> \A i \in DOMAIN mac : mac[i][1] * 3 + mac[i][2] = octets[i]
  <1>1. DOMAIN mac = 1..2 /\ \A i \in 1..2 : mac[i][1] \in 0..2 /\ mac[i][2] \in 0..2
    OBVIOUS
  <1>2. PICK l, r : l = [i \in 1..2 |-> mac[i][1]] /\ r = [i \in 1..2 |-> mac[i][2]]
    OBVIOUS
  <1>3. Sn!Kept(l) = l
    <2>1. l = [i \in 1..2 |-> l[i]] /\ \A i \in 1..2 : l[i] \in 0..2
      BY <1>1, <1>2
    <2>2. QED
      BY ONLY <2>1, KeptDigits
  <1>4. Sn!Kept(r) = r
    <2>1. r = [i \in 1..2 |-> r[i]] /\ \A i \in 1..2 : r[i] \in 0..2
      BY <1>1, <1>2
    <2>2. QED
      BY ONLY <2>1, KeptDigits
  <1>5. Sn!resultArray(mac) = [i \in 1..2 |-> l[i] * 3 + r[i]]
    BY <1>1, <1>2, <1>3, <1>4 DEF Sn!resultArray, Sn!Digit
  <1>6. Sn!resultArray(mac) = [i \in 1..2 |-> mac[i][1] * 3 + mac[i][2]]
    BY <1>2, <1>5
  <1>7. QED
    BY <1>1, <1>6

LEMMA SnFilters == ASSUME FrameCounts, LatestFrame PROVE Sn!FiltersMatch
  <1> SUFFICES ASSUME seen # <<>> PROVE Sn!FiltersMatch
    BY DEF Sn!FiltersMatch
  <1>1. PICK f : f = seen[Len(seen)]
    OBVIOUS
  <1>2. Sn!Last(seen) = f
    BY <1>1 DEF Sn!Last
  <1>3. f \in Frames /\ buf.h_proto = f.h_proto /\ buf.eth = f.eth
    BY <1>1, EmptySeq DEF FrameCounts, LatestFrame
  <1>4. f.n >= 34 => buf.saddr = f.saddr /\ buf.daddr = f.daddr
    BY <1>1 DEF LatestFrame
  <1>5. f.eth \in [1..2 -> [1..2 -> 0..8]]
    <2>1. Sn!Digit * Sn!Digit - 1 = 8
      BY DEF Sn!Digit
    <2>2. f.eth \in [1..2 -> [1..2 -> 0..Sn!Digit * Sn!Digit - 1]]
      BY ONLY <1>3, Assumptions, Zenon DEF Sn!SnifferAssumption, Assumptions
    <2>3. QED
      BY <2>1, <2>2
  <1>6. ASSUME NEW type \in {0, 1}, NEW mac \in [1..2 -> (0..2) \X (0..2)]
        PROVE Sn!filterByMacAddress(buf, mac, type)
                <=> \A i \in DOMAIN mac : mac[i][1] * 3 + mac[i][2] = f.eth[type + 1][i]
    <2>1. PICK octets : octets = f.eth[type + 1]
      OBVIOUS
    <2>2. octets \in [1..2 -> 0..8]
      BY <1>5, <2>1
    <2>3. Sn!filterByMacAddress(buf, mac, type) <=> Sn!resultArray(mac) = octets
      BY <1>3, <2>1 DEF Sn!filterByMacAddress
    <2>4. Sn!resultArray(mac) = octets <=> \A i \in DOMAIN mac : mac[i][1] * 3 + mac[i][2] = octets[i]
      BY ONLY <2>2, mac \in [1..2 -> (0..2) \X (0..2)], KnownMac
    <2>5. QED
      BY <2>1, <2>3, <2>4
  <1>7. ASSUME NEW type \in {0, 1}, NEW addr, f.n >= 34
        PROVE Sn!filterByIpAddress(buf, addr, type)
                <=> f.h_proto = "ip" /\ addr = IF type = 0 THEN f.saddr ELSE f.daddr
    BY <1>3, <1>4, <1>7 DEF Sn!filterByIpAddress, Sn!temp, Sn!dest_ip
  <1>8. Sn!Digit = 3 /\ 3 - 1 = 2 /\ Sn!sizeof_eth + Sn!sizeof_ip = 34
    BY DEF Sn!Digit, Sn!sizeof_eth, Sn!sizeof_ip
  <1>9. QED
    BY <1>2, <1>6, <1>7, <1>8 DEF Sn!FiltersMatch

(* packet-process.c and filter.c: the counters of the sniffer say what it has *)
(* received, and its filters by address take the latest frame for what it is. *)
THEOREM SnFramesAsTheyAre == Sn!Init /\ [][Sn!Next]_(Sn!vars) => [](Sn!CountsFrames /\ Sn!FiltersMatch)
  <1>1. SnIInv => Sn!CountsFrames /\ Sn!FiltersMatch
    BY SnFilters DEF SnIInv
  <1>2. QED
    BY <1>1, SnInvariant, PTL

-----------------------------------------------------------------------------
(***************************************************************************)
(* The forger.  The provers do not take a recursive definition at its word *)
(* either: that the sums of the first n words exist is an induction, and   *)
(* AddCarries is the remainder modulo 65535, with 65535 in the place of 0. *)
(***************************************************************************)
WordSums(words, n, f) == f = [i \in 0..n |-> IF i = 0 THEN 0 ELSE f[i - 1] + words[i]]

LEMMA WordSumsExist ==
  ASSUME NEW words
  PROVE  \A n \in Nat : \E f : WordSums(words, n, f)
  <1> DEFINE S == {n \in Nat : \E f : WordSums(words, n, f)}
  <1>1. 0 \in S
    <2> DEFINE f == [i \in 0..0 |-> 0]
    <2>1. WordSums(words, 0, f)
      BY DEF WordSums
    <2>2. QED
      BY <2>1
  <1>2. ASSUME NEW n \in Nat, n \in S PROVE n + 1 \in S
    <2>1. PICK f : WordSums(words, n, f)
      BY <1>2
    <2> DEFINE g == [i \in 0..(n + 1) |-> IF i <= n THEN f[i] ELSE f[n] + words[n + 1]]
    <2>2. \A i \in 0..n : f[i] = IF i = 0 THEN 0 ELSE f[i - 1] + words[i]
      BY <2>1 DEF WordSums
    <2>3. ASSUME NEW i \in 0..(n + 1)
          PROVE  g[i] = IF i = 0 THEN 0 ELSE g[i - 1] + words[i]
      <3>1. CASE i = 0
        BY <2>2, <3>1
      <3>2. CASE i \in 1..n
        <4>1. i \in 0..n /\ i - 1 \in 0..(n + 1) /\ i - 1 <= n /\ i # 0
          BY <3>2
        <4>2. g[i] = f[i] /\ g[i - 1] = f[i - 1]
          BY <4>1
        <4>3. QED
          BY <2>2, <4>1, <4>2
      <3>3. CASE i = n + 1
        <4>1. i - 1 = n /\ n \in 0..(n + 1) /\ ~(i <= n) /\ i # 0
          BY <3>3
        <4>2. g[i] = f[n] + words[n + 1] /\ g[i - 1] = f[n]
          BY <4>1
        <4>3. QED
          BY <3>3, <4>1, <4>2
      <3>4. QED
        BY <3>1, <3>2, <3>3
    <2>4. g = [i \in 0..(n + 1) |-> g[i]]
      OBVIOUS
    <2> HIDE DEF g
    <2>5. WordSums(words, n + 1, g)
      BY <2>3, <2>4 DEF WordSums
    <2>6. QED
      BY <2>5
  <1>3. Nat \subseteq S
    <2> HIDE DEF S
    <2>1. QED
      BY <1>1, <1>2, NatInductionOnSet
  <1>4. QED
    BY <1>3

LEMMA WordSumIs ==
  ASSUME NEW words, NEW n \in Nat, Len(words) = n
  PROVE  \E f : WordSums(words, n, f) /\ Fo!WordSum(words) = f[n]
  <1> DEFINE f == CHOOSE f : WordSums(words, n, f)
  <1>1. \E g : WordSums(words, n, g)
    BY WordSumsExist
  <1>2. WordSums(words, n, f)
    BY <1>1, Zenon
  <1>3. Fo!WordSum(words) = f[n]
    BY Zenon DEF Fo!WordSum, WordSums
  <1>4. QED
    BY <1>2, <1>3, Zenon

LEMMA SumOfFour ==
  ASSUME NEW w, Len(w) = 4, \A i \in 1..4 : w[i] \in Nat
  PROVE  Fo!WordSum(w) = w[1] + w[2] + w[3] + w[4]
  <1>1. PICK f : WordSums(w, 4, f) /\ Fo!WordSum(w) = f[4]
    <2>1. 4 \in Nat
      OBVIOUS
    <2>2. QED
      BY <2>1, WordSumIs, Zenon
  <1>2. f[0] = 0 /\ \A i \in 1..4 : f[i] = f[i - 1] + w[i]
    BY <1>1 DEF WordSums
  <1>3. w[1] \in Nat /\ w[2] \in Nat /\ w[3] \in Nat /\ w[4] \in Nat
    OBVIOUS
  <1>4. f[1] = f[0] + w[1] /\ f[2] = f[1] + w[2] /\ f[3] = f[2] + w[3] /\ f[4] = f[3] + w[4]
    BY <1>2
  <1>5. QED
    BY ONLY <1>1, <1>2, <1>3, <1>4

LEMMA SumOfTen ==
  ASSUME NEW w, Len(w) = 10, \A i \in 1..10 : w[i] \in Nat
  PROVE  Fo!WordSum(w) = w[1] + w[2] + w[3] + w[4] + w[5] + w[6] + w[7] + w[8] + w[9] + w[10]
  <1>1. PICK f : WordSums(w, 10, f) /\ Fo!WordSum(w) = f[10]
    <2>1. 10 \in Nat
      OBVIOUS
    <2>2. QED
      BY <2>1, WordSumIs, Zenon
  <1>2. f[0] = 0 /\ \A i \in 1..10 : f[i] = f[i - 1] + w[i]
    BY <1>1 DEF WordSums
  <1>3. /\ w[1] \in Nat /\ w[2] \in Nat /\ w[3] \in Nat /\ w[4] \in Nat /\ w[5] \in Nat
        /\ w[6] \in Nat /\ w[7] \in Nat /\ w[8] \in Nat /\ w[9] \in Nat /\ w[10] \in Nat
    OBVIOUS
  <1>4. /\ f[1] = f[0] + w[1] /\ f[2] = f[1] + w[2] /\ f[3] = f[2] + w[3] /\ f[4] = f[3] + w[4]
        /\ f[5] = f[4] + w[5] /\ f[6] = f[5] + w[6] /\ f[7] = f[6] + w[7] /\ f[8] = f[7] + w[8]
        /\ f[9] = f[8] + w[9] /\ f[10] = f[9] + w[10]
    BY <1>2
  <1>5. f[5] = w[1] + w[2] + w[3] + w[4] + w[5]
    BY ONLY <1>2, <1>3, <1>4
  <1>6. QED
    BY ONLY <1>1, <1>3, <1>4, <1>5

(* A carry added at the other end leaves the remainder modulo 65535.          *)
LEMMA CarryFacts ==
  ASSUME NEW s \in Nat
  PROVE  /\ s = 65536 * (s \div 65536) + (s % 65536)
         /\ s \div 65536 \in Nat /\ s % 65536 \in Nat /\ s % 65536 < 65536
         /\ s = 65535 * (s \div 65535) + (s % 65535)
         /\ s \div 65535 \in Nat /\ s % 65535 \in Nat /\ s % 65535 < 65535
  OBVIOUS

LEMMA SameRemainder ==
  ASSUME NEW s \in Nat, NEW t \in Nat, NEW q \in Nat, s = t + 65535 * q
  PROVE  s % 65535 = t % 65535
  <1>1. PICK a, b, x, y : a = s \div 65535 /\ b = s % 65535 /\ x = t \div 65535 /\ y = t % 65535
    OBVIOUS
  <1>2. /\ s = 65535 * a + b /\ a \in Nat /\ b \in Nat /\ b < 65535
        /\ t = 65535 * x + y /\ x \in Nat /\ y \in Nat /\ y < 65535
    BY <1>1, CarryFacts
  <1>3. 65535 * (a - x - q) = y - b
    BY <1>2
  <1>4. a - x - q = 0
    BY ONLY <1>2, <1>3, q \in Nat
  <1>5. QED
    BY <1>1, <1>3, <1>4, <1>2

High(s) == s \div 65536
Folded(s) == (s % 65536) + (s \div 65536)
Carries(f) == f = [s \in Nat |-> IF High(s) = 0 THEN s ELSE f[Folded(s)]]

LEMMA CarriesExist == \E f : Carries(f)
  <1> DEFINE f == [s \in Nat |-> IF s = 0 THEN 0 ELSE IF s % 65535 = 0 THEN 65535 ELSE s % 65535]
  <1>1. ASSUME NEW s \in Nat
        PROVE  f[s] = IF High(s) = 0 THEN s ELSE f[Folded(s)]
    <2>1. PICK q, r, t : q = s \div 65536 /\ r = s % 65536 /\ t = r + q /\ q = High(s) /\ t = Folded(s)
      BY DEF High, Folded
    <2>2. s = 65536 * q + r /\ q \in Nat /\ r \in Nat /\ r < 65536 /\ t \in Nat /\ t = r + q /\ s = t + 65535 * q
      BY <2>1, CarryFacts
    <2>3. CASE q = 0
      <3>1. s < 65536
        BY <2>2, <2>3
      <3>2. CASE s = 0
        BY <2>1, <2>3, <3>2
      <3>3. CASE s = 65535
        <4>1. s % 65535 = 0
          BY <3>3
        <4>2. QED
          BY <2>1, <2>3, <3>3, <4>1
      <3>4. CASE s # 0 /\ s < 65535
        <4>1. s % 65535 = s
          BY ONLY <3>4, s \in Nat
        <4>2. QED
          BY <2>1, <2>3, <3>4, <4>1
      <3>5. QED
        BY ONLY <3>1, <3>2, <3>3, <3>4, s \in Nat
    <2>4. CASE q # 0
      <3>1. s # 0 /\ t # 0
        BY ONLY <2>2, <2>4
      <3>2. s % 65535 = t % 65535
        BY ONLY <2>2, s \in Nat, SameRemainder
      <3>3. f[s] = f[t]
        BY <2>2, <3>1, <3>2
      <3>4. QED
        BY <2>1, <2>4, <3>3
    <2>5. QED
      BY <2>3, <2>4
  <1>2. f = [s \in Nat |-> f[s]]
    OBVIOUS
  <1> HIDE DEF f
  <1>3. Carries(f)
    BY <1>1, <1>2 DEF Carries
  <1>4. QED
    BY <1>3

LEMMA AddCarriesIs ==
  ASSUME NEW s \in Nat
  PROVE  Fo!AddCarries[s] = IF High(s) = 0 THEN s ELSE Fo!AddCarries[Folded(s)]
  <1>1. Fo!AddCarries = CHOOSE f : Carries(f)
    BY SMT DEF Fo!AddCarries, Carries, High, Folded
  <1>2. Carries(Fo!AddCarries)
    BY <1>1, CarriesExist, Zenon
  <1>3. QED
    BY <1>2 DEF Carries

(* A sum of up to ten words and its carries differ by a multiple of 65535, and *)
(* the carries added make one word.                                            *)
LEMMA CarriesAdded ==
  ASSUME NEW s \in Nat, s <= 655350
  PROVE  \E k \in Nat : /\ s = Fo!AddCarries[s] + 65535 * k
                        /\ Fo!AddCarries[s] \in Nat /\ Fo!AddCarries[s] < 65536
  <1>1. PICK q, r, t : q = s \div 65536 /\ r = s % 65536 /\ t = r + q /\ q = High(s) /\ t = Folded(s)
    BY DEF High, Folded
  <1>2. s = 65536 * q + r /\ q \in Nat /\ r \in Nat /\ r < 65536 /\ t \in Nat /\ t = r + q /\ s = t + 65535 * q
    BY <1>1, CarryFacts
  <1>3. q < 10
    BY ONLY <1>2, s <= 655350
  <1>4. CASE q = 0
    <2>1. Fo!AddCarries[s] = s
      <3>1. Fo!AddCarries[s] = IF High(s) = 0 THEN s ELSE Fo!AddCarries[Folded(s)]
        BY ONLY s \in Nat, AddCarriesIs
      <3>2. High(s) = 0
        BY <1>1, <1>4
      <3>3. QED
        BY ONLY <3>1, <3>2
    <2>2. s = s + 65535 * 0 /\ s < 65536
      BY <1>2, <1>4
    <2>3. QED
      BY <2>1, <2>2
  <1>5. CASE q # 0
    <2>1. Fo!AddCarries[s] = Fo!AddCarries[t]
      BY <1>1, <1>5, AddCarriesIs
    <2>2. PICK x, y, u : x = t \div 65536 /\ y = t % 65536 /\ u = y + x /\ x = High(t) /\ u = Folded(t)
      BY DEF High, Folded
    <2>3. t = 65536 * x + y /\ x \in Nat /\ y \in Nat /\ y < 65536 /\ u \in Nat /\ t = u + 65535 * x
      BY <1>2, <2>2, CarryFacts
    <2>4. CASE x = 0
      <3>1. Fo!AddCarries[t] = t
        BY <1>2, <2>2, <2>4, AddCarriesIs
      <3>2. t < 65536
        BY <2>3, <2>4
      <3>3. Fo!AddCarries[s] = t /\ q \in Nat /\ s = t + 65535 * q /\ t \in Nat /\ t < 65536
        BY <1>2, <2>1, <3>1, <3>2
      <3>4. QED
        BY ONLY <3>3
    <2>5. CASE x # 0
      <3>1. u < 65536
        BY ONLY <1>2, <1>3, <2>2, <2>3, <2>5
      <3>2. Fo!AddCarries[t] = Fo!AddCarries[u]
        BY <1>2, <2>2, <2>5, AddCarriesIs
      <3>3. High(u) = 0
        BY ONLY <2>3, <3>1 DEF High
      <3>4. Fo!AddCarries[u] = u
        BY <2>3, <3>3, AddCarriesIs
      <3>5. s = u + 65535 * (q + x) /\ q + x \in Nat
        BY ONLY <1>2, <2>3
      <3>6. Fo!AddCarries[s] = u /\ u \in Nat /\ u < 65536
        BY <2>1, <2>3, <3>1, <3>2, <3>4
      <3>7. QED
        BY ONLY <3>5, <3>6
    <2>6. QED
      BY <2>4, <2>5
  <1>6. QED
    BY <1>4, <1>5

LEMMA ChecksumFacts ==
  ASSUME NEW words, NEW s \in Nat, s <= 655350, Fo!WordSum(words) = s
  PROVE  Fo!checksum(words) \in Nat /\ \E k \in Nat : s + Fo!checksum(words) = 65535 * (k + 1)
  <1>1. PICK k \in Nat : /\ s = Fo!AddCarries[s] + 65535 * k
                         /\ Fo!AddCarries[s] \in Nat /\ Fo!AddCarries[s] < 65536
    BY CarriesAdded
  <1>2. PICK a, c : a = Fo!AddCarries[s] /\ c = Fo!checksum(words)
    OBVIOUS
  <1>3. c = 65535 - a
    BY <1>2, SMT DEF Fo!checksum, Fo!Complement
  <1>4. s = a + 65535 * k /\ a \in Nat /\ a < 65536
    BY <1>1, <1>2
  <1>5. c \in Nat /\ s + c = 65535 * (k + 1)
    BY ONLY <1>3, <1>4, k \in Nat
  <1>6. QED
    BY <1>2, <1>5

LEMMA AllOnes ==
  ASSUME NEW n, NEW k \in Nat, n = 65535 * (k + 1)
  PROVE  n % 65535 = 0 /\ n # 0
  OBVIOUS

(* What get_icmp() makes of the blank message, and get_ip() of its header.    *)
LEMMA RequestVerifies ==
  ASSUME NEW m, m = Fo!get_icmp([i \in 1..4 |-> 0])
  PROVE  Len(m) = 4 /\ Fo!Verifies(m)
  <1>1. PICK z : z = [i \in 1..4 |-> 0]
    OBVIOUS
  <1> DEFINE r == [z EXCEPT ![1] = 2048, ![2] = 0]
  <1>2. z \in [1..4 -> Nat] /\ \A i \in 1..4 : z[i] = 0
    BY <1>1
  <1>3. r \in [1..4 -> Nat] /\ r[1] = 2048 /\ r[2] = 0 /\ r[3] = 0 /\ r[4] = 0
    BY ONLY <1>2
  <1>4. PICK c : c = Fo!checksum(r)
    OBVIOUS
  <1>5. m = [r EXCEPT ![2] = c]
    <2>1. m = Fo!get_icmp(z)
      BY <1>1
    <2>2. Fo!get_icmp(z) = [r EXCEPT ![2] = Fo!checksum(r)]
      BY DEF Fo!get_icmp
    <2>3. QED
      BY ONLY <1>4, <2>1, <2>2
  <1> HIDE DEF r
  <1>6. Len(r) = 4
    BY ONLY <1>3, 4 \in Nat, FunctionIsSeq
  <1>7. Fo!WordSum(r) = 2048
    <2>1. Fo!WordSum(r) = r[1] + r[2] + r[3] + r[4]
      <3>1. \A i \in 1..4 : r[i] \in Nat
        BY <1>3
      <3>2. QED
        BY ONLY <1>6, <3>1, SumOfFour
    <2>2. QED
      BY ONLY <1>3, <2>1
  <1>8. c \in Nat /\ \E k \in Nat : 2048 + c = 65535 * (k + 1)
    <2>1. 2048 \in Nat /\ 2048 <= 655350
      OBVIOUS
    <2>2. QED
      BY ONLY <1>4, <1>7, <2>1, ChecksumFacts
  <1>9. Len(m) = 4 /\ m[1] = 2048 /\ m[2] = c /\ m[3] = 0 /\ m[4] = 0 /\ \A i \in 1..4 : m[i] \in Nat
    <2>1. m \in [1..4 -> Nat] /\ 4 \in Nat
      BY ONLY <1>5, <1>8, <1>3
    <2>2. Len(m) = 4
      BY ONLY <2>1, FunctionIsSeq
    <2>3. QED
      BY ONLY <1>5, <1>3, <2>1, <2>2
  <1>10. Fo!WordSum(m) = 2048 + c
    <2>1. Fo!WordSum(m) = m[1] + m[2] + m[3] + m[4]
      BY ONLY <1>9, SumOfFour
    <2>2. QED
      BY ONLY <1>8, <1>9, <2>1
  <1>11. Fo!WordSum(m) % 65535 = 0 /\ Fo!WordSum(m) # 0
    BY ONLY <1>8, <1>10, AllOnes
  <1>12. QED
    BY <1>9, <1>11 DEF Fo!Verifies

LEMMA HeaderVerifies ==
  ASSUME NEW a \in Nat, a < 65536, NEW b \in Nat, b < 65536,
         NEW h, h = Fo!IpHeader(a, b, 28), NEW x, x = [h EXCEPT ![6] = Fo!checksum(h)]
  PROVE  Len(x) = 10 /\ x[2] = 28 /\ Fo!Verifies(x)
  <1>1. /\ h \in [1..10 -> Nat]
        /\ h[1] = 17680 /\ h[2] = 28 /\ h[3] = 10201 /\ h[4] = 0 /\ h[5] = 16385 /\ h[6] = 0
        /\ h[7] = a /\ h[8] = b /\ h[9] = 49320 /\ h[10] = 30090
    BY DEF Fo!IpHeader
  <1>2. Len(h) = 10 /\ \A i \in 1..10 : h[i] \in Nat
    BY ONLY <1>1, FunctionIsSeq, 10 \in Nat
  <1>3. PICK c, s : c = Fo!checksum(h) /\ s = 123704 + a + b
    OBVIOUS
  <1>4. Fo!WordSum(h) = s /\ s \in Nat /\ s <= 655350
    <2>1. Fo!WordSum(h) = h[1] + h[2] + h[3] + h[4] + h[5] + h[6] + h[7] + h[8] + h[9] + h[10]
      BY ONLY <1>2, SumOfTen
    <2>2. QED
      BY ONLY <1>1, <1>3, <2>1, a \in Nat, b \in Nat, a < 65536, b < 65536
  <1>5. c \in Nat /\ \E k \in Nat : s + c = 65535 * (k + 1)
    BY ONLY <1>3, <1>4, ChecksumFacts
  <1>6. x \in [1..10 -> Nat] /\ x[6] = c /\ \A i \in 1..10 : i # 6 => x[i] = h[i]
    BY <1>1, <1>3, <1>5
  <1>7. Len(x) = 10 /\ \A i \in 1..10 : x[i] \in Nat
    BY ONLY <1>6, FunctionIsSeq, 10 \in Nat
  <1>8. Fo!WordSum(x) = s + c
    <2>1. Fo!WordSum(x) = x[1] + x[2] + x[3] + x[4] + x[5] + x[6] + x[7] + x[8] + x[9] + x[10]
      BY ONLY <1>7, SumOfTen
    <2>2. /\ x[1] = 17680 /\ x[2] = 28 /\ x[3] = 10201 /\ x[4] = 0 /\ x[5] = 16385 /\ x[6] = c
          /\ x[7] = a /\ x[8] = b /\ x[9] = 49320 /\ x[10] = 30090
      BY ONLY <1>1, <1>6
    <2>3. QED
      BY ONLY <1>3, <1>5, <2>1, <2>2, a \in Nat, b \in Nat
  <1>9. Fo!WordSum(x) % 65535 = 0 /\ Fo!WordSum(x) # 0
    BY ONLY <1>5, <1>8, AllOnes
  <1>10. x[2] = 28
    BY ONLY <1>1, <1>6
  <1>11. QED
    BY <1>7, <1>9, <1>10 DEF Fo!Verifies

LayoutOK ==
  /\ step \in {"get_eth_index", "get_mac", "get_ip", "send", "failed"}
  /\ step \in {"get_eth_index", "get_mac", "get_ip"} => frames = "none" /\ icmp = [i \in 1..4 |-> 0]
  /\ step \in {"get_eth_index", "get_mac"} => total_len = 0
  /\ step = "get_ip" => total_len = 14
  /\ step \in {"send", "failed"} => /\ Len(ip) = 10 /\ ip[2] = 28 /\ Fo!Verifies(ip)
                                   /\ Len(icmp) = 4 /\ Fo!Verifies(icmp)

LEMMA FoInit == Fo!Init => LayoutOK
  <1> SUFFICES ASSUME Fo!Init PROVE LayoutOK
    OBVIOUS
  <1>1. step = "get_eth_index" /\ total_len = 0 /\ frames = "none"
    BY DEF Fo!Init
  <1>2. icmp = [i \in 1..4 |-> 0]
    <2>1. 8 \div 2 = 4
      OBVIOUS
    <2>2. QED
      BY <2>1 DEF Fo!Init, Fo!Blank, Fo!sizeof_icmp
  <1>3. QED
    BY <1>1, <1>2 DEF LayoutOK

LEMMA FoNext == ASSUME LayoutOK, [Fo!Next]_(Fo!vars) PROVE LayoutOK'
  <1>1. CASE Fo!get_eth_index
    BY <1>1 DEF Fo!get_eth_index, LayoutOK
  <1>2. CASE Fo!get_mac
    BY <1>2 DEF Fo!get_mac, LayoutOK, Fo!sizeof_eth
  <1>3. CASE Fo!get_ip
    <2>1. /\ step' = "send" /\ total_len' = 42
          /\ icmp' = Fo!get_icmp([i \in 1..4 |-> 0])
      BY <1>3 DEF Fo!get_ip, LayoutOK, Fo!sizeof_ip, Fo!sizeof_icmp
    <2>2. PICK a \in IF index # 0 THEN AddressWords ELSE {0},
               b \in IF index # 0 THEN AddressWords ELSE {0} :
            ip' = [Fo!IpHeader(a, b, total_len' - Fo!sizeof_eth)
                     EXCEPT ![6] = Fo!checksum(Fo!IpHeader(a, b, total_len' - Fo!sizeof_eth))]
      BY <1>3, Zenon DEF Fo!get_ip
    <2>3. a \in Nat /\ a < 65536 /\ b \in Nat /\ b < 65536
      BY Assumptions DEF Fo!ForgerAssumption
    <2>4. PICK h : h = Fo!IpHeader(a, b, 28)
      OBVIOUS
    <2>5. ip' = [h EXCEPT ![6] = Fo!checksum(h)]
      <3>1. total_len' - Fo!sizeof_eth = 28
        BY <2>1 DEF Fo!sizeof_eth
      <3>2. QED
        BY ONLY <2>2, <2>4, <3>1
    <2>6. Len(ip') = 10 /\ ip'[2] = 28 /\ Fo!Verifies(ip')
      BY ONLY <2>3, <2>4, <2>5, HeaderVerifies
    <2>7. Len(icmp') = 4 /\ Fo!Verifies(icmp')
      BY ONLY <2>1, RequestVerifies
    <2>8. Fo!Verifies(ip)' /\ Fo!Verifies(icmp)'
      BY <2>6, <2>7 DEF Fo!Verifies, Fo!WordSum
    <2>9. QED
      BY <2>1, <2>6, <2>7, <2>8 DEF LayoutOK
  <1>4. ASSUME UNCHANGED <<ip, icmp, total_len>>, step' \in {step, "failed"},
               step \in {"send", "failed"} \/ (step' = step /\ frames' = frames)
        PROVE LayoutOK'
    <2>1. Fo!Verifies(ip)' = Fo!Verifies(ip) /\ Fo!Verifies(icmp)' = Fo!Verifies(icmp)
      BY <1>4 DEF Fo!Verifies, Fo!WordSum
    <2>2. QED
      BY <1>4, <2>1 DEF LayoutOK
  <1>5. CASE Fo!Send
    BY <1>4, <1>5 DEF Fo!Send
  <1>6. CASE Fo!SendFails
    BY <1>4, <1>6 DEF Fo!SendFails
  <1>7. CASE UNCHANGED Fo!vars
    BY <1>4, <1>7 DEF Fo!vars
  <1>8. QED
    BY <1>1, <1>2, <1>3, <1>5, <1>6, <1>7 DEF Fo!Next

(* ICMP-forge.c: every frame sent verifies as an IP packet and as an ICMP     *)
(* message, and gives its true length.                                        *)
THEOREM FoFramesVerify == Fo!Init /\ [][Fo!Next]_(Fo!vars) => []Fo!FramesVerify
  <1>1. LayoutOK => Fo!FramesVerify
    <2> SUFFICES ASSUME LayoutOK, frames = "some" PROVE Fo!FramesVerify
      BY DEF Fo!FramesVerify
    <2>1. step \in {"send", "failed"}
      BY DEF LayoutOK
    <2>2. /\ Len(ip) = 10 /\ ip[2] = 28 /\ Fo!Verifies(ip)
          /\ Len(icmp) = 4 /\ Fo!Verifies(icmp)
      BY <2>1 DEF LayoutOK
    <2>3. ip[2] = 2 * (Len(ip) + Len(icmp)) /\ Fo!sizeof_eth + ip[2] <= Fo!FRAME
      BY <2>2 DEF Fo!sizeof_eth, Fo!FRAME
    <2>4. QED
      BY <2>2, <2>3 DEF Fo!FramesVerify
  <1>2. QED
    BY <1>1, FoInit, FoNext, PTL

-----------------------------------------------------------------------------
(***************************************************************************)
(* All of them: whichever program a behaviour of MCNetwork runs, each of   *)
(* them takes a step of its own or none.                                   *)
(***************************************************************************)
LEMMA EveryStep ==
  ASSUME [MCNext]_allVars
  PROVE  /\ [Next]_vars /\ [Tcp!Next]_(Tcp!vars) /\ [Udp!Next]_(Udp!vars)
         /\ [Tun!Next]_(Tun!vars) /\ [Sn!Next]_(Sn!vars) /\ [Fo!Next]_(Fo!vars)
  <1>1. \/ Next \/ UNCHANGED vars
    BY DEF MCNext, allVars
  <1>2. Tcp!Next \/ UNCHANGED tcpVars
    BY DEF MCNext, allVars
  <1>3. Udp!Next \/ UNCHANGED udpVars
    BY DEF MCNext, allVars
  <1>4. Tun!Next \/ UNCHANGED tunnelVars
    BY DEF MCNext, allVars
  <1>5. Sn!Next \/ UNCHANGED snifferVars
    BY DEF MCNext, allVars
  <1>6. Fo!Next \/ UNCHANGED forgerVars
    BY DEF MCNext, allVars
  <1>7. [Tcp!Next]_(Tcp!vars) /\ [Udp!Next]_(Udp!vars) /\ [Tun!Next]_(Tun!vars)
    BY <1>2, <1>3, <1>4 DEF tcpVars, Tcp!vars, udpVars, Udp!vars, tunnelVars, Tun!vars
  <1>8. [Sn!Next]_(Sn!vars) /\ [Fo!Next]_(Fo!vars)
    BY <1>5, <1>6 DEF snifferVars, Sn!vars, forgerVars, Fo!vars
  <1>9. QED
    BY <1>1, <1>7, <1>8

LEMMA EveryProgram ==
  MCSpec => /\ Init /\ [][Next]_vars
            /\ Tcp!Init /\ [][Tcp!Next]_(Tcp!vars)
            /\ Udp!Init /\ [][Udp!Next]_(Udp!vars)
            /\ Tun!Init /\ [][Tun!Next]_(Tun!vars)
            /\ Sn!Init /\ [][Sn!Next]_(Sn!vars)
            /\ Fo!Init /\ [][Fo!Next]_(Fo!vars)
  <1>1. MCInit => Init /\ Tcp!Init /\ Udp!Init /\ Tun!Init /\ Sn!Init /\ Fo!Init
    BY DEF MCInit
  <1>2. QED
    BY <1>1, EveryStep, PTL DEF MCSpec

(* web-server.c: the sockets main() holds are that of the client it serves,   *)
(* and those of clients it answered nothing: gone before they were read, or   *)
(* asking for a file that was not there or found no descriptor left.          *)
THEOREM SocketsLeakOnlySo == MCSpec => []OnlyUnansweredLeak
  <1>1. WebIInv => OnlyUnansweredLeak
    BY DEF WebIInv
  <1>2. QED
    BY <1>1, EveryProgram, WebInvariant, PTL

(* web-server.c, square-server.c, square-server-udp.c, send_icmp.c: whoever   *)
(* is answered is answered to a question of its own, a file's bytes being     *)
(* followed by stale ones at most, and a typed line is shown only to the user *)
(* its sender can reach.                                                      *)
THEOREM AnswersAlwaysBelong == MCSpec => []AnswersBelong
  <1>1. WebIInv => AnswersFit
    BY DEF WebIInv
  <1>2. AnswersFit /\ Tcp!AnswersMatch /\ Udp!AnswersOwn /\ Tun!OnlyReachedSee => AnswersBelong
    BY DEF AnswersBelong
  <1>3. QED
    BY <1>1, <1>2, EveryProgram, WebInvariant, TcpAnswersMatch, UdpAnswersOwn, TunOnlyReachedSee, PTL

(* packet-process.c, filter.c, ICMP-forge.c: the sniffer counts every frame   *)
(* by the bytes its buffer then holds, filters it by the addresses it has,    *)
(* and the forger's frames verify.                                            *)
THEOREM FramesAlwaysAre == MCSpec => []FramesAreWhatTheySay
  <1>1. Sn!CountsFrames /\ Sn!FiltersMatch /\ Fo!FramesVerify => FramesAreWhatTheySay
    BY DEF FramesAreWhatTheySay
  <1>2. QED
    BY <1>1, EveryProgram, SnFramesAsTheyAre, FoFramesVerify, PTL
=============================================================================
