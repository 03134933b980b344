------------------------------- MODULE Tunnel -------------------------------
(* The ICMP tunnel (lab3 partB main.c, send_icmp.c).  Each user's parent process sends
   what is typed in an echo request whose ICMP header is encrypted in place; the child,
   forked before the first message, decrypts what arrives and shows what is for its
   user.  Both checksums are taken 20 bytes into sendbuff, which holds no IP header:
   over dname[2..9] in the parent, over the child's own sendbuff, zero, in the child.
   A name is [start: its first two bytes, rest: the words of the other eight].  A
   header byte is <<value, encrypted>>: XOR with the key twice gives the byte back. *)
EXTENDS Integers, Sequences, FiniteSets
Bag == INSTANCE BagsExt

CONSTANTS Users, myname, whoname,   \* two functions from Users to names
          Peer,                     \* the user at the address each user gave
          Lines, MaxSent, MaxLost   \* what may be typed; bounds: lines per user, packets lost

WordSize == 65536
TunnelAssumption == /\ IsFiniteSet(Users) /\ Peer \in [Users -> Users] /\ MaxSent \in Nat
                    /\ \A u \in Users : whoname[u].rest \in [1..4 -> 0..WordSize - 1]

VARIABLES header,                   \* the code byte each parent's sendbuff holds
          sent, shown,              \* lines typed by a user; lines shown to it, <<sname, data>>
          packets, lost,            \* a bag of packets under way; how many were lost
          exited                    \* users whose parent process has ended
vars == <<header, sent, shown, packets, lost, exited>>

ICMP_ECHO == 8
Flip(b) == <<b[1], ~b[2]>>
encrypt(h) == [f \in DOMAIN h |-> Flip(h[f])]
(* Mutant: what arrives is not decrypted. *)
asReceived(h) == h
decrypt(h) == encrypt(h)

(* icmp_checksum(): the carries are added twice. *)
icmp_checksum(words) ==
    LET sum == words[1] + words[2] + words[3] + words[4]
        once == (sum \div WordSize) + (sum % WordSize)
    IN (WordSize - 1) - ((once + (once \div WordSize)) % WordSize)
NoWords == <<0, 0, 0, 0>>

NoneUnderWay == [p \in {} |-> 0]
(* init_icmp_packet(); fork() leaves the child this sendbuff. *)
Init == /\ header = [u \in Users |-> <<0, FALSE>>]
        /\ sent = [u \in Users |-> <<>>] /\ shown = [u \in Users |-> <<>>]
        /\ packets = NoneUnderWay /\ lost = 0
        /\ exited = {}

(* senddata(): type and checksum are written afresh; the rest of the header stays as
   the last encrypt() left it. *)
senddata(u) ==
    /\ u \notin exited /\ Len(sent[u]) < MaxSent
    /\ \E data \in Lines :
         LET plain == [type |-> <<ICMP_ECHO, FALSE>>, code |-> header[u],
                       checksum |-> <<icmp_checksum(whoname[u].rest), FALSE>>]
             packet == [icmp |-> encrypt(plain), sname |-> myname[u], dname |-> whoname[u],
                        data |-> data]
         IN /\ header' = [header EXCEPT ![u] = encrypt(plain).code]
            /\ sent' = [sent EXCEPT ![u] = Append(@, data)]
            /\ packets' = Bag!BagAdd(packets, <<Peer[u], packet>>)
    /\ UNCHANGED <<shown, lost, exited>>
(* sendto() fails: the parent exits, its child goes on showing what arrives. *)
SendFails(u) == /\ u \notin exited /\ Len(sent[u]) < MaxSent
                /\ exited' = exited \cup {u}
                /\ UNCHANGED <<header, sent, shown, packets, lost>>

(* Mutant: the checksum is not looked at. *)
filterByName(u, icmph, packet) == icmph.type = <<ICMP_ECHO, FALSE>> /\ packet.dname = myname[u]
(* filter() of a decrypted header. *)
filter(u, icmph, packet) == /\ icmph.type = <<ICMP_ECHO, FALSE>>
                            /\ packet.dname = myname[u]
                            /\ icmph.checksum = <<icmp_checksum(NoWords), FALSE>>
Receive(u) == /\ \E p \in DOMAIN packets :
                    /\ p[1] = u
                    /\ packets' = Bag!BagRemove(packets, p)
                    /\ shown' = IF filter(u, decrypt(p[2].icmp), p[2])
                                  THEN [shown EXCEPT ![u] = Append(@, <<p[2].sname, p[2].data>>)]
                                  ELSE shown
              /\ UNCHANGED <<header, sent, lost, exited>>
Lose == /\ lost < MaxLost /\ lost' = lost + 1
        /\ \E p \in DOMAIN packets : packets' = Bag!BagRemove(packets, p)
        /\ UNCHANGED <<header, sent, shown, exited>>

Next == Lose \/ \E u \in Users : senddata(u) \/ SendFails(u) \/ Receive(u)
Spec == Init /\ [][Next]_vars /\ \A u \in Users : WF_vars(Receive(u))

------------------------------------------------------------------------------
(* Whom a user's messages can reach: the peer it calls by its name, but only when the
   name has no more than two bytes - the checksum of a longer one is never the one
   the receiver computes over its own empty buffer. *)
Reaches(u, v) == Peer[u] = v /\ whoname[u] = myname[v] /\ whoname[u].rest = NoWords

(* Where m was typed, under its name, by users whose messages reach v: user and line. *)
Typings(m, v) == {t \in Users \X (1..MaxSent) :
                    /\ Reaches(t[1], v) /\ m[1] = myname[t[1]]
                    /\ t[2] <= Len(sent[t[1]]) /\ m[2] = sent[t[1]][t[2]]}
Showings(m, v) == {k \in DOMAIN shown[v] : shown[v][k] = m}

(* A line is shown only to a user its sender reaches, under the sender's name, and no
   more often than it was typed. *)
OnlyReachedSee ==
    \A v \in Users : \A k \in DOMAIN shown[v] :
      LET m == shown[v][k]
      IN Cardinality(Showings(m, v)) <= Cardinality(Typings(m, v))

(* Unless packets are lost, all that was sent to a user its sender reaches is shown. *)
AllShown ==
    \A u, v \in Users :
      Reaches(u, v) => \A n \in 1..MaxSent :
        Len(sent[u]) >= n ~> \/ lost > 0
                             \/ Cardinality({k \in DOMAIN shown[v] : shown[v][k][1] = myname[u]}) >= n
==============================================================================
