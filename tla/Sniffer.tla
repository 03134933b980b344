------------------------------- MODULE Sniffer -------------------------------
(* The sniffer (lab3 partC main.c, packet-process.c, filter.c).
   main() receives frame after frame into one buffer that it never clears, drops
   those filterByProtocol() refuses, and counts the others.
   A frame brings the fields whose bytes lie within its first n: the Ethernet header
   (its two addresses, source first), the IP protocol and the octets of the two IP
   addresses.  An address's digit is one of 0..Digit-1.  filterByPort() is left out. *)
EXTENDS Integers, Sequences, SequencesExt, FiniteSetsExt

CONSTANTS Frames,               \* the frames the network may deliver
          MaxFrames             \* bound: frames received
VARIABLES buf, seen,            \* what lies in the buffer; the frames received so far
          count, running        \* packet-process.c's counters
vars == <<buf, seen, count, running>>

sizeof_eth == 14
Digit == 3
SnifferAssumption ==
    \A f \in Frames : /\ f.n \in Nat /\ f.n >= sizeof_eth
                      /\ f.eth \in [1..2 -> [1..2 -> 0..Digit * Digit - 1]]
                      /\ f.saddr = [i \in 1..4 |-> f.saddr[i]]
                      /\ f.daddr = [i \in 1..4 |-> f.daddr[i]]
(* Where the fields of struct iphdr end, and the addresses begin, in the frame. *)
ProtocolEnd == sizeof_eth + 10
SaddrAt == sizeof_eth + 12
DaddrAt == sizeof_eth + 16
sizeof_ip == 20
Kinds == {"tcp", "udp", "icmp", "igmp", "arp", "other", "total"}

(* recvfrom(): every byte the frame is too short to overwrite stays. *)
Octets(f, new, old, at) == [i \in 1..4 |-> IF f.n >= at + i THEN new[i] ELSE old[i]]
Overwritten(f) ==
  [h_proto |-> f.h_proto, eth |-> f.eth,
   protocol |-> IF f.n >= ProtocolEnd THEN f.protocol ELSE buf.protocol,
   saddr |-> Octets(f, f.saddr, buf.saddr, SaddrAt),
   daddr |-> Octets(f, f.daddr, buf.daddr, DaddrAt)]
Zero == [i \in 1..4 |-> 0]
Empty == [h_proto |-> "none", eth |-> <<<<0, 0>>, <<0, 0>>>>, protocol |-> "none",
          saddr |-> Zero, daddr |-> Zero]

(* filterByProtocol(): FALSE for the type asked for. *)
Types == <<"arp", "icmp", "tcp", "udp">>
filterByProtocol(b, type) == IF b.h_proto = "arp" THEN type # 1
                             ELSE type = 1 \/ b.protocol # Types[type]

(* filterByMacAddress(): a digit it does not know leaves the one before in its place.
   An address is a sequence of digit pairs. *)
Unknown == -1
Kept(digits) == [i \in DOMAIN digits |->
                   LET known == {j \in 1..i : digits[j] # Unknown}
                   IN IF known = {} THEN 0 ELSE digits[Max(known)]]
resultArray(mac) == LET l == Kept([i \in DOMAIN mac |-> mac[i][1]])
                        r == Kept([i \in DOMAIN mac |-> mac[i][2]])
                    IN [i \in DOMAIN mac |-> l[i] * Digit + r[i]]
filterByMacAddress(b, mac, type) ==
    resultArray(mac) = IF type = 0 THEN b.eth[1] ELSE b.eth[2]

(* Mutant: the first answer of inet_ntoa() is read where the second has replaced it. *)
tempNotCopied(b) == b.daddr
(* filterByIpAddress(): inet_ntoa() answers in one buffer of its own, which its second
   call overwrites; the first answer has been copied to temp by then. *)
temp(b) == b.saddr
dest_ip(b) == b.daddr
filterByIpAddress(b, ip_addr, type) ==
    b.h_proto = "ip" /\ ip_addr = IF type = 0 THEN temp(b) ELSE dest_ip(b)

(* Mutant: the cases of the IP protocols run on into the default too. *)
IpCasesRunOn(protocol) == {"other"} \cup ({protocol} \cap Kinds)
IpCases(protocol) == IF protocol \in {"icmp", "igmp", "tcp", "udp"} THEN {protocol} ELSE {"other"}
(* packet_process(): the ARP case runs on into the default. *)
Counted(b) == CASE b.h_proto = "ip" -> IpCases(b.protocol)
                [] b.h_proto = "arp" -> {"arp", "other"}
                [] OTHER -> {"other"}
packet_process(b) ==
    count' = [k \in Kinds |-> IF k \in Counted(b) \cup {"total"} THEN count[k] + 1 ELSE count[k]]

Init == /\ buf = Empty /\ seen = <<>> /\ running = TRUE
        /\ count = [k \in Kinds |-> 0]

Receive == /\ running /\ Len(seen) < MaxFrames
           /\ \E f \in Frames :
                 /\ seen' = Append(seen, f)
                 /\ buf' = Overwritten(f)
                 /\ IF filterByProtocol(buf', 2) THEN packet_process(buf')
                    ELSE UNCHANGED count
           /\ UNCHANGED running
(* recvfrom() fails: main() returns and leaves the interface promiscuous. *)
ReceiveFails == /\ running /\ running' = FALSE
                /\ UNCHANGED <<buf, seen, count>>
Next == Receive \/ ReceiveFails
Spec == Init /\ [][Next]_vars

------------------------------------------------------------------------------
(* The IP protocol main() goes by for frame k: its own, or, when it is too short to
   have one, that of the latest frame before it that was long enough. *)
Complete(k) == {j \in 1..k : seen[j].n >= ProtocolEnd}
ProtocolOf(k) == IF Complete(k) = {} THEN "none" ELSE seen[Max(Complete(k))].protocol
ArpFrames == {k \in DOMAIN seen : seen[k].h_proto = "arp"}
IpFrames(p) == {k \in DOMAIN seen : seen[k].h_proto = "ip" /\ ProtocolOf(k) = p}
DroppedFrames == {k \in DOMAIN seen : seen[k].h_proto # "arp" /\ ProtocolOf(k) = "icmp"}

(* Every frame is counted once - an ARP frame also as "other" - except those dropped:
   whatever is not ARP and has ICMP's number where IPv4 keeps the protocol, so no
   ICMP packet is ever counted. *)
CountsFrames ==
    /\ count["icmp"] = 0
    /\ count["arp"] = Cardinality(ArpFrames)
    /\ \A p \in {"tcp", "udp", "igmp"} : count[p] = Cardinality(IpFrames(p))
    /\ count["total"] = Cardinality(DOMAIN seen \ DroppedFrames)
    /\ count["total"] = count["tcp"] + count["udp"] + count["igmp"] + count["other"]

(* An address in digits filterByMacAddress() knows is taken for what it says, and so is
   one of an IP packet, unless a frame too short to hold the IP header left some octets
   of an earlier one in the buffer; each at the end the caller names. *)
FiltersMatch ==
    seen # <<>> =>
      LET f == Last(seen)
          Says(mac, octets) == \A i \in DOMAIN mac : mac[i][1] * Digit + mac[i][2] = octets[i]
          Addresses == {seen[k].saddr : k \in DOMAIN seen} \cup {seen[k].daddr : k \in DOMAIN seen}
      IN \A type \in {0, 1} :
           /\ \A mac \in [1..2 -> (0..Digit - 1) \X (0..Digit - 1)] :
                filterByMacAddress(buf, mac, type) <=> Says(mac, f.eth[type + 1])
           /\ f.n >= sizeof_eth + sizeof_ip =>
                \A addr \in Addresses :
                   filterByIpAddress(buf, addr, type)
                     <=> f.h_proto = "ip" /\ addr = IF type = 0 THEN f.saddr ELSE f.daddr
==============================================================================
