------------------------------- MODULE Forger -------------------------------
(* The ICMP forger (lab3 partD ICMP-forge.c): it asks the interface for its index, MAC
   and IP address - a failed ioctl is only reported - lays out an Ethernet, an IP and
   an ICMP header in sendbuff, and sends that frame until a send fails.  Headers are
   sequences of 16-bit words in network order. *)
EXTENDS Integers, Sequences

CONSTANT AddressWords           \* the values a word of the interface's address may have
ForgerAssumption == \A w \in AddressWords : w \in Nat /\ w < 65536

VARIABLES pc, working,          \* whether socket() gave a descriptor ioctl() can use
          index, eth, ip, icmp, \* the interface's index; the headers in sendbuff
          total_len, frames     \* frames sent: none, or some
vars == <<pc, working, index, eth, ip, icmp, total_len, frames>>

sizeof_eth == 14
sizeof_ip == 20
sizeof_icmp == 8
FRAME == 64                     \* sendto() sends this many bytes of sendbuff
Blank(bytes) == [i \in 1..bytes \div 2 |-> 0]

(* checksum(): the sum of the words, the carries added until there are none, ~. *)
Complement(w) == 65535 - w
WordSum(words) == LET sum[n \in 0..Len(words)] == IF n = 0 THEN 0 ELSE sum[n - 1] + words[n]
                  IN sum[Len(words)]
AddCarries[sum \in Nat] == IF sum \div 65536 = 0 THEN sum
                           ELSE AddCarries[(sum % 65536) + (sum \div 65536)]
(* Mutant: the carries are added only once. *)
checksumAddedOnce(words) ==
  Complement(((WordSum(words) % 65536) + (WordSum(words) \div 65536)) % 65536)
checksum(words) == Complement(AddCarries[WordSum(words)])

Init == /\ pc = "get_eth_index" /\ working \in BOOLEAN /\ index = 0
        /\ eth = Blank(sizeof_eth) /\ ip = Blank(sizeof_ip) /\ icmp = Blank(sizeof_icmp)
        /\ total_len = 0 /\ frames = "none"

get_eth_index == /\ pc = "get_eth_index"
                 /\ index' \in IF working THEN {0, 2} ELSE {0}
                 /\ pc' = "get_mac"
                 /\ UNCHANGED <<working, eth, ip, icmp, total_len, frames>>

(* Destination, source (zero where the ioctl failed), and the type, IPv4. *)
get_mac == /\ pc = "get_mac"
           /\ \E mac \in IF index # 0 THEN {0, 4660} ELSE {0} :
                 eth' = <<12, 10721, 36010, mac, mac, mac, 2048>>
           /\ total_len' = total_len + sizeof_eth
           /\ pc' = "get_ip"
           /\ UNCHANGED <<working, index, ip, icmp, frames>>

(* get_ip() and the get_icmp() it calls; check is 0 when the sum is taken. *)
get_icmp(message) == LET request == [message EXCEPT ![1] = 2048, ![2] = 0]
                     IN [request EXCEPT ![2] = checksum(request)]
IpHeader(a, b, length) == <<17680, length, 10201, 0, 16385, 0, a, b, 49320, 30090>>
get_ip == /\ pc = "get_ip"
          /\ icmp' = get_icmp(icmp)
          /\ total_len' = total_len + sizeof_ip + sizeof_icmp
          /\ \E a, b \in IF index # 0 THEN AddressWords ELSE {0} :
                LET header == IpHeader(a, b, total_len' - sizeof_eth)
                IN ip' = [header EXCEPT ![6] = checksum(header)]
          /\ pc' = "send"
          /\ UNCHANGED <<working, index, eth, frames>>

(* sendto() fails without a socket or an interface, or when the interface is down. *)
Send == /\ pc = "send" /\ working /\ index # 0
        /\ frames' = "some"
        /\ UNCHANGED <<pc, working, index, eth, ip, icmp, total_len>>
SendFails == /\ pc = "send" /\ pc' = "failed"
             /\ UNCHANGED <<working, index, eth, ip, icmp, total_len, frames>>

Next == get_eth_index \/ get_mac \/ get_ip \/ Send \/ SendFails
Spec == Init /\ [][Next]_vars

------------------------------------------------------------------------------
(* RFC 1071: the one's complement sum of a header, its checksum included, is all ones.
   The reference takes the sum modulo 65535, without adding carries. *)
Verifies(words) == WordSum(words) % 65535 = 0 /\ WordSum(words) # 0

(* Whatever is sent verifies as an IP packet and as an ICMP message, and gives as its
   length all that was laid out after the Ethernet header, which fits in the frame. *)
FramesVerify == frames = "some" => /\ Verifies(ip) /\ Verifies(icmp)
                                   /\ ip[2] = 2 * (Len(ip) + Len(icmp))
                                   /\ sizeof_eth + ip[2] <= FRAME
==============================================================================
