------------------------------ MODULE MCNetwork ------------------------------
(***************************************************************************)
(* Model checking of the network programs of lab3: the web server, the     *)
(* square services over TCP and over UDP, the ICMP tunnel, the sniffer and *)
(* the ICMP forger.  prog says which of them the behaviour runs; the       *)
(* others stay as they start.                                              *)
(***************************************************************************)
EXTENDS WebServer

CONSTANTS IntBits,              \* of SquareTcp and SquareUdp
          TcpLines,
          Askers, UdpLines, MaxAsked, MaxFaults,
          Users, myname, whoname, Peer, TunnelLines, MaxSent, MaxLost,      \* of Tunnel
          Frames, MaxFrames,            \* of Sniffer
          AddressWords                  \* of Forger

VARIABLES prog,
          tcpBuffer, tcpClient, typing, asked, up, down, queued, talking,
          udpClient, sent, told, requests, replies, lost, repeated,
          header, typed, shown, packets, dropped, exited,
          buf, seen, count, running,
          step, working, index, eth, ip, icmp, total_len, frames

tcpVars == <<tcpBuffer, tcpClient, typing, asked, up, down, queued, talking>>
udpVars == <<udpClient, sent, told, requests, replies, lost, repeated>>
tunnelVars == <<header, typed, shown, packets, dropped, exited>>
snifferVars == <<buf, seen, count, running>>
forgerVars == <<step, working, index, eth, ip, icmp, total_len, frames>>
allVars == <<prog, vars, tcpVars, udpVars, tunnelVars, snifferVars, forgerVars>>

-----------------------------------------------------------------------------
Tcp == INSTANCE SquareTcp WITH Lines <- TcpLines, W <- IntBits,
                               buffer <- tcpBuffer, client <- tcpClient,
                               backlog <- queued, serving <- talking
Udp == INSTANCE SquareUdp WITH Clients <- Askers, Lines <- UdpLines, W <- IntBits,
                               client <- udpClient
Tun == INSTANCE Tunnel WITH Lines <- TunnelLines, sent <- typed, lost <- dropped
Sn == INSTANCE Sniffer
Fo == INSTANCE Forger WITH pc <- step

ASSUME Assumptions == Tun!TunnelAssumption /\ Sn!SnifferAssumption /\ Fo!ForgerAssumption

MCInit == /\ Init /\ Tcp!Init /\ Udp!Init /\ Tun!Init /\ Sn!Init /\ Fo!Init
          /\ prog \in {"web", "tcp", "udp", "tunnel", "sniffer", "forger"}
          /\ prog # "web" => files = {} /\ limit = 1 /\ body = [i \in 1..BodySize |-> Nul]
          /\ prog # "tcp" => \A c \in Clients : tcpBuffer[c] = Tcp!Nothing
          /\ prog # "forger" => ~working

MCNext ==
  \/ /\ prog = "web" /\ Next
     /\ UNCHANGED <<prog, tcpVars, udpVars, tunnelVars, snifferVars, forgerVars>>
  \/ /\ prog = "tcp" /\ Tcp!Next
     /\ UNCHANGED <<prog, vars, udpVars, tunnelVars, snifferVars, forgerVars>>
  \/ /\ prog = "udp" /\ Udp!Next
     /\ UNCHANGED <<prog, vars, tcpVars, tunnelVars, snifferVars, forgerVars>>
  \/ /\ prog = "tunnel" /\ Tun!Next
     /\ UNCHANGED <<prog, vars, tcpVars, udpVars, snifferVars, forgerVars>>
  \/ /\ prog = "sniffer" /\ Sn!Next
     /\ UNCHANGED <<prog, vars, tcpVars, udpVars, tunnelVars, forgerVars>>
  \/ /\ prog = "forger" /\ Fo!Next
     /\ UNCHANGED <<prog, vars, tcpVars, udpVars, tunnelVars, snifferVars>>

MCSpec == /\ MCInit /\ [][MCNext]_allVars
          /\ WF_vars(prog = "web" /\ Server)
          /\ WF_tcpVars(prog = "tcp" /\ Tcp!Server)
          /\ \A c \in Clients : WF_tcpVars(prog = "tcp" /\ Tcp!Receive(c))
          /\ WF_udpVars(prog = "udp" /\ Udp!Answer)
          /\ (\A c \in Askers : WF_udpVars(prog = "udp" /\ Udp!Receive(c)))
          /\ \A u \in Users : WF_tunnelVars(prog = "tunnel" /\ Tun!Receive(u))

-----------------------------------------------------------------------------
(* web-server.c, square-server.c, square-server-udp.c: every answer a client  *)
(* gets is that to a question of its own - the bytes of the file it asked for *)
(* and at most stale ones behind them - and to the question it waits for      *)
(* unless the network repeated a datagram of its; send_icmp.c: a line typed   *)
(* into the tunnel is shown only to the user its sender can reach.            *)
AnswersBelong == AnswersFit /\ Tcp!AnswersMatch /\ Udp!AnswersOwn /\ Tun!OnlyReachedSee

(* packet-process.c, filter.c and ICMP-forge.c: the sniffer counts each frame *)
(* by the bytes its buffer then holds, a short frame over stale ones, and     *)
(* filters it by the addresses it has; what the forger sends carries          *)
(* checksums and lengths a receiver accepts.                                  *)
FramesAreWhatTheySay == Sn!CountsFrames /\ Sn!FiltersMatch /\ Fo!FramesVerify

(* Whoever asks is answered in the end, whatever reaches the tunnel is shown, *)
(* but for the cases each module names: a leaked socket, a silent client, a   *)
(* server that is killed or out of descriptors, an empty line, a lost         *)
(* datagram.                                                                  *)
AnswersArrive == /\ prog = "web" => RequestsAreServed
                 /\ prog = "tcp" => Tcp!EveryoneAnswered
                 /\ prog = "udp" => Udp!AnsweredUnlessLost
                 /\ prog = "tunnel" => Tun!AllShown

-----------------------------------------------------------------------------
(* The instance that is checked: a file shorter than body, and one that is longer. *)
MCContents == [a |-> <<"a">>, b |-> <<"b", "b", "b">>]
MCRequests == {<<"GET", "a">>, <<"GET", "b">>, <<"DELETE", "b">>, <<"PUT", "a">>, <<"garbage">>}
MCTcpLines == {<<"i", 3>>, <<"", 0>>, <<"bye", 0>>}
MCUdpLines == {<<"i", 3>>, <<"f", 2>>, <<"bye", 0>>}

(* A user with a short name, and one whose name has more than two bytes. *)
Al == [start |-> "al", rest |-> <<0, 0, 0, 0>>]
Bob == [start |-> "bo", rest |-> <<65535, 2, 0, 0>>]
MCUsers == {"u1", "u2"}
MCmyname == [u1 |-> Al, u2 |-> Bob]
MCwhoname == [u1 |-> Bob, u2 |-> Al]
MCPeer == [u1 |-> "u2", u2 |-> "u1"]

(* A frame of n bytes: some end inside the IP header, before or behind the protocol. *)
Frame(n, h_proto, protocol, host) ==
  [n |-> n, h_proto |-> h_proto, eth |-> <<<<1, 5>>, <<7, 0>>>>, protocol |-> protocol,
   saddr |-> <<1, 1, 1, host>>, daddr |-> <<1, 1, host, 9>>]
MCFrames == {Frame(60, "arp", "none", 1), Frame(20, "ip", "none", 1),
             Frame(24, "ip", "udp", 2), Frame(33, "ip", "icmp", 2), Frame(24, "ipv6", "icmp", 2)}
            \cup {Frame(60, "ip", p, 3) : p \in {"tcp", "udp", "icmp", "igmp", "gre"}}
==============================================================================
