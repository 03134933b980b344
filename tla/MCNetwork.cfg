\* Two clients, two files and one or two descriptors for the web server; two TCP clients; one UDP
\* client that asks three times; two users of the tunnel; three frames for the sniffer.
CONSTANTS
  c1 = c1
  c2 = c2
  Clients = {c1, c2}
  Paths = {"a", "b"}
  Contents <- MCContents
  BodySize = 2
  Nul = "NUL"
  Junk = "junk"
  Requests <- MCRequests
  MaxDescriptors = 2
  IntBits = 4
  TcpLines <- MCTcpLines
  Askers = {"c"}
  UdpLines <- MCUdpLines
  MaxAsked = 3
  MaxFaults = 2
  Users <- MCUsers
  myname <- MCmyname
  whoname <- MCwhoname
  Peer <- MCPeer
  TunnelLines = {"x", "y"}
  MaxSent = 2
  MaxLost = 1
  Frames <- MCFrames
  MaxFrames = 3
  AddressWords = {0, 7367, 49320, 65535}
SPECIFICATION MCSpec
INVARIANTS AnswersBelong OnlyUnansweredLeak FramesAreWhatTheySay
PROPERTIES AnswersArrive
\* A client may ask for nothing, and the server may be killed by SIGPIPE.
CHECK_DEADLOCK FALSE
