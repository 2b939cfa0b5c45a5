---------------------------- MODULE MCReplayWord ----------------------------
(* The parts of protocol.c, one at a time: the replay window, a message on *)
(* its way, the test of IPv4 packets and the smoothed round-trip time; and *)
(* the load generator, which talks to a server with them.                  *)
EXTENDS ReplayWord, Wire, Ipv4, Rtt, Peerforge

VARIABLE part           \* the part under examination

\* More than twice the width of the word: shifts by less than the width, by
\* the width and by more all happen.
MCSeqNums == 0 .. 9

\* Names below, at and above what fits, packets up to one byte too long, lists
\* that fill a datagram and one entry more
Entries(n, name) == [i \in 1 .. n |-> [ip |-> i, name |-> name]]
MCInputs ==
  [type : {"REGISTER"}, name : {0, 1, 31, 32, 33}]
  \cup [type : {"ASSIGN"}, ip : {1}, mask : {2}, mtu : {1400}]
  \cup {[type |-> "PEER_LIST", entries |-> Entries(n, name)] :
          n \in {0, 1, 43, 44}, name \in {33}}
  \cup [type : {"PEER_JOIN"}, ip : {1}, name : {5, 31, 32}]
  \cup [type : {"PEER_LEAVE"}, ip : {1}]
  \cup [type : {"DATA"}, len : {20, 1400, 1600, 1601}]
  \cup [type : {"KEEPALIVE", "KEEPALIVE_ACK"}, time : {1}]
  \cup [type : {"DISCONNECT"}]

\* Lengths and addresses on both sides of every limit
MCAddresses == {SUBNET + d : d \in {-1, 0, 1, 2, 254, 255, 256}}
MCPackets ==
  [len : {0, 19, 20, 24, 60, 1600}, version : {4, 6}, ihl : {0, 4, 5, 6, 15},
   total : {0, 19, 20, 24, 61}, src : MCAddresses, dst : {SUBNET + 2}]
  \cup [len : {20}, version : {4}, ihl : {5}, total : {20}, src : MCAddresses, dst : MCAddresses]

MCTimes == 0 .. 14

MCInit ==
  /\ part \in {"window", "message", "packet", "rtt", "forge"}
  /\ WordInit /\ WireInit /\ Ipv4Init /\ RttInit /\ ForgeInit

MCNext ==
  /\ UNCHANGED part
  /\ \/ part = "window" /\ WordNext /\ UNCHANGED <<wireVars, packet, rttVars, forgeVars>>
     \/ part = "message" /\ WireNext /\ UNCHANGED <<wordVars, packet, rttVars, forgeVars>>
     \/ part = "packet" /\ Ipv4Next /\ UNCHANGED <<wordVars, wireVars, rttVars, forgeVars>>
     \/ part = "rtt" /\ RttNext /\ UNCHANGED <<wordVars, wireVars, packet, forgeVars>>
     \/ part = "forge" /\ ForgeNext /\ UNCHANGED <<wordVars, wireVars, packet, rttVars>>

MCSpec == MCInit /\ [][MCNext]_<<part, wordVars, wireVars, packet, rttVars, forgeVars>>
=============================================================================
