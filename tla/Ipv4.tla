-------------------------------- MODULE Ipv4 --------------------------------
(***************************************************************************)
(* proto_validate_ipv4_packet: the test that every packet passes between   *)
(* the TUN device and the tunnel, in the order and with the masks of the   *)
(* code, against the ranges it stands for.  A packet is the fields that    *)
(* the test reads.                                                         *)
(***************************************************************************)
EXTENDS Integers

CONSTANTS
  SUBNET,               \* TUND_SUBNET, in host byte order
  Packets,              \* the packets that arrive
  NoPacket

Byte == 256
Broadcast == SUBNET + 255
ServerAddress == SUBNET + 1
PoolAddresses == SUBNET + 2 .. SUBNET + 254

Packet == [len : Nat, version : 0 .. 15, ihl : 0 .. 15, total : Nat,
           src : Nat, dst : Nat]

ASSUME Ipv4Assumption ==
  /\ SUBNET \in Nat /\ SUBNET % 256 = 0
  /\ Packets \subseteq Packet /\ NoPacket \notin Packet

VARIABLE packet         \* the packet under test
-----------------------------------------------------------------------------
\* Wrong: the mask is forgotten, so that any address above the network's passes.
FaultyInSubnet(a) == a >= SUBNET

\* `(a & TUND_NETMASK) == TUND_SUBNET'
InSubnet(a) == a - (a % Byte) = SUBNET

Validate(p) ==
  LET ihl == (p.ihl * 4) % Byte
  IN IF p.len < 20 THEN "TOO_SHORT"
     ELSE IF p.version # 4 THEN "BAD_VERSION"
     ELSE IF ihl < 20 THEN "BAD_IHL"
     ELSE IF p.len < ihl THEN "TRUNCATED"
     ELSE IF p.total < ihl THEN "LENGTH_MISMATCH"
     ELSE IF p.total > p.len THEN "TRUNCATED"
     ELSE IF p.total # p.len THEN "LENGTH_MISMATCH"
     ELSE IF ~InSubnet(p.src) \/ p.src = SUBNET \/ p.src = Broadcast THEN "BAD_SRC"
     ELSE IF p.dst = SUBNET THEN "BAD_DST"
     ELSE IF p.dst # Broadcast /\ ~InSubnet(p.dst) THEN "BAD_DST"
     ELSE "OK"

\* The loops of server_tun_thread and client_tun_thread and the DATA handlers:
\* a packet is read and tested, then it is dropped or goes on its way.
Ipv4Init == packet = NoPacket
ReadPacket == packet = NoPacket /\ packet' \in Packets
PassOn == packet # NoPacket /\ packet' = NoPacket
Ipv4Next == ReadPacket \/ PassOn
Ipv4Spec == Ipv4Init /\ [][Ipv4Next]_packet
-----------------------------------------------------------------------------
Hosts == {ServerAddress} \cup PoolAddresses

\* An IPv4 packet whose header and length are consistent, from a host of the
\* virtual network to one of its hosts or to all of them
WellFormed(p) ==
  /\ p.version = 4
  /\ 20 <= 4 * p.ihl /\ 4 * p.ihl <= p.total
  /\ p.total = p.len
  /\ p.src \in Hosts
  /\ p.dst \in Hosts \cup {Broadcast}

\* proto_validate_ipv4_packet (protocol.c:413) passes exactly the well-formed
\* packets, so that a packet that passed has a destination which the server
\* knows how to serve: itself, an address of the pool or the broadcast address.
Ipv4Exact == packet # NoPacket => (Validate(packet) = "OK" <=> WellFormed(packet))
=============================================================================
