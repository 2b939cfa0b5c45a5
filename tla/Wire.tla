-------------------------------- MODULE Wire --------------------------------
(***************************************************************************)
(* A message from its builder to the handler at the other end: the header, *)
(* the payload, encryption in net_send, a datagram that the network may    *)
(* damage, decryption in net_recv and the reading of the payload.          *)
(*                                                                         *)
(* A payload is a sequence of fields, each with its size in bytes; a name  *)
(* is its length.  crypto_aead_lock and crypto_aead_unlock are external:   *)
(* what is unlocked is what was locked, header included, or nothing.       *)
(***************************************************************************)
EXTENDS Naturals, Sequences

CONSTANTS
  Inputs,               \* what the builders are called with
  Nothing,
  MaxSends              \* bound: how often a buffer is sent

HdrSize == 37
TagSize == 16
MaxPlaintext == 1600
MaxPkt == HdrSize + MaxPlaintext + TagSize
NameLen == 32
EntrySize == 4 + NameLen + 1
Version == 4

Types == {"REGISTER", "ASSIGN", "PEER_LIST", "PEER_JOIN", "PEER_LEAVE", "DATA", "KEEPALIVE",
          "KEEPALIVE_ACK", "DISCONNECT"}

VARIABLES
  input,                \* what the last builder was called with
  buf,                  \* the sender's buffer, or Nothing
  datagram,             \* in flight, or Nothing
  damaged,              \* history: the network has changed the datagram
  got,                  \* what the last handler read, or Nothing
  number                \* the sequence counter, from the last builder on

wireVars == <<input, buf, datagram, damaged, got, number>>
-----------------------------------------------------------------------------
Least(a, b) == IF a <= b THEN a ELSE b
Field(size, val) == [size |-> size, val |-> val]

\* Where each field of a payload ends
EndOf(body) ==
  LET end[i \in 0 .. Len(body)] == IF i = 0 THEN 0 ELSE end[i - 1] + body[i].size
  IN end

SizeOf(body) == EndOf(body)[Len(body)]

\* What memcpy finds in `size' bytes at an offset of the payload: Nothing unless
\* exactly that field is there
At(body, offset, size) ==
  LET end == EndOf(body)
      I == {i \in 1 .. Len(body) : end[i - 1] = offset /\ body[i].size = size}
  IN IF I = {} THEN Nothing ELSE body[CHOOSE i \in I : TRUE].val
-----------------------------------------------------------------------------
(* The builders: what they put into the payload. *)

\* proto_build_register: not terminated, the size is that of the name.
RegisterBody(name) ==
  LET n == Least(name, NameLen) IN IF n = 0 THEN <<>> ELSE <<Field(n, n)>>

AssignBody(ip, mask, mtu) == <<Field(4, ip), Field(4, mask), Field(2, mtu)>>

\* Wrong: no room for the terminator.
FaultyNameField(name) == Field(NameLen, Least(name, NameLen))

\* A name in NameLen bytes, the last of which stays zero
NameField(name) == Field(NameLen, Least(name, NameLen - 1))

JoinBody(ip, name) == <<Field(4, ip), NameField(name)>>
LeaveBody(ip) == <<Field(4, ip)>>
DataBody(len) == <<Field(len, len)>>
TimestampBody(time) == <<Field(8, time)>>
DisconnectBody == <<>>

\* Wrong: the list is as long as the table.
FaultyListBody(entries) ==
  [i \in 1 .. Len(entries) |-> Field(EntrySize, [ip |-> entries[i].ip,
                                                name |-> NameField(entries[i].name).val,
                                                online |-> TRUE])]

\* build_peer_list_from_snapshot, with proto_write_peer_entry: as many entries
\* as there is room for.
ListBody(entries) ==
  LET n == Least(Len(entries), MaxPlaintext \div EntrySize)
  IN [i \in 1 .. n |-> Field(EntrySize, [ip |-> entries[i].ip,
                                         name |-> NameField(entries[i].name).val,
                                         online |-> TRUE])]

BodyOf(m) ==
  CASE m.type = "REGISTER"       -> RegisterBody(m.name)
    [] m.type = "ASSIGN"         -> AssignBody(m.ip, m.mask, m.mtu)
    [] m.type = "PEER_LIST"      -> ListBody(m.entries)
    [] m.type = "PEER_JOIN"      -> JoinBody(m.ip, m.name)
    [] m.type = "PEER_LEAVE"     -> LeaveBody(m.ip)
    [] m.type = "DATA"           -> DataBody(m.len)
    [] m.type = "KEEPALIVE"      -> TimestampBody(m.time)
    [] m.type = "KEEPALIVE_ACK"  -> TimestampBody(m.time)
    [] m.type = "DISCONNECT"     -> DisconnectBody

ASSUME WireAssumption ==
  /\ MaxSends \in Nat
  /\ \A m \in Inputs :
       /\ m.type \in Types /\ BodyOf(m) # Nothing
       /\ m.type \in {"REGISTER", "PEER_JOIN"} => m.name \in Nat
       /\ m.type = "DATA" => m.len \in Nat
       /\ m.type = "PEER_LIST" => Len(m.entries) \in Nat

\* proto_write_hdr, from each proto_build_*: -1 when the payload is too long.
\* A list is in the buffer before its header is, whose result is not looked at.
Build(m) ==
  /\ datagram = Nothing
  /\ input' = m
  /\ buf' = IF SizeOf(BodyOf(m)) > MaxPlaintext /\ m.type # "PEER_LIST"
            THEN Nothing
            ELSE [type |-> m.type, length |-> SizeOf(BodyOf(m)), number |-> 1,
                  body |-> BodyOf(m)]
  /\ number' = 1
  /\ got' = Nothing
  /\ UNCHANGED <<datagram, damaged>>
-----------------------------------------------------------------------------
\* What crypto_aead_lock covers: the header and the payload
Sealed(d) == [version |-> d.version, type |-> d.type, length |-> d.length,
              number |-> d.number, body |-> d.body]

Lock(d) == [hdr |-> d, sealed |-> Sealed(d), size |-> HdrSize + d.length]

\* proto_encrypt: the header is written again, with a new number, and then with
\* the length of the ciphertext.
Encrypt(b, n) ==
  Lock([version |-> Version, type |-> b.type, length |-> b.length + TagSize,
        number |-> n, body |-> b.body])

\* net_send encrypts a copy, so that the buffer can be sent to the next peer.
\* It fails, and nothing is sent, when the number, the nonce or sendto fails.
NetSend ==
  /\ buf # Nothing /\ datagram = Nothing
  /\ number <= MaxSends
  /\ HdrSize + SizeOf(buf.body) <= HdrSize + MaxPlaintext
  /\ buf.length = SizeOf(buf.body)
  /\ number' = number + 1
  /\ datagram' = Encrypt(buf, number') \/ UNCHANGED datagram
  /\ damaged' = FALSE
  /\ got' = Nothing
  /\ UNCHANGED <<input, buf>>

\* The network flips bits or cuts the datagram short; or the sender was another
\* version of the program.
Damage ==
  /\ datagram # Nothing /\ ~damaged
  /\ damaged' = TRUE
  /\ \/ datagram' = [datagram EXCEPT !.hdr.version = @ + 1]
     \/ datagram' = [datagram EXCEPT !.hdr.type = IF @ = "DATA" THEN "ASSIGN" ELSE "DATA"]
     \/ \E n \in {0, datagram.hdr.length - 1, datagram.hdr.length + 1} :
          datagram' = [datagram EXCEPT !.hdr.length = n]
     \/ \E n \in {0, datagram.hdr.number + 1} : datagram' = [datagram EXCEPT !.hdr.number = n]
     \/ datagram' = [datagram EXCEPT !.hdr.body = Nothing]
     \/ \E n \in {0, HdrSize, datagram.size - 1} : datagram' = [datagram EXCEPT !.size = n]
  /\ UNCHANGED <<input, buf, got, number>>

\* proto_decrypt, proto_read_hdr
Decrypts(d) ==
  /\ d.size >= HdrSize + TagSize
  /\ d.hdr.version = Version
  /\ d.hdr.length >= TagSize
  /\ HdrSize + d.hdr.length = d.size
  /\ d.hdr.length - TagSize <= MaxPlaintext
  /\ Sealed(d.hdr) = d.sealed
-----------------------------------------------------------------------------
(* The handlers: what they read, given the payload and its length. *)

\* server_handle_register: the name is cut, or made up from the slot.
ReadName(len) == [name |-> IF len > 0 THEN Least(len, NameLen - 1) ELSE "peer-"]

ReadAssign(body, len) ==
  IF len < 10 THEN Nothing
  ELSE [ip |-> At(body, 0, 4), mask |-> At(body, 4, 4), mtu |-> At(body, 8, 2)]

ReadList(body, len) ==
  [entries |-> [i \in 1 .. len \div EntrySize |-> At(body, (i - 1) * EntrySize, EntrySize)]]

ReadJoin(body, len) ==
  IF len < 4 + NameLen THEN Nothing ELSE [ip |-> At(body, 0, 4), name |-> At(body, 4, NameLen)]

ReadLeave(body, len) == IF len < 4 THEN Nothing ELSE [ip |-> At(body, 0, 4)]

ReadTimestamp(body, len) == IF len < 8 THEN Nothing ELSE [time |-> At(body, 0, 8)]

Read(type, body, len) ==
  CASE type = "REGISTER"       -> ReadName(len)
    [] type = "ASSIGN"         -> ReadAssign(body, len)
    [] type = "PEER_LIST"      -> ReadList(body, len)
    [] type = "PEER_JOIN"      -> ReadJoin(body, len)
    [] type = "PEER_LEAVE"     -> ReadLeave(body, len)
    [] type = "DATA"           -> [len |-> len]
    [] type = "KEEPALIVE"      -> ReadTimestamp(body, len)
    [] type = "KEEPALIVE_ACK"  -> ReadTimestamp(body, len)
    [] type = "DISCONNECT"     -> <<>>

\* net_recv, then server_handle_packet or client_handle_server_packet
NetRecv ==
  /\ datagram # Nothing
  /\ got' = IF Decrypts(datagram) /\ datagram.hdr.number # 0
            THEN [type |-> datagram.hdr.type,
                  is |-> Read(datagram.hdr.type, datagram.hdr.body, datagram.hdr.length - TagSize)]
            ELSE Nothing
  /\ datagram' = Nothing
  /\ UNCHANGED <<input, buf, damaged, number>>

WireInit ==
  /\ input = Nothing /\ buf = Nothing /\ datagram = Nothing /\ damaged = FALSE /\ got = Nothing
  /\ number = 0

WireNext ==
  \/ \E m \in Inputs : Build(m)
  \/ NetSend \/ Damage \/ NetRecv

WireSpec == WireInit /\ [][WireNext]_wireVars
-----------------------------------------------------------------------------
Shown(name) == Least(name, NameLen - 1)

\* What a message says: names up to 31 bytes, an empty one replaced by the
\* server, and of a list what fits one datagram
Said(m) ==
  [type |-> m.type,
   is |->
     CASE m.type = "REGISTER"  -> [name |-> IF m.name = 0 THEN "peer-" ELSE Shown(m.name)]
       [] m.type = "ASSIGN"    -> [ip |-> m.ip, mask |-> m.mask, mtu |-> m.mtu]
       [] m.type = "PEER_LIST" ->
            [entries |-> [i \in 1 .. Least(43, Len(m.entries)) |->
               [ip |-> m.entries[i].ip, name |-> Shown(m.entries[i].name), online |-> TRUE]]]
       [] m.type = "PEER_JOIN" -> [ip |-> m.ip, name |-> Shown(m.name)]
       [] m.type = "PEER_LEAVE" -> [ip |-> m.ip]
       [] m.type = "DATA"      -> [len |-> m.len]
       [] m.type \in {"KEEPALIVE", "KEEPALIVE_ACK"} -> [time |-> m.time]
       [] OTHER -> <<>>]

\* A handler reads what the builder at the other end was given, and names that
\* are terminated, whatever their length there (protocol.c:287-392,
\* handlers.c:72).  Every message that fits gets through, and none that the
\* network has changed in any part, header included (protocol.c:218).
WireFaithful ==
  [][NetRecv => got' = IF damaged THEN Nothing ELSE Said(input)]_wireVars

\* What is built and sent fits the buffers: a payload within TUND_MAX_PLAINTEXT
\* and a datagram within TUND_MAX_PKT, which is what the receiver reads into;
\* the list of peers is cut to that end (handlers.c:12).
WireFits ==
  /\ buf # Nothing => SizeOf(buf.body) <= MaxPlaintext /\ buf.length = SizeOf(buf.body)
  /\ datagram # Nothing => datagram.size <= MaxPkt
=============================================================================
