------------------------------- MODULE Server -------------------------------
(***************************************************************************)
(* The TunD server (src/core/server): the peer table and the three threads *)
(* that use it.  The main thread receives datagrams and runs the handlers, *)
(* the timeout thread evicts silent peers, the TUN thread forwards what    *)
(* the host's own interface emits.  All of them follow one discipline:     *)
(* copy what is needed while holding peers_lock, release it, then send.    *)
(* A critical section is one step of the model; the work that follows the  *)
(* unlock is queued in `todo' and performed one system call at a time, so  *)
(* that the other threads can change the table in between.                 *)
(*                                                                         *)
(* The payload of a datagram is chosen when its handler reads it.  Peer    *)
(* names and round-trip times are left out: no step depends on them.       *)
(***************************************************************************)
EXTENDS ReplayWindow, Sequences, FiniteSets

CONSTANTS
  Endpoints,            \* addresses (IPv4, UDP port) datagrams come from
  None,                 \* no endpoint, no packet, no time
  MaxPeers,             \* TUND_MAX_PEERS: slots of the peer table
  IpStart, IpEnd,       \* TUND_IP_START, TUND_IP_END: the address pool
  ListCapacity,         \* entries that fit a PEER_LIST (43 in the code)
  KeepaliveInterval,    \* TUND_KEEPALIVE_INTERVAL
  PeerTimeout,          \* TUND_PEER_TIMEOUT
  SendFails,            \* whether net_send may fail
  MaxClock,             \* bound: the last instant of a behaviour
  MaxData               \* bound: data packets sent to one endpoint

ASSUME ServerAssumption ==
  /\ None \notin Endpoints /\ None \notin Int
  /\ MaxPeers \in Nat \ {0}
  /\ IpStart \in Nat \ {0, 1} /\ IpEnd \in Nat /\ IpStart <= IpEnd
  /\ ListCapacity \in Nat
  /\ KeepaliveInterval \in Nat \ {0} /\ PeerTimeout \in Nat
  /\ SendFails \in BOOLEAN
  /\ SeqNums \subseteq Nat \ {0}    \* proto_read_sequence refuses 0
  /\ MaxClock \in Nat /\ MaxData \in Nat

Slots == 0 .. MaxPeers - 1
Pool == IpStart .. IpEnd
ServerIp == IpStart - 1
BroadcastIp == IpEnd + 1

Threads == {"main", "timeout", "tun"}
Requests == {"DATA", "KEEPALIVE", "KEEPALIVE_ACK", "DISCONNECT", "OTHER"}

VARIABLES
  peers,                \* server_t.peers
  peerCount,            \* server_t.peer_count
  clock,                \* time(NULL)
  pkt,                  \* datagram past server_accept_registered_sequence
  todo,                 \* what each thread still does after its unlock
  tnow,                 \* `now' of the timeout thread, read before it locks
  slept,                \* `slept' of the timeout thread
  told,                 \* history: the peers an endpoint has been told of
  hostView,             \* history: the peers the emitted events add up to
  sent                  \* history: data packets sent to each endpoint

tableVars == <<peers, peerCount>>
timeoutVars == <<tnow, slept>>
history == <<told, hostView, sent>>
vars == <<tableVars, clock, pkt, todo, timeoutVars, history>>
-----------------------------------------------------------------------------
(* peer_t.  Every reader of a slot tests `active' first, so what the code  *)
(* leaves in an inactive slot is unobservable and the model clears it.     *)

Slot == [active : BOOLEAN, vip : Pool \cup {0}, addr : Endpoints \cup {None},
         lastSeen : Nat, replay : WindowType, bytesIn : Nat, bytesOut : Nat]

FreeSlot == [active |-> FALSE, vip |-> 0, addr |-> None, lastSeen |-> 0,
             replay |-> ReplayReset, bytesIn |-> 0, bytesOut |-> 0]

Active == {i \in Slots : peers[i].active}

\* The loops over the table and over the pool return the first hit.
IsFirst(i, S) == i \in S /\ \A j \in S : i <= j

SlotsByAddr(e) == {i \in Active : peers[i].addr = e}
SlotsByVip(v) == {i \in Active : peers[i].vip = v}

\* server_find_peer_by_addr, server_find_peer_by_vip
FindPeerByAddr(i, e) == IsFirst(i, SlotsByAddr(e))
FindPeerByVip(i, v) == IsFirst(i, SlotsByVip(v))

\* Faulty variant: an address is handed out without looking whether it is taken.
FaultyAllocIp(v) == IsFirst(v, Pool)

\* server_find_free_slot, server_alloc_ip
FindFreeSlot(i) == IsFirst(i, Slots \ Active)
AllocIp(v) == IsFirst(v, {u \in Pool : SlotsByVip(u) = {}})

\* Faulty variant: the snapshot does not say which slot it is of.
FaultySnapshotPeer(i) == [idx |-> 0, vip |-> peers[i].vip, addr |-> peers[i].addr]

\* server_snapshot_peer_locked, server_snapshot_broadcast_locked
Snapshot == [idx : Slots, vip : Pool, addr : Endpoints]
SnapshotPeer(i) == [idx |-> i, vip |-> peers[i].vip, addr |-> peers[i].addr]
SnapshotBroadcast(S) == {SnapshotPeer(i) : i \in S}
-----------------------------------------------------------------------------
(* Work after the unlock.  `about' holds the peers a message or an event   *)
(* names, `dests' the endpoints it still has to go to, `bytes' what        *)
(* server_add_peer_bytes_out adds (in packets) after a send that worked.   *)

Work == [op : {"send", "account", "event", "leaves", "tun"},
         msg : {"ASSIGN", "PEER_LIST", "PEER_JOIN", "PEER_LEAVE", "DATA",
                "KEEPALIVE", "KEEPALIVE_ACK"},
         about : SUBSET Snapshot, dests : SUBSET Snapshot, bytes : 0 .. 1]

Do(op, msg, about, dests, bytes) ==
  [op |-> op, msg |-> msg, about |-> about, dests |-> dests, bytes |-> bytes]

\* server_send_peer_snapshots and the other loops over a snapshot
SendAll(msg, about, dests, bytes) ==
  IF dests = {} THEN <<>> ELSE <<Do("send", msg, about, dests, bytes)>>

Event(msg, s) == <<Do("event", msg, {s}, {}, 0)>>
TunWrite == <<Do("tun", "DATA", {}, {}, 1)>>

\* Faulty variant: one entry too few fits.
FaultyPeerList(S) ==
  {s \in S : Cardinality({r \in S : r.idx <= s.idx}) < ListCapacity}

\* build_peer_list_from_snapshot: entries are written in slot order until one
\* does not fit.
PeerList(S) ==
  {s \in S : Cardinality({r \in S : r.idx < s.idx}) < ListCapacity}

Idle(t) == todo[t] = <<>>
Queue(t, work) == todo' = [todo EXCEPT ![t] = work]
-----------------------------------------------------------------------------
Init ==
  /\ peers = [i \in Slots |-> FreeSlot]
  /\ peerCount = 0
  /\ clock = 0
  /\ pkt = None
  /\ todo = [t \in Threads |-> <<>>]
  /\ tnow = None
  /\ slept = 0
  /\ told = [e \in Endpoints |-> {}]
  /\ hostView = {}
  /\ sent = [e \in Endpoints |-> 0]

MainReady == Idle("main") /\ pkt = None

\* server_handle_register, endpoint already in the table
RegisterKnown(e, seq) ==
  /\ MainReady
  /\ \E i \in Slots :
       /\ FindPeerByAddr(i, e)
       /\ ReplayAccepts(peers[i].replay, seq)
       /\ peers' = [peers EXCEPT
                      ![i].lastSeen = clock,
                      ![i].replay = ReplayUpdate(peers[i].replay, seq)]
       /\ Queue("main", SendAll("ASSIGN", {SnapshotPeer(i)},
                                {SnapshotPeer(i)}, 0))
  /\ UNCHANGED <<peerCount, clock, pkt, timeoutVars, history>>

\* The window of a new peer: proto_replay_reset, then proto_replay_accept,
\* whose verdict is ignored.
FirstWindow(seq) ==
  IF ReplayAccepts(ReplayReset, seq)
  THEN ReplayUpdate(ReplayReset, seq) ELSE ReplayReset

\* Faulty variant: the endpoint of the new peer is not stored.
FaultyNewPeer(e, v, seq) ==
  [active |-> TRUE, vip |-> v, addr |-> None, lastSeen |-> clock,
   replay |-> FirstWindow(seq), bytesIn |-> 0, bytesOut |-> 0]

\* The slot of a new peer.
NewPeer(e, v, seq) ==
  [active |-> TRUE, vip |-> v, addr |-> e, lastSeen |-> clock,
   replay |-> FirstWindow(seq), bytesIn |-> 0, bytesOut |-> 0]

\* Faulty variants: the list names the newcomer, and the event is forgotten.
FaultyListsItself(self, others) ==
  SendAll("ASSIGN", {self}, {self}, 0)
    \o Event("PEER_JOIN", self)
    \o SendAll("PEER_LIST", PeerList(others \cup {self}), {self}, 0)
    \o SendAll("PEER_JOIN", {self}, others, 0)

FaultyNoEvent(self, others) ==
  SendAll("ASSIGN", {self}, {self}, 0)
    \o SendAll("PEER_LIST", PeerList(others), {self}, 0)
    \o SendAll("PEER_JOIN", {self}, others, 0)

\* What server_handle_register does after the unlock, for a new peer.
RegisterWork(self, others) ==
  SendAll("ASSIGN", {self}, {self}, 0)
    \o Event("PEER_JOIN", self)
    \o SendAll("PEER_LIST", PeerList(others), {self}, 0)
    \o SendAll("PEER_JOIN", {self}, others, 0)

\* server_handle_register, endpoint not in the table.  Without a free slot or
\* a free address the datagram is dropped (RejectRegister).  A client starts
\* with an empty table of its own, and registers when it starts.
RegisterNew(e, seq) ==
  /\ MainReady
  /\ SlotsByAddr(e) = {}
  /\ \E i \in Slots, v \in Pool :
       /\ FindFreeSlot(i)
       /\ AllocIp(v)
       /\ peers' = [peers EXCEPT ![i] = NewPeer(e, v, seq)]
       /\ Queue("main", RegisterWork([idx |-> i, vip |-> v, addr |-> e],
                                     SnapshotBroadcast(Active)))
  /\ peerCount' = peerCount + 1
  /\ told' = [told EXCEPT ![e] = {}]
  /\ UNCHANGED <<clock, pkt, timeoutVars, hostView, sent>>

\* Faulty variant: the number is looked at but not recorded.
FaultyRecordSequence(i, seq) == peers

\* The slots after server_accept_registered_sequence: the window of the sender
\* has taken the number in, the rest of the table is as it was.
RecordSequence(i, seq) ==
  [peers EXCEPT ![i].replay = ReplayUpdate(peers[i].replay, seq)]

\* server_handle_packet up to its switch: server_accept_registered_sequence in
\* a critical section of its own.  A sender that is not in the table passes.
AcceptRegisteredSequence(type, e, seq) ==
  /\ MainReady
  /\ \/ SlotsByAddr(e) = {} /\ UNCHANGED peers
     \/ \E i \in Slots :
          /\ FindPeerByAddr(i, e)
          /\ ReplayAccepts(peers[i].replay, seq)
          /\ peers' = RecordSequence(i, seq)
  /\ pkt' = [type |-> type, from |-> e, seq |-> seq]
  /\ UNCHANGED <<peerCount, clock, todo, timeoutVars, history>>

\* The early returns of server_handle_register and of server_handle_packet: a
\* number the sender's window refuses, or no room for a new peer.
DropReplayed(e, seq) ==
  /\ MainReady
  /\ \E i \in Slots :
       FindPeerByAddr(i, e) /\ ~ReplayAccepts(peers[i].replay, seq)
  /\ UNCHANGED vars

RejectRegister(e) ==
  /\ MainReady
  /\ SlotsByAddr(e) = {}
  /\ \/ Active = Slots
     \/ \A v \in Pool : SlotsByVip(v) # {}
  /\ UNCHANGED vars

Handling(types) == pkt # None /\ pkt.type \in types

\* The early returns of the handlers, and the default case of the switch:
\* payload rejected, or sender not (or no longer) in the table.
HandleNothing ==
  /\ \/ Handling({"DATA", "KEEPALIVE", "KEEPALIVE_ACK", "OTHER"})
     \/ Handling({"DISCONNECT"}) /\ SlotsByAddr(pkt.from) = {}
  /\ pkt' = None
  /\ UNCHANGED <<tableVars, clock, todo, timeoutVars, history>>

DataBudget == \A e \in Endpoints : sent[e] < MaxData

\* What a packet for dst is turned into once the lock is released.
Forward(dst, receivers) ==
  IF dst = BroadcastIp
  THEN SendAll("DATA", {}, SnapshotBroadcast(receivers), 1)
  ELSE SendAll("DATA", {}, SnapshotBroadcast({i \in Slots : FindPeerByVip(i, dst)}), 1)

\* server_handle_data, for a payload that is a valid IPv4 packet whose source
\* is the sender's own address (anything else is HandleNothing).
HandleData(dst) ==
  /\ Handling({"DATA"})
  /\ DataBudget
  /\ \E i \in Slots :
       /\ FindPeerByAddr(i, pkt.from)
       /\ peers' = [peers EXCEPT ![i].bytesIn = @ + 1]
       /\ Queue("main",
            IF dst = ServerIp THEN TunWrite
            ELSE Forward(dst, Active \ {i})
                   \o (IF dst = BroadcastIp THEN TunWrite ELSE <<>>))
  /\ pkt' = None
  /\ UNCHANGED <<peerCount, clock, timeoutVars, history>>

\* server_handle_keepalive
HandleKeepalive ==
  /\ Handling({"KEEPALIVE"})
  /\ \E i \in Slots :
       /\ FindPeerByAddr(i, pkt.from)
       /\ peers' = [peers EXCEPT ![i].lastSeen = clock]
       /\ Queue("main", SendAll("KEEPALIVE_ACK", {}, {SnapshotPeer(i)}, 0))
  /\ pkt' = None
  /\ UNCHANGED <<peerCount, clock, timeoutVars, history>>

\* server_handle_keepalive_ack
HandleKeepaliveAck ==
  /\ Handling({"KEEPALIVE_ACK"})
  /\ \E i \in Slots :
       /\ FindPeerByAddr(i, pkt.from)
       /\ peers' = [peers EXCEPT ![i].lastSeen = clock]
  /\ pkt' = None
  /\ UNCHANGED <<peerCount, clock, todo, timeoutVars, history>>

\* server_handle_disconnect: the event follows the PEER_LEAVE messages.
HandleDisconnect ==
  /\ Handling({"DISCONNECT"})
  /\ \E i \in Slots :
       /\ FindPeerByAddr(i, pkt.from)
       /\ peers' = [peers EXCEPT ![i] = FreeSlot]
       /\ Queue("main",
            SendAll("PEER_LEAVE", {SnapshotPeer(i)},
                    SnapshotBroadcast(Active \ {i}), 0)
              \o Event("PEER_LEAVE", SnapshotPeer(i)))
  /\ peerCount' = peerCount - 1
  /\ pkt' = None
  /\ UNCHANGED <<clock, timeoutVars, history>>
-----------------------------------------------------------------------------
\* server_timeout_thread: ten one-second sleeps, then `now' is read.
TimeoutWake ==
  /\ Idle("timeout") /\ tnow = None
  /\ slept = KeepaliveInterval
  /\ slept' = 0
  /\ tnow' = clock
  /\ UNCHANGED <<tableVars, clock, pkt, todo, history>>

\* Faulty variant: an unsigned difference, huge when `now' is the older time.
FaultyTimedOut ==
  {i \in Active : \/ tnow < peers[i].lastSeen
                  \/ tnow - peers[i].lastSeen > PeerTimeout}

\* The slots whose peer has been silent for longer than the timeout.  The
\* difference is signed: a peer seen after `now' was read is not silent.
TimedOut == {i \in Active : tnow - peers[i].lastSeen > PeerTimeout}

\* server_timeout_thread, its critical section
TimeoutSweep ==
  /\ tnow # None
  /\ LET gone == SnapshotBroadcast(TimedOut)
         rest == SnapshotBroadcast(Active \ TimedOut)
     IN  Queue("timeout",
           (IF gone = {} THEN <<>>
            ELSE <<Do("leaves", "PEER_LEAVE", gone, rest, 0)>>)
             \o SendAll("KEEPALIVE", {}, rest, 0))
  /\ peers' = [i \in Slots |-> IF i \in TimedOut THEN FreeSlot ELSE peers[i]]
  /\ peerCount' = peerCount - Cardinality(TimedOut)
  /\ tnow' = None
  /\ UNCHANGED <<clock, pkt, slept, history>>

\* server_tun_thread, for a valid packet that the host emitted for dst
TunRead(dst) ==
  /\ Idle("tun")
  /\ DataBudget
  /\ Queue("tun", Forward(dst, Active))
  /\ UNCHANGED <<tableVars, clock, pkt, timeoutVars, history>>
-----------------------------------------------------------------------------
\* What a client that handles every message in the order sent ends up with.
Tell(e, w) ==
  LET vips == {s.vip : s \in w.about}
  IN  told' = [told EXCEPT ![e] =
                 CASE w.msg \in {"PEER_LIST", "PEER_JOIN"} -> @ \cup vips
                   [] w.msg = "PEER_LEAVE" -> @ \ vips
                   [] OTHER -> @]

\* The host's interface keeps the peers that joined and did not leave.
Emit(msg, s) ==
  hostView' = IF msg = "PEER_JOIN" THEN hostView \cup {s.vip}
                                   ELSE hostView \ {s.vip}

\* net_send to the next destination.  After a data packet that was sent comes
\* server_add_peer_bytes_out, in a critical section of its own.
PerformSend(t) ==
  LET w == Head(todo[t]) IN
  /\ w.op = "send"
  /\ \E d \in w.dests :
       /\ \A r \in w.dests : d.idx <= r.idx
       /\ LET rest == SendAll(w.msg, w.about, w.dests \ {d}, w.bytes)
                        \o Tail(todo[t])
          IN  \/ /\ Tell(d.addr, w)
                 /\ sent' = [sent EXCEPT ![d.addr] = @ + w.bytes]
                 /\ Queue(t, IF w.bytes = 0 THEN rest
                             ELSE <<Do("account", w.msg, {}, {d}, w.bytes)>>
                                    \o rest)
              \/ SendFails /\ Queue(t, rest) /\ UNCHANGED <<told, sent>>
  /\ UNCHANGED <<tableVars, hostView>>

\* Faulty variant: any peer in the slot will do.
FaultySamePeer(d) == peers[d.idx].active

\* The slot a snapshot was taken from still belongs to the same peer.
SamePeer(d) ==
  /\ peers[d.idx].active
  /\ peers[d.idx].vip = d.vip
  /\ peers[d.idx].addr = d.addr

\* server_add_peer_bytes_out
PerformAccount(t) ==
  LET w == Head(todo[t]) IN
  /\ w.op = "account"
  /\ \E d \in w.dests :
       peers' = IF SamePeer(d)
                THEN [peers EXCEPT ![d.idx].bytesOut = @ + w.bytes] ELSE peers
  /\ Queue(t, Tail(todo[t]))
  /\ UNCHANGED <<peerCount, history>>

\* app_event_peer_join, app_event_peer_leave
PerformEvent(t) ==
  LET w == Head(todo[t]) IN
  /\ w.op = "event"
  /\ \E s \in w.about : Emit(w.msg, s)
  /\ Queue(t, Tail(todo[t]))
  /\ UNCHANGED <<tableVars, told, sent>>

\* One turn of the loop over the peers that timed out: the event, then the
\* PEER_LEAVE messages.
PerformLeaves(t) ==
  LET w == Head(todo[t]) IN
  /\ w.op = "leaves"
  /\ \E s \in w.about :
       /\ \A r \in w.about : s.idx <= r.idx
       /\ Emit(w.msg, s)
       /\ Queue(t, SendAll(w.msg, {s}, w.dests, 0)
                     \o (IF w.about = {s} THEN <<>>
                         ELSE <<Do(w.op, w.msg, w.about \ {s}, w.dests, 0)>>)
                     \o Tail(todo[t]))
  /\ UNCHANGED <<tableVars, told, sent>>

\* tun_write
PerformTun(t) ==
  /\ Head(todo[t]).op = "tun"
  /\ Queue(t, Tail(todo[t]))
  /\ UNCHANGED <<tableVars, history>>

Perform(t) ==
  /\ ~Idle(t)
  /\ \/ PerformSend(t)
     \/ PerformAccount(t)
     \/ PerformEvent(t)
     \/ PerformLeaves(t)
     \/ PerformTun(t)
  /\ UNCHANGED <<clock, pkt, timeoutVars>>

\* A second passes, of which the timeout thread sleeps unless it is at work.
Tick ==
  /\ clock < MaxClock
  /\ clock' = clock + 1
  /\ slept' = IF Idle("timeout") /\ tnow = None /\ slept < KeepaliveInterval
              THEN slept + 1 ELSE slept
  /\ UNCHANGED <<tableVars, pkt, todo, tnow, history>>

Main ==
  \/ \E e \in Endpoints, seq \in SeqNums :
       \/ RegisterKnown(e, seq)
       \/ RegisterNew(e, seq)
       \/ \E type \in Requests : AcceptRegisteredSequence(type, e, seq)
       \/ DropReplayed(e, seq)
       \/ RejectRegister(e)
  \/ HandleNothing
  \/ \E dst \in Pool \cup {ServerIp, BroadcastIp} : HandleData(dst)
  \/ HandleKeepalive
  \/ HandleKeepaliveAck
  \/ HandleDisconnect

Next ==
  \/ Main
  \/ TimeoutWake
  \/ TimeoutSweep
  \/ \E dst \in Pool \cup {BroadcastIp} : TunRead(dst)
  \/ \E t \in Threads : Perform(t)
  \/ Tick

Spec == Init /\ [][Next]_vars
-----------------------------------------------------------------------------
TypeOK ==
  /\ peers \in [Slots -> Slot]
  /\ \A i \in Active : peers[i].vip \in Pool /\ peers[i].addr \in Endpoints
  /\ peerCount \in Int
  /\ clock \in Nat
  /\ pkt \in [type : Requests, from : Endpoints, seq : SeqNums] \cup {None}
  /\ todo \in [Threads -> Seq(Work)]
  /\ tnow \in Nat \cup {None}
  /\ slept \in 0 .. KeepaliveInterval
  /\ told \in [Endpoints -> SUBSET Pool]
  /\ hostView \subseteq Pool
  /\ sent \in [Endpoints -> Nat]

\* No two peers share a virtual address or an endpoint, and peer_count is the
\* number of peers, whatever the main and the timeout thread do to the table
\* between each other's critical sections (server_handle_register,
\* server_handle_disconnect, server_timeout_thread).
TableConsistent ==
  /\ \A i, j \in Active :
       i # j => peers[i].vip # peers[j].vip /\ peers[i].addr # peers[j].addr
  /\ peerCount = Cardinality(Active)

\* server_find_free_slot and server_alloc_ip search independently, yet a slot
\* always gets the address of its own position, through any history of
\* departures and arrivals.  So there is a free address whenever there is a
\* free slot, and "IP pool exhausted" cannot be reported (the code has as
\* many addresses as slots).
SlotPosition == \A i \in Active : peers[i].vip = IpStart + i

PoolSuffices ==
  Active # Slots /\ MaxPeers <= IpEnd - IpStart + 1 =>
    \E v \in Pool : SlotsByVip(v) = {}

SlotVip == SlotPosition /\ PoolSuffices

\* server_timeout_thread never evicts a peer that was heard from within the
\* timeout, although it reads `now' before it takes the lock and the main
\* thread may refresh or replace any peer in between.
NoEarlyEviction ==
  [][tnow # None /\ tnow' = None =>
       \A i \in Active :
         ~peers'[i].active => clock - peers[i].lastSeen > PeerTimeout]_vars

\* While a datagram is being handled, a copy of it is already refused: the
\* number was recorded in an earlier critical section, and in between the
\* timeout thread can remove the sender but nobody can register it anew.
DispatchedIsRecorded ==
  pkt # None =>
    \A i \in SlotsByAddr(pkt.from) : ~ReplayAccepts(peers[i].replay, pkt.seq)

\* The updates of a counter that are still to be done for endpoint e.
Pending(e) ==
  UNION {{<<t, k>> : k \in {n \in DOMAIN todo[t] :
                              /\ todo[t][n].op = "account"
                              /\ \E d \in todo[t][n].dests : d.addr = e}} :
         t \in Threads}

\* server_add_peer_bytes_out credits a packet to a peer only if it was sent
\* to that peer's endpoint, and at most once, even if the slot changed hands
\* between the snapshot, the send and the update of the counter.
AccountedOnce ==
  \A i \in Active :
    peers[i].bytesOut + Cardinality(Pending(peers[i].addr))
      <= sent[peers[i].addr]

\* The copies of slots that the main thread works with after its unlock never
\* name a slot that meanwhile belongs to another peer: only the main thread
\* registers peers.  (The other two threads have no such guarantee.)
MainSnapshotsCurrent ==
  \A k \in DOMAIN todo["main"] :
    \A d \in todo["main"][k].dests :
      peers[d.idx].active => SamePeer(d)

\* `now' is never ahead of the clock the handlers read.
NowInPast == tnow # None => tnow <= clock

\* The inductive invariant behind the safety properties above.
IInv ==
  /\ TypeOK
  /\ TableConsistent
  /\ SlotPosition
  /\ DispatchedIsRecorded
  /\ NowInPast
  /\ MainSnapshotsCurrent

\* Work that is no update of a counter, and an update of one packet's.
NoAccount == {w \in Work : w.op # "account"}
OneAccount == {w \in Work : /\ w.op = "account" /\ w.bytes = 1
                            /\ \E d \in Snapshot : w.dests = {d}}

\* A counter is updated right after the send: before any other work.
AccountsFirst ==
  \A t \in Threads :
    \/ todo[t] \in Seq(NoAccount)
    \/ /\ todo[t] # <<>>
       /\ Head(todo[t]) \in OneAccount
       /\ Tail(todo[t]) \in Seq(NoAccount)

\* The threads that have sent to e and have not updated the counter yet.
Owing(e) ==
  {t \in Threads : /\ todo[t] # <<>>
                   /\ Head(todo[t]).op = "account"
                   /\ \E d \in Head(todo[t]).dests : d.addr = e}

\* The invariant behind AccountedOnce.  It counts the endpoints without a peer
\* too: a peer that registers from one starts with what is still owed to it.
Accounting ==
  /\ AccountsFirst
  /\ \A e \in Endpoints : Cardinality(Owing(e)) <= sent[e]
  /\ \A i \in Active :
       peers[i].bytesOut + Cardinality(Owing(peers[i].addr))
         <= sent[peers[i].addr]

\* No thread is in the middle of anything.
Quiescent == MainReady /\ tnow = None /\ \A t \in Threads : Idle(t)

\* All peers discover each other: once the server has sent everything it owes,
\* every peer has been told of every other (PEER_LIST and PEER_JOIN).
Discovery ==
  Quiescent =>
    \A i, j \in Active : i # j => peers[j].vip \in told[peers[i].addr]

\* ... and of nobody else (PEER_LEAVE).
NoGhosts ==
  Quiescent =>
    \A i \in Active :
      told[peers[i].addr] \subseteq {peers[j].vip : j \in Active \ {i}}

\* The peer_join and peer_leave events add up to the peer table.
HostViewExact == Quiescent => hostView = {peers[i].vip : i \in Active}

(* What the three properties rest on, as long as nobody is evicted.        *)

News == {"PEER_LIST", "PEER_JOIN", "PEER_LEAVE"}
Silent == {w \in Work : w.op \in {"send", "account", "tun"} /\ w.msg \notin News}
Unmixed(msgs) ==
  {w \in Work :
     /\ w.op # "leaves" /\ w.msg \notin msgs
     /\ w.op = "event" => /\ w.msg \in {"PEER_JOIN", "PEER_LEAVE"}
                          /\ \E s \in Snapshot : w.about = {s}}

\* The addresses that the messages of a kind in q tell endpoint e of, and
\* those that its events name.
Says(q, msgs, e) ==
  {v \in Pool : \E k \in DOMAIN q :
     /\ q[k].op = "send" /\ q[k].msg \in msgs
     /\ \E d \in q[k].dests : d.addr = e
     /\ \E s \in q[k].about : s.vip = v}
Emits(q, msg) ==
  {v \in Pool : \E k \in DOMAIN q :
     /\ q[k].op = "event" /\ q[k].msg = msg
     /\ \E s \in q[k].about : s.vip = v}

\* What endpoint e, and the host, will have been told when the main thread has
\* done the work it has left.
WillTell(e) ==
  (told[e] \cup Says(todo["main"], {"PEER_LIST", "PEER_JOIN"}, e))
    \ Says(todo["main"], {"PEER_LEAVE"}, e)
WillShow ==
  (hostView \cup Emits(todo["main"], "PEER_JOIN"))
    \ Emits(todo["main"], "PEER_LEAVE")

\* The invariant behind Discovery, NoGhosts and HostViewExact: at every moment
\* the main thread still owes exactly what is missing, and nobody else owes
\* anything.  No queue holds both news of an arrival and of a departure.
Telling ==
  /\ pkt # None => Idle("main")
  /\ \A t \in Threads \ {"main"} : todo[t] \in Seq(Silent)
  /\ \/ todo["main"] \in Seq(Unmixed({"PEER_LEAVE"}))
     \/ todo["main"] \in Seq(Unmixed({"PEER_LIST", "PEER_JOIN"}))
  /\ \A i \in Active :
       WillTell(peers[i].addr) = {peers[j].vip : j \in Active \ {i}}
  /\ WillShow = {peers[i].vip : i \in Active}

\* Whenever the timeout thread looks, every peer has been heard from in time.
NobodySilent == tnow # None => TimedOut = {}

\* There are never more peers than one PEER_LIST can name to one of them.
ListSuffices == peerCount <= ListCapacity + 1
=============================================================================
