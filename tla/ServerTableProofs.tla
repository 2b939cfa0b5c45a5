------------------------- MODULE ServerTableProofs --------------------------
(***************************************************************************)
(* What the steps of the server do to its table: the types, the table, the *)
(* datagram in hand and the clock of the timeout thread, for every number  *)
(* of slots, endpoints and addresses and every value of the constants.     *)
(***************************************************************************)
EXTENDS Server, FiniteSetTheorems, TLAPS

USE ServerAssumption

-----------------------------------------------------------------------------
(* Types of the operators. *)

\* The operations on windows yield windows.
LEMMA WindowTypes ==
  /\ ReplayReset \in WindowType
  /\ \A w \in WindowType, seq \in Nat :
       ReplayAccepts(w, seq) => ReplayUpdate(w, seq) \in WindowType
  /\ \A seq \in Nat : FirstWindow(seq) \in WindowType
  <1>1. ReplayReset \in WindowType
    BY DEF ReplayReset, WindowType
  <1>2. \A w \in WindowType, seq \in Nat :
          ReplayAccepts(w, seq) => ReplayUpdate(w, seq) \in WindowType
    BY WindowAssumption
       DEF WindowType, ReplayAccepts, ReplayUpdate, ShiftIn, Bits
  <1> QED
    BY <1>1, <1>2 DEF FirstWindow

\* A number that a window has taken in is refused from then on.
LEMMA UpdateRefuses ==
  ASSUME NEW w \in WindowType, NEW seq \in Nat
  PROVE  /\ ReplayAccepts(w, seq) =>
              ~ReplayAccepts(ReplayUpdate(w, seq), seq)
  BY WindowAssumption
     DEF WindowType, ReplayAccepts, ReplayUpdate, ShiftIn, Bits

\* Snapshots of active slots are snapshots.
LEMMA SnapshotTypes ==
  ASSUME TypeOK
  PROVE  /\ \A i \in Active : SnapshotPeer(i) \in Snapshot
         /\ \A S \in SUBSET Active : SnapshotBroadcast(S) \in SUBSET Snapshot
  BY DEF TypeOK, Active, SnapshotPeer, SnapshotBroadcast, Snapshot

Ops == {"send", "account", "event", "leaves", "tun"}
Msgs == {"ASSIGN", "PEER_LIST", "PEER_JOIN", "PEER_LEAVE", "DATA",
         "KEEPALIVE", "KEEPALIVE_ACK"}

\* Work that is neither news nor an update of a counter.
Quiet == {w \in Work : w.op \in {"send", "tun"} /\ w.msg \notin News}

\* A message adds nothing to a counter, a packet one.
LEMMA BytesTypes == 0 \in 0 .. 1 /\ 1 \in 0 .. 1
  BY SMT

\* A piece of work is well formed when its parts are.
LEMMA DoType ==
  ASSUME NEW op \in Ops, NEW msg \in Msgs, NEW about \in SUBSET Snapshot,
         NEW dests \in SUBSET Snapshot, NEW bytes \in 0 .. 1
  PROVE  /\ Do(op, msg, about, dests, bytes) \in Work
         /\ <<Do(op, msg, about, dests, bytes)>> \in Seq(Work)
  BY DEF Do, Work, Ops, Msgs

\* Each kind of work is work, and so are sequences of it.
LEMMA KindsOfWork ==
  /\ Quiet \subseteq NoAccount /\ NoAccount \subseteq Work
  /\ Seq(Quiet) \subseteq Seq(NoAccount) /\ Seq(NoAccount) \subseteq Seq(Work)
  <1>1. Quiet \subseteq NoAccount /\ NoAccount \subseteq Work
    BY Zenon DEF Quiet, NoAccount
  <1>2. ASSUME NEW A, NEW B, A \subseteq B PROVE Seq(A) \subseteq Seq(B)
    BY SMT, <1>2
  <1> QED
    BY Zenon, <1>1, <1>2

\* server_send_peer_snapshots: the sends to a set of destinations.
LEMMA SendAllType ==
  ASSUME NEW msg \in Msgs, NEW about \in SUBSET Snapshot,
         NEW dests \in SUBSET Snapshot, NEW bytes \in 0 .. 1
  PROVE  /\ SendAll(msg, about, dests, bytes) \in Seq(NoAccount)
         /\ SendAll(msg, about, dests, bytes) \in Seq(Work)
         /\ msg \notin News => SendAll(msg, about, dests, bytes) \in Seq(Quiet)
  <1> DEFINE w == Do("send", msg, about, dests, bytes)
  <1>1. w \in Work /\ w.op = "send" /\ w.msg = msg
    BY Zenon, DoType DEF Ops, Do
  <1>2. w \in NoAccount /\ (msg \notin News => w \in Quiet)
    BY Zenon, <1>1, "send" # "account" DEF NoAccount, Quiet
  <1>3. SendAll(msg, about, dests, bytes) = IF dests = {} THEN <<>> ELSE <<w>>
    BY Zenon DEF SendAll
  <1> HIDE DEF w
  <1>4. \A S : <<>> \in Seq(S) /\ (w \in S => <<w>> \in Seq(S))
    BY SMT
  <1> QED
    BY Zenon, <1>1, <1>2, <1>3, <1>4

\* Writes to the TUN device and events.
LEMMA OtherWorkTypes ==
  /\ TunWrite \in Seq(Quiet)
  /\ \A s \in Snapshot :
       /\ Event("PEER_JOIN", s) \in Seq(NoAccount)
       /\ Event("PEER_LEAVE", s) \in Seq(NoAccount)
  <1>1. TunWrite \in Seq(Quiet)
    <2> DEFINE w == Do("tun", "DATA", {}, {}, 1)
    <2>1. "tun" \in Ops /\ "DATA" \in Msgs /\ "DATA" \notin News /\ 1 \in 0 .. 1
      BY DEF Ops, Msgs, News
    <2>2. w \in Work
      BY Zenon, <2>1, DoType
    <2>3. w.op = "tun" /\ w.msg = "DATA"
      BY DEF Do
    <2>4. w \in Quiet
      BY Zenon, <2>1, <2>2, <2>3 DEF Quiet
    <2> QED
      BY SMT, <2>4 DEF TunWrite
  <1>2. ASSUME NEW s \in Snapshot, NEW msg \in Msgs
        PROVE  Event(msg, s) \in Seq(NoAccount)
    <2> DEFINE w == Do("event", msg, {s}, {}, 0)
    <2>1. "event" \in Ops /\ "event" # "account" /\ 0 \in 0 .. 1
      BY DEF Ops
    <2>2. w \in Work
      BY Zenon, <2>1, DoType
    <2>3. w.op = "event"
      BY DEF Do
    <2>4. w \in NoAccount
      BY Zenon, <2>1, <2>2, <2>3 DEF NoAccount
    <2> QED
      BY SMT, <2>4 DEF Event
  <1> QED
    BY Zenon, <1>1, <1>2 DEF Msgs

\* What a data packet is turned into.
LEMMA ForwardType ==
  ASSUME TypeOK, NEW dst, NEW R \in SUBSET Active
  PROVE  Forward(dst, R) \in Seq(Quiet)
  <1>1. {i \in Slots : FindPeerByVip(i, dst)} \in SUBSET Active
    BY DEF FindPeerByVip, IsFirst, SlotsByVip
  <1>2. "DATA" \in Msgs /\ "DATA" \notin News /\ {} \in SUBSET Snapshot /\ 1 \in 0 .. 1
    BY DEF Msgs, News
  <1> QED
    BY Zenon, <1>1, <1>2, SnapshotTypes, SendAllType DEF Forward

\* What a registration leaves to do.
LEMMA RegisterWorkType ==
  ASSUME NEW self \in Snapshot, NEW others \in SUBSET Snapshot
  PROVE  RegisterWork(self, others) \in Seq(NoAccount)
  <1>1. PeerList(others) \in SUBSET Snapshot
    BY DEF PeerList
  <1>2. /\ SendAll("ASSIGN", {self}, {self}, 0) \in Seq(NoAccount)
        /\ SendAll("PEER_LIST", PeerList(others), {self}, 0) \in Seq(NoAccount)
        /\ SendAll("PEER_JOIN", {self}, others, 0) \in Seq(NoAccount)
    BY <1>1, SendAllType DEF Msgs
  <1> QED
    BY <1>2, OtherWorkTypes DEF RegisterWork

-----------------------------------------------------------------------------
(* What the steps do to the table: keep every peer in its slot, add one in *)
(* a free slot, or remove some.                                            *)

SameId(r, q) ==
  /\ q \in Slot
  /\ q.active = r.active
  /\ q.vip = r.vip
  /\ q.addr = r.addr

Kept ==
  /\ peers' \in [Slots -> Slot]
  /\ \A i \in Slots : SameId(peers[i], peers'[i])
  /\ peerCount' = peerCount

Added(e, i, v, seq) ==
  /\ SlotsByAddr(e) = {}
  /\ FindFreeSlot(i)
  /\ AllocIp(v)
  /\ peers' = [peers EXCEPT ![i] = NewPeer(e, v, seq)]
  /\ peerCount' = peerCount + 1

Removed(S) ==
  /\ peers' = [i \in Slots |-> IF i \in S THEN FreeSlot ELSE peers[i]]
  /\ peerCount' = peerCount - Cardinality(S)

\* The handlers change one field or two of a slot and leave its owner alone.
LEMMA SlotUpdate ==
  ASSUME NEW r \in Slot, NEW n \in Nat, NEW w \in WindowType
  PROVE  /\ SameId(r, [r EXCEPT !.lastSeen = n])
         /\ SameId(r, [r EXCEPT !.replay = w])
         /\ SameId(r, [r EXCEPT !.lastSeen = n, !.replay = w])
         /\ SameId(r, [r EXCEPT !.bytesIn = n])
         /\ SameId(r, [r EXCEPT !.bytesOut = n])
  <1>1. SameId(r, [r EXCEPT !.lastSeen = n])
    BY DEF Slot, SameId
  <1>2. SameId(r, [r EXCEPT !.replay = w])
    BY DEF Slot, SameId
  <1>3. SameId(r, [r EXCEPT !.lastSeen = n, !.replay = w])
    BY Zenon DEF Slot, SameId
  <1>4. SameId(r, [r EXCEPT !.bytesIn = n])
    BY DEF Slot, SameId
  <1>5. SameId(r, [r EXCEPT !.bytesOut = n])
    BY DEF Slot, SameId
  <1> QED
    BY <1>1, <1>2, <1>3, <1>4, <1>5

\* A step that leaves the table alone keeps every peer.
LEMMA KeptByUnchanged ==
  ASSUME TypeOK, UNCHANGED tableVars PROVE Kept
  BY DEF TypeOK, tableVars, Kept, SameId

\* ... and so does one that updates a slot without changing its owner.
LEMMA KeptByUpdate ==
  ASSUME TypeOK, NEW i \in Slots, NEW q, SameId(peers[i], q),
         peers' = [peers EXCEPT ![i] = q], peerCount' = peerCount
  PROVE  Kept
  BY DEF TypeOK, Kept, SameId

\* A repeated REGISTER keeps every peer.
LEMMA KeptByRegisterKnown ==
  ASSUME TypeOK, NEW e \in Endpoints, NEW seq \in SeqNums,
         RegisterKnown(e, seq)
  PROVE  Kept
  <1>1. PICK i \in Slots :
          /\ ReplayAccepts(peers[i].replay, seq)
          /\ peers' = [peers EXCEPT
                         ![i].lastSeen = clock,
                         ![i].replay = ReplayUpdate(peers[i].replay, seq)]
    BY Zenon DEF RegisterKnown
  <1>2. peers[i] \in Slot /\ peers[i].replay \in WindowType /\ clock \in Nat
    BY DEF TypeOK, Slot
  <1> DEFINE w == ReplayUpdate(peers[i].replay, seq)
  <1>3. w \in WindowType
    BY <1>1, <1>2, WindowTypes
  <1>4. peers' = [peers EXCEPT
                    ![i] = [peers[i] EXCEPT !.lastSeen = clock, !.replay = w]]
    BY <1>1, Zenon DEF TypeOK
  <1>5. SameId(peers[i], [peers[i] EXCEPT !.lastSeen = clock, !.replay = w])
    BY Zenon, <1>2, <1>3, SlotUpdate
  <1> HIDE DEF w
  <1> QED
    BY Zenon, <1>4, <1>5, KeptByUpdate DEF RegisterKnown

\* Recording a sequence number keeps every peer.
LEMMA KeptByAccept ==
  ASSUME TypeOK, NEW type \in Requests, NEW e \in Endpoints,
         NEW seq \in SeqNums, AcceptRegisteredSequence(type, e, seq)
  PROVE  Kept
  <1>1. CASE UNCHANGED peers
    BY <1>1, KeptByUnchanged DEF AcceptRegisteredSequence, tableVars
  <1>2. ASSUME NEW i \in Slots, ReplayAccepts(peers[i].replay, seq),
               peers' = RecordSequence(i, seq)
        PROVE  Kept
    <2> DEFINE w == ReplayUpdate(peers[i].replay, seq)
    <2>1. peers[i] \in Slot /\ w \in WindowType
      BY <1>2, WindowTypes DEF TypeOK, Slot
    <2>2. peers' = [peers EXCEPT ![i] = [peers[i] EXCEPT !.replay = w]]
      BY <1>2, Zenon DEF RecordSequence
    <2> HIDE DEF w
    <2>3. SameId(peers[i], [peers[i] EXCEPT !.replay = w])
      BY Zenon, <2>1, SlotUpdate, 0 \in Nat
    <2> QED
      BY ZenonT(60), <2>2, <2>3, KeptByUpdate DEF AcceptRegisteredSequence
  <1> QED
    BY <1>1, <1>2 DEF AcceptRegisteredSequence

\* The handlers of data and keepalives keep every peer.
LEMMA KeptByHandlers ==
  ASSUME TypeOK,
         \/ \E dst : HandleData(dst)
         \/ HandleKeepalive
         \/ HandleKeepaliveAck
  PROVE  Kept
  <1>1. CASE \E dst : HandleData(dst)
    <2>1. PICK i \in Slots :
            peers' = [peers EXCEPT ![i].bytesIn = @ + 1]
      BY Zenon, <1>1 DEF HandleData
    <2> DEFINE n == peers[i].bytesIn + 1
    <2>2. peers[i] \in Slot /\ n \in Nat
      BY DEF TypeOK, Slot
    <2>3. peers' = [peers EXCEPT ![i] = [peers[i] EXCEPT !.bytesIn = n]]
      BY <2>1, Zenon
    <2> HIDE DEF n
    <2>4. SameId(peers[i], [peers[i] EXCEPT !.bytesIn = n])
      BY Zenon, <2>2, SlotUpdate, WindowTypes
    <2> QED
      BY Zenon, <1>1, <2>3, <2>4, KeptByUpdate DEF HandleData
  <1>2. CASE HandleKeepalive \/ HandleKeepaliveAck
    <2>1. PICK i \in Slots : peers' = [peers EXCEPT ![i].lastSeen = clock]
      BY ZenonT(60), <1>2 DEF HandleKeepalive, HandleKeepaliveAck
    <2>2. peers[i] \in Slot /\ clock \in Nat
      BY DEF TypeOK
    <2>3. peers' = [peers EXCEPT ![i] = [peers[i] EXCEPT !.lastSeen = clock]]
      BY <2>1, Zenon
    <2>4. SameId(peers[i], [peers[i] EXCEPT !.lastSeen = clock])
      BY Zenon, <2>2, SlotUpdate, WindowTypes
    <2> QED
      BY Zenon, <1>2, <2>3, <2>4, KeptByUpdate DEF HandleKeepalive, HandleKeepaliveAck
  <1> QED
    BY <1>1, <1>2

\* The first piece of work of a thread, and the rest of it.
LEMMA HeadTail ==
  ASSUME TypeOK, NEW t \in Threads, ~Idle(t)
  PROVE  /\ Head(todo[t]) \in Work
         /\ Tail(todo[t]) \in Seq(Work)
         /\ todo[t] # <<>>
  BY SMTT(60) DEF TypeOK, Idle

\* Work done after the unlock keeps every peer.
LEMMA KeptByPerform ==
  ASSUME TypeOK, NEW t \in Threads, Perform(t)
  PROVE  Kept
  <1>1. CASE UNCHANGED tableVars
    BY Zenon, <1>1, KeptByUnchanged
  <1>2. CASE PerformAccount(t)
    <2>1. Head(todo[t]) \in Work
      BY Zenon, HeadTail DEF Perform
    <2>2. PICK d \in Snapshot, n \in Nat :
            peers' = IF SamePeer(d)
                     THEN [peers EXCEPT ![d.idx].bytesOut = @ + n] ELSE peers
      BY SMTT(60), <1>2, <2>1 DEF PerformAccount, Work
    <2>3. CASE peers' = peers
      BY <1>2, <2>3, KeptByUnchanged DEF PerformAccount, tableVars
    <2>4. CASE peers' = [peers EXCEPT ![d.idx].bytesOut = @ + n]
      <3> DEFINE i == d.idx
                 m == peers[i].bytesOut + n
      <3>1. i \in Slots /\ peers[i] \in Slot /\ m \in Nat
        BY DEF TypeOK, Slot, Snapshot
      <3>2. peers' = [peers EXCEPT ![i] = [peers[i] EXCEPT !.bytesOut = m]]
        BY <2>4, Zenon
      <3> HIDE DEF i, m
      <3>3. SameId(peers[i], [peers[i] EXCEPT !.bytesOut = m])
        BY Zenon, <3>1, SlotUpdate, WindowTypes
      <3> QED
        BY Zenon, <1>2, <3>1, <3>2, <3>3, KeptByUpdate DEF PerformAccount
    <2> QED
      BY Zenon, <2>2, <2>3, <2>4
  <1> QED
    BY Zenon, <1>1, <1>2
       DEF Perform, PerformSend, PerformEvent, PerformLeaves, PerformTun

\* DISCONNECT removes one peer.
LEMMA RemovedByDisconnect ==
  ASSUME TypeOK, HandleDisconnect
  PROVE  \E i \in Active : Removed({i})
  <1>1. PICK i \in Slots : /\ FindPeerByAddr(i, pkt.from)
                          /\ peers' = [peers EXCEPT ![i] = FreeSlot]
    BY Zenon DEF HandleDisconnect
  <1>2. i \in Active
    BY <1>1 DEF FindPeerByAddr, IsFirst, SlotsByAddr
  <1>3. Cardinality({i}) = 1
    BY Zenon, FS_Singleton
  <1>4. peers' = [j \in Slots |-> IF j \in {i} THEN FreeSlot ELSE peers[j]]
    BY Zenon, <1>1 DEF TypeOK
  <1> QED
    BY Zenon, <1>2, <1>3, <1>4 DEF Removed, HandleDisconnect

\* The timeout thread removes the peers that timed out.
LEMMA RemovedBySweep ==
  ASSUME TypeOK, TimeoutSweep
  PROVE  TimedOut \in SUBSET Active /\ Removed(TimedOut)
  BY DEF TimeoutSweep, Removed, TimedOut

\* Every step keeps all peers, adds one or removes some.
LEMMA TableStep ==
  ASSUME TypeOK, [Next]_vars
  PROVE  \/ Kept
         \/ \E e \in Endpoints, i \in Slots, v \in Pool, seq \in SeqNums :
              RegisterNew(e, seq) /\ Added(e, i, v, seq)
         \/ \E S \in SUBSET Active : Removed(S)
  <1>1. CASE UNCHANGED tableVars
    BY <1>1, KeptByUnchanged
  <1>2. ASSUME NEW e \in Endpoints, NEW seq \in SeqNums, RegisterNew(e, seq)
        PROVE  \E i \in Slots, v \in Pool : Added(e, i, v, seq)
    BY Zenon, <1>2 DEF RegisterNew, Added
  <1>3. CASE Main
    BY ZenonT(60), <1>1, <1>2, <1>3, KeptByRegisterKnown, KeptByAccept, KeptByHandlers,
       RemovedByDisconnect
       DEF Main, DropReplayed, RejectRegister, HandleNothing, vars, tableVars
  <1>4. CASE TimeoutWake \/ Tick \/ \E dst \in Pool \cup {BroadcastIp} : TunRead(dst)
    BY <1>1, <1>4 DEF TimeoutWake, Tick, TunRead
  <1> QED
    BY Zenon, <1>1, <1>3, <1>4, RemovedBySweep, KeptByPerform DEF Next, vars

\* The peers that timed out can be counted.
LEMMA TimedOutFinite ==
  /\ IsFiniteSet(Slots)
  /\ \A S \in SUBSET Slots : IsFiniteSet(S) /\ Cardinality(S) \in Nat
  <1>1. IsFiniteSet(Slots)
    BY FS_Interval DEF Slots
  <1> QED
    BY <1>1, FS_Subset, FS_CardinalityType

\* The part of the type invariant that is about the table.
TableType ==
  /\ peers \in [Slots -> Slot]
  /\ \A i \in Active : peers[i].vip \in Pool /\ peers[i].addr \in Endpoints
  /\ peerCount \in Int

\* The part of the type invariant that is about the table.
LEMMA TableTypeStep ==
  ASSUME TypeOK, [Next]_vars PROVE TableType'
  <1>1. CASE Kept
    BY Zenon, <1>1 DEF TypeOK, Kept, SameId, TableType, Active
  <1>2. ASSUME NEW e \in Endpoints, NEW i \in Slots, NEW v \in Pool,
               NEW seq \in SeqNums, Added(e, i, v, seq)
        PROVE  TableType'
    <2>1. NewPeer(e, v, seq) \in Slot
      BY Zenon, WindowTypes DEF NewPeer, Slot, TypeOK
    <2>2. peers' \in [Slots -> Slot]
      BY Zenon, <1>2, <2>1 DEF Added, TypeOK
    <2>3. \A j \in Slots :
            peers'[j] = IF j = i THEN NewPeer(e, v, seq) ELSE peers[j]
      BY Zenon, <1>2 DEF Added, TypeOK
    <2>4. \A j \in Active' :
            peers'[j].vip \in Pool /\ peers'[j].addr \in Endpoints
      <3>1. NewPeer(e, v, seq).vip = v /\ NewPeer(e, v, seq).addr = e
        BY DEF NewPeer
      <3> QED
        BY Zenon, <2>3, <3>1 DEF TypeOK, Active
    <2> QED
      BY SMTT(60), <1>2, <2>2, <2>4 DEF Added, TableType, TypeOK
  <1>3. ASSUME NEW S \in SUBSET Active, Removed(S) PROVE TableType'
    <2>1. FreeSlot \in Slot /\ ~FreeSlot.active
      BY WindowTypes DEF FreeSlot, Slot
    <2>2. Cardinality(S) \in Nat
      BY TimedOutFinite DEF Active
    <2> QED
      BY SMTT(60), <1>3, <2>1, <2>2 DEF Removed, TableType, TypeOK, Active
  <1> QED
    BY Zenon, <1>1, <1>2, <1>3, TableStep

\* Work appended to work.
LEMMA ConcatType ==
  ASSUME NEW q \in Seq(Work), NEW r \in Seq(Work) PROVE q \o r \in Seq(Work)
  OBVIOUS

\* The part that is about the work of the threads.
LEMMA QueueType ==
  ASSUME TypeOK, NEW t \in Threads, NEW q \in Seq(Work), Queue(t, q)
  PROVE  todo' \in [Threads -> Seq(Work)]
  BY DEF TypeOK, Queue

\* A registration queues its messages and its event.
LEMMA RegisterQueues ==
  ASSUME TypeOK, NEW e \in Endpoints, NEW seq \in SeqNums, RegisterNew(e, seq)
  PROVE  \E q \in Seq(NoAccount) : Queue("main", q)
  <1>1. PICK i \in Slots, v \in Pool :
          Queue("main", RegisterWork([idx |-> i, vip |-> v, addr |-> e],
                                     SnapshotBroadcast(Active)))
    BY Zenon DEF RegisterNew
  <1>2. /\ [idx |-> i, vip |-> v, addr |-> e] \in Snapshot
        /\ SnapshotBroadcast(Active) \in SUBSET Snapshot
    BY SnapshotTypes DEF Snapshot
  <1> QED
    BY ZenonT(60), <1>1, <1>2, RegisterWorkType

\* A departure queues its messages and its event.
LEMMA DisconnectQueues ==
  ASSUME TypeOK, HandleDisconnect
  PROVE  \E q \in Seq(NoAccount) : Queue("main", q)
  <1>1. PICK i \in Active :
          Queue("main",
            SendAll("PEER_LEAVE", {SnapshotPeer(i)},
                    SnapshotBroadcast(Active \ {i}), 0)
              \o Event("PEER_LEAVE", SnapshotPeer(i)))
    BY Zenon DEF HandleDisconnect, FindPeerByAddr, IsFirst, SlotsByAddr
  <1> DEFINE self == SnapshotPeer(i)
             rest == SnapshotBroadcast(Active \ {i})
             send == SendAll("PEER_LEAVE", {self}, rest, 0)
             event == Event("PEER_LEAVE", self)
  <1>2. self \in Snapshot /\ rest \in SUBSET Snapshot
    BY Zenon, SnapshotTypes
  <1>3. Queue("main", send \o event)
    BY Zenon, <1>1
  <1> HIDE DEF self, rest
  <1>4. send \in Seq(NoAccount) /\ event \in Seq(NoAccount)
    BY <1>2, SendAllType, OtherWorkTypes DEF Msgs
  <1> HIDE DEF send, event
  <1>5. send \o event \in Seq(NoAccount)
    BY SMT, <1>4
  <1> QED
    BY Zenon, <1>3, <1>5

\* The other handlers queue nothing, or messages that are no news.
LEMMA MainQueues ==
  ASSUME TypeOK, Main
  PROVE  \/ UNCHANGED todo
         \/ \E q \in Seq(Quiet) : Queue("main", q)
         \/ \E e \in Endpoints, seq \in SeqNums : RegisterNew(e, seq)
         \/ HandleDisconnect
  <1> DEFINE Goal == \E q \in Seq(Quiet) : Queue("main", q)
  <1>0. /\ "ASSIGN" \in Msgs /\ "ASSIGN" \notin News
        /\ "KEEPALIVE_ACK" \in Msgs /\ "KEEPALIVE_ACK" \notin News
        /\ {} \in SUBSET Snapshot /\ 0 \in 0 .. 1
    BY DEF Msgs, News
  <1>1. ASSUME NEW e \in Endpoints, NEW seq \in SeqNums, RegisterKnown(e, seq)
        PROVE  Goal
    <2>1. PICK i \in Active :
            Queue("main", SendAll("ASSIGN", {SnapshotPeer(i)},
                                  {SnapshotPeer(i)}, 0))
      BY Zenon, <1>1 DEF RegisterKnown, FindPeerByAddr, IsFirst, SlotsByAddr
    <2>2. {SnapshotPeer(i)} \in SUBSET Snapshot
      BY Zenon, SnapshotTypes
    <2> QED
      BY Zenon, <1>0, <2>1, <2>2, SendAllType
  <1>2. ASSUME NEW dst, HandleData(dst)
        PROVE  Goal
    <2>1. PICK i \in Slots :
            Queue("main", IF dst = ServerIp THEN TunWrite
                          ELSE Forward(dst, Active \ {i})
                                 \o (IF dst = BroadcastIp THEN TunWrite
                                                          ELSE <<>>))
      BY Zenon, <1>2 DEF HandleData
    <2> DEFINE f == Forward(dst, Active \ {i})
    <2>2. f \in Seq(Quiet) /\ TunWrite \in Seq(Quiet)
      BY Zenon, ForwardType, OtherWorkTypes
    <2> HIDE DEF f
    <2>3. (IF dst = ServerIp THEN TunWrite
           ELSE f \o (IF dst = BroadcastIp THEN TunWrite ELSE <<>>)) \in Seq(Quiet)
      BY SMT, <2>2
    <2> QED
      BY Zenon, <2>1, <2>3 DEF f
  <1>3. CASE HandleKeepalive
    <2>1. PICK i \in Active :
            Queue("main", SendAll("KEEPALIVE_ACK", {}, {SnapshotPeer(i)}, 0))
      BY Zenon, <1>3 DEF HandleKeepalive, FindPeerByAddr, IsFirst, SlotsByAddr
    <2>2. {SnapshotPeer(i)} \in SUBSET Snapshot
      BY Zenon, SnapshotTypes
    <2> QED
      BY Zenon, <1>0, <2>1, <2>2, SendAllType
  <1> QED
    BY ZenonT(60), <1>1, <1>2, <1>3
       DEF Main, AcceptRegisteredSequence, DropReplayed, RejectRegister,
           HandleNothing, HandleKeepaliveAck, vars

\* The timeout thread queues notices and keepalives; only keepalives when
\* nobody has timed out.
LEMMA SweepQueues ==
  ASSUME TypeOK, TimeoutSweep
  PROVE  /\ \E q \in Seq(NoAccount) : Queue("timeout", q)
         /\ TimedOut = {} => \E q \in Seq(Quiet) : Queue("timeout", q)
  <1> DEFINE gone == SnapshotBroadcast(TimedOut)
             rest == SnapshotBroadcast(Active \ TimedOut)
             w == Do("leaves", "PEER_LEAVE", gone, rest, 0)
             leaves == IF gone = {} THEN <<>> ELSE <<w>>
             send == SendAll("KEEPALIVE", {}, rest, 0)
  <1>1. gone \in SUBSET Snapshot /\ rest \in SUBSET Snapshot
    BY SnapshotTypes DEF TimedOut
  <1>2. Queue("timeout", leaves \o send)
    BY DEF TimeoutSweep
  <1>3. TimedOut = {} => gone = {}
    BY Zenon DEF SnapshotBroadcast
  <1> HIDE DEF gone, rest
  <1>4. "leaves" \in Ops /\ "PEER_LEAVE" \in Msgs /\ "KEEPALIVE" \in Msgs
          /\ "KEEPALIVE" \notin News /\ 0 \in 0 .. 1 /\ "leaves" # "account"
    BY DEF Ops, Msgs, News
  <1>5. w \in Work /\ w.op = "leaves"
    BY Zenon, <1>1, <1>4, DoType DEF Do
  <1>6. w \in NoAccount
    BY Zenon, <1>4, <1>5 DEF NoAccount
  <1>7. send \in Seq(NoAccount) /\ send \in Seq(Quiet)
    BY Zenon, <1>1, <1>4, SendAllType
  <1> HIDE DEF w, send
  <1>8. leaves \o send \in Seq(NoAccount)
    BY SMT, <1>6, <1>7
  <1>9. gone = {} => leaves \o send \in Seq(Quiet)
    BY SMT, <1>7
  <1> QED
    BY Zenon, <1>2, <1>3, <1>8, <1>9

\* What the TUN thread queues is no news.
LEMMA TunQueues ==
  ASSUME TypeOK, NEW dst, TunRead(dst)
  PROVE  \E q \in Seq(Quiet) : Queue("tun", q)
  BY Zenon, ForwardType DEF TunRead

\* What remains after a system call is well formed.
LEMMA PerformTodoType ==
  ASSUME TypeOK, NEW t \in Threads, Perform(t)
  PROVE  todo' \in [Threads -> Seq(Work)]
  <1> DEFINE w == Head(todo[t])
             tail == Tail(todo[t])
  <1>1. w \in Work /\ tail \in Seq(Work)
    BY HeadTail DEF Perform
  <1>2. CASE Queue(t, tail)
    BY Zenon, <1>1, <1>2, QueueType
  <1>3. CASE PerformSend(t)
    <2>1. PICK d \in w.dests :
            LET rest == SendAll(w.msg, w.about, w.dests \ {d}, w.bytes) \o tail
            IN  \/ Queue(t, rest)
                \/ Queue(t, <<Do("account", w.msg, {}, {d}, w.bytes)>> \o rest)
      BY Zenon, <1>3 DEF PerformSend
    <2> DEFINE left == w.dests \ {d}
               send == SendAll(w.msg, w.about, left, w.bytes)
               account == <<Do("account", w.msg, {}, {d}, w.bytes)>>
    <2>2. /\ w.msg \in Msgs /\ w.about \in SUBSET Snapshot /\ w.bytes \in 0 .. 1
          /\ left \in SUBSET Snapshot /\ {d} \in SUBSET Snapshot
      BY Zenon, <1>1 DEF Work, Msgs
    <2>3. Queue(t, send \o tail) \/ Queue(t, account \o (send \o tail))
      BY Zenon, <2>1
    <2> HIDE DEF left, w, tail
    <2>4. account \in Seq(Work)
      BY <2>2, DoType DEF Ops
    <2>5. send \in Seq(Work)
      BY <2>2, SendAllType
    <2> HIDE DEF send, account
    <2>6. send \o tail \in Seq(Work)
      BY Zenon, <1>1, <2>5, ConcatType
    <2>7. account \o (send \o tail) \in Seq(Work)
      BY <2>4, <2>6, ConcatType
    <2> QED
      BY Zenon, <2>3, <2>6, <2>7, QueueType
  <1>4. CASE PerformLeaves(t)
    <2>1. PICK s \in w.about :
            Queue(t, SendAll(w.msg, {s}, w.dests, 0)
                       \o (IF w.about = {s} THEN <<>>
                           ELSE <<Do(w.op, w.msg, w.about \ {s}, w.dests, 0)>>)
                       \o tail)
      BY Zenon, <1>4 DEF PerformLeaves
    <2> DEFINE left == w.about \ {s}
               send == SendAll(w.msg, {s}, w.dests, 0)
               more == IF w.about = {s} THEN <<>>
                       ELSE <<Do(w.op, w.msg, left, w.dests, 0)>>
    <2>2. /\ w.op \in Ops /\ w.msg \in Msgs
          /\ {s} \in SUBSET Snapshot /\ left \in SUBSET Snapshot
          /\ w.dests \in SUBSET Snapshot
      BY Zenon, <1>1 DEF Work, Ops, Msgs
    <2>3. Queue(t, send \o more \o tail)
      BY <2>1
    <2> HIDE DEF left, w, tail
    <2>4. send \in Seq(Work)
      BY <2>2, SendAllType
    <2>5. more \in Seq(Work)
      BY <2>2, DoType
    <2> HIDE DEF send, more
    <2>6. send \o more \o tail \in Seq(Work)
      BY Zenon, <1>1, <2>4, <2>5, ConcatType
    <2> QED
      BY Zenon, <2>3, <2>6, QueueType
  <1> QED
    BY Zenon, <1>2, <1>3, <1>4
       DEF Perform, PerformAccount, PerformEvent, PerformTun

\* A system call leaves the history variables well formed.
LEMMA PerformHistoryType ==
  ASSUME TypeOK, NEW t \in Threads, Perform(t)
  PROVE  /\ told' \in [Endpoints -> SUBSET Pool]
         /\ hostView' \in SUBSET Pool
         /\ sent' \in [Endpoints -> Nat]
  <1> DEFINE w == Head(todo[t])
  <1>1. w \in Work
    BY SMTT(60), HeadTail DEF Perform
  <1>2. w.about \in SUBSET Snapshot /\ w.dests \in SUBSET Snapshot
          /\ w.bytes \in Nat
    BY <1>1 DEF Work
  <1>3. \A s \in w.about : s.vip \in Pool
    BY Zenon, <1>2 DEF Snapshot
  <1>4. CASE PerformSend(t)
    <2>1. CASE UNCHANGED <<told, sent>>
      BY Zenon, <1>4, <2>1 DEF PerformSend, TypeOK
    <2>2. ASSUME NEW d \in w.dests, Tell(d.addr, w),
                 sent' = [sent EXCEPT ![d.addr] = @ + w.bytes]
          PROVE  /\ told' \in [Endpoints -> SUBSET Pool]
                 /\ sent' \in [Endpoints -> Nat]
      <3> DEFINE vips == {s.vip : s \in w.about}
      <3>1. vips \in SUBSET Pool
        BY <1>3
      <3>2. d.addr \in Endpoints
        BY <1>2 DEF Snapshot
      <3>3. told' = [told EXCEPT ![d.addr] =
                       CASE w.msg \in {"PEER_LIST", "PEER_JOIN"} -> @ \cup vips
                         [] w.msg = "PEER_LEAVE" -> @ \ vips
                         [] OTHER -> @]
        BY <2>2 DEF Tell
      <3> HIDE DEF vips
      <3>4. told' \in [Endpoints -> SUBSET Pool]
        BY ZenonT(60), <3>1, <3>2, <3>3 DEF TypeOK
      <3>5. sent' \in [Endpoints -> Nat]
        BY SMTT(60), <1>2, <2>2, <3>2 DEF TypeOK
      <3> QED
        BY Zenon, <3>4, <3>5
    <2> QED
      BY Zenon, <1>4, <2>1, <2>2 DEF PerformSend, TypeOK
  <1>5. CASE PerformEvent(t) \/ PerformLeaves(t)
    BY ZenonT(60), <1>3, <1>5 DEF PerformEvent, PerformLeaves, Emit, TypeOK
  <1>6. CASE UNCHANGED history
    BY Zenon, <1>6 DEF history, TypeOK
  <1> QED
    BY ZenonT(60), <1>4, <1>5, <1>6 DEF Perform, PerformAccount, PerformTun, TypeOK

\* The server starts in a well-formed state.
LEMMA TypeInit == Init => TypeOK
  <1> SUFFICES ASSUME Init PROVE TypeOK
    OBVIOUS
  <1>1. FreeSlot \in Slot /\ ~FreeSlot.active
    BY WindowTypes DEF FreeSlot, Slot
  <1>2. Active = {}
    BY <1>1 DEF Init, Active
  <1>3. todo \in [Threads -> Seq(Work)]
    BY DEF Init
  <1> QED
    BY SMTT(60), <1>1, <1>2, <1>3 DEF Init, TypeOK

PktType ==
  pkt \in [type : Requests, from : Endpoints, seq : SeqNums] \cup {None}

\* Every step leads to a well-formed state.
LEMMA TypeStep ==
  ASSUME TypeOK, [Next]_vars PROVE TypeOK'
  <1>1. TableType'
    BY Zenon, TableTypeStep
  <1>2. todo' \in [Threads -> Seq(Work)]
    <2>1. ASSUME NEW t \in Threads, \E q \in Seq(NoAccount) : Queue(t, q)
          PROVE  todo' \in [Threads -> Seq(Work)]
      BY Zenon, <2>1, KindsOfWork, QueueType
    <2>2. CASE UNCHANGED todo
      BY Zenon, <2>2 DEF TypeOK
    <2>3. "main" \in Threads /\ "timeout" \in Threads /\ "tun" \in Threads
      BY DEF Threads
    <2>4. CASE Main
      BY ZenonT(60), <2>1, <2>2, <2>3, <2>4, KindsOfWork, MainQueues, RegisterQueues,
         DisconnectQueues
    <2>5. ASSUME NEW dst, TunRead(dst) PROVE todo' \in [Threads -> Seq(Work)]
      BY Zenon, <2>1, <2>3, <2>5, TunQueues, KindsOfWork
    <2>6. CASE TimeoutSweep
      BY Zenon, <2>1, <2>3, <2>6, SweepQueues
    <2> QED
      BY Zenon, <2>2, <2>4, <2>5, <2>6, PerformTodoType
         DEF Next, TimeoutWake, Tick, vars
  <1>3. /\ told' \in [Endpoints -> SUBSET Pool]
        /\ hostView' \in SUBSET Pool
        /\ sent' \in [Endpoints -> Nat]
    <2>1. CASE UNCHANGED history
      BY Zenon, <2>1 DEF history, TypeOK
    <2>2. ASSUME NEW e \in Endpoints, NEW seq \in SeqNums, RegisterNew(e, seq)
          PROVE  /\ told' \in [Endpoints -> SUBSET Pool]
                 /\ UNCHANGED <<hostView, sent>>
      BY Zenon, <2>2 DEF RegisterNew, TypeOK
    <2>3. CASE Main
      BY ZenonT(60), <2>1, <2>2, <2>3
         DEF Main, RegisterKnown, AcceptRegisteredSequence, DropReplayed,
             RejectRegister, HandleNothing, HandleData, HandleKeepalive,
             HandleKeepaliveAck, HandleDisconnect, vars, history, TypeOK
    <2> QED
      BY Zenon, <2>1, <2>3, PerformHistoryType
         DEF Next, TimeoutWake, TimeoutSweep, Tick, TunRead, vars, history
  <1>4. PktType'
    <2>1. ASSUME NEW type \in Requests, NEW e \in Endpoints,
                 NEW seq \in SeqNums, AcceptRegisteredSequence(type, e, seq)
          PROVE  PktType'
      BY Zenon, <2>1 DEF AcceptRegisteredSequence, PktType
    <2>2. CASE UNCHANGED pkt
      BY <2>2 DEF PktType, TypeOK
    <2>3. CASE pkt' = None
      BY Zenon, <2>3 DEF PktType
    <2>4. CASE Main
      BY ZenonT(60), <2>1, <2>2, <2>3, <2>4
         DEF Main, RegisterKnown, RegisterNew, DropReplayed, RejectRegister,
             HandleNothing, HandleData, HandleKeepalive, HandleKeepaliveAck,
             HandleDisconnect, vars
    <2> QED
      BY <2>2, <2>4
         DEF Next, TimeoutWake, TimeoutSweep, Tick, TunRead, Perform, vars
  <1>5. /\ clock' \in Nat
        /\ tnow' \in Nat \cup {None}
        /\ slept' \in 0 .. KeepaliveInterval
    <2>1. CASE UNCHANGED <<clock, tnow, slept>>
      BY Zenon, <2>1 DEF TypeOK
    <2>2. CASE TimeoutWake \/ TimeoutSweep \/ Tick
      BY SMTT(60), <2>2 DEF TimeoutWake, TimeoutSweep, Tick, TypeOK
    <2>3. CASE Main
      BY ZenonT(60), <2>1, <2>3
         DEF Main, RegisterKnown, RegisterNew, AcceptRegisteredSequence,
             DropReplayed, RejectRegister, HandleNothing, HandleData,
             HandleKeepalive, HandleKeepaliveAck, HandleDisconnect, vars,
             timeoutVars
    <2> QED
      BY Zenon, <2>1, <2>2, <2>3 DEF Next, TunRead, Perform, vars, timeoutVars
  <1> QED
    BY Zenon, <1>1, <1>2, <1>3, <1>4, <1>5 DEF TypeOK, TableType, PktType
-----------------------------------------------------------------------------
(* The table. *)

\* Every step keeps addresses and endpoints distinct and the count exact: a
\* new peer gets an address nobody has, and its endpoint was not in the table.
LEMMA TableConsistentStep ==
  ASSUME TypeOK, TableConsistent, [Next]_vars PROVE TableConsistent'
  <1> DEFINE Unique == \A i, j \in Active :
                         i # j => /\ peers[i].vip # peers[j].vip
                                  /\ peers[i].addr # peers[j].addr
  <1>0. IsFiniteSet(Active) /\ Cardinality(Active) \in Nat
    BY SMTT(60), TimedOutFinite DEF Active
  <1>1. CASE Kept
    <2>1. Active' = Active
      BY Zenon, <1>1 DEF Kept, SameId, Active
    <2>2. Unique'
      BY SMTT(60), <1>1, <2>1 DEF Kept, SameId, TableConsistent, Active
    <2> QED
      BY Zenon, <1>1, <2>1, <2>2 DEF Kept, TableConsistent
  <1>2. ASSUME NEW e \in Endpoints, NEW i \in Slots, NEW v \in Pool,
               NEW seq \in SeqNums, Added(e, i, v, seq)
        PROVE  TableConsistent'
    <2>1. /\ NewPeer(e, v, seq).active
          /\ NewPeer(e, v, seq).vip = v
          /\ NewPeer(e, v, seq).addr = e
      BY Zenon  DEF NewPeer
    <2>2. \A j \in Slots :
            peers'[j] = IF j = i THEN NewPeer(e, v, seq) ELSE peers[j]
      BY <1>2 DEF Added, TypeOK
    <2>3. i \notin Active
      BY SMTT(60), <1>2 DEF Added, FindFreeSlot, IsFirst
    <2>4. Active' = Active \cup {i}
      BY ZenonT(60), <2>1, <2>2 DEF Active
    <2>5. \A j \in Active : peers[j].vip # v /\ peers[j].addr # e
      BY Zenon, <1>2 DEF Added, AllocIp, IsFirst, SlotsByVip, SlotsByAddr
    <2>6. Unique'
      BY SMTT(60), <2>1, <2>2, <2>3, <2>4, <2>5 DEF TableConsistent, Active
    <2>7. Cardinality(Active') = Cardinality(Active) + 1
      BY ZenonT(60), <1>0, <2>3, <2>4, FS_AddElement
    <2> QED
      BY Zenon, <1>2, <2>6, <2>7 DEF Added, TableConsistent
  <1>3. ASSUME NEW S \in SUBSET Active, Removed(S) PROVE TableConsistent'
    <2>1. ~FreeSlot.active
      BY DEF FreeSlot
    <2>2. Active' = Active \ S
      BY Zenon, <1>3, <2>1 DEF Removed, Active, TypeOK
    <2>3. \A j \in Active' : peers'[j] = peers[j]
      BY <1>3, <2>2 DEF Removed, Active
    <2>4. Unique'
      <3>1. SUFFICES ASSUME NEW i \in Active', NEW j \in Active', i # j
                     PROVE  /\ peers'[i].vip # peers'[j].vip
                            /\ peers'[i].addr # peers'[j].addr
        OBVIOUS
      <3>2. /\ i \in Active /\ j \in Active
            /\ peers'[i] = peers[i] /\ peers'[j] = peers[j]
        BY Zenon, <2>2, <2>3
      <3> QED
        BY Zenon, <3>1, <3>2 DEF TableConsistent
    <2>5. Active \cap S = S
      OBVIOUS
    <2>6. Cardinality(Active') = Cardinality(Active) - Cardinality(S)
      BY Zenon, <1>0, <2>2, <2>5, FS_Difference
    <2> QED
      BY Zenon, <1>3, <2>4, <2>6 DEF Removed, TableConsistent
  <1> QED
    BY Zenon, <1>1, <1>2, <1>3, TableStep

\* The first free slot and the first free address have the same position,
\* because every slot before has its own address and no other one.
LEMMA SlotPositionStep ==
  ASSUME TypeOK, SlotPosition, [Next]_vars PROVE SlotPosition'
  <1>1. CASE Kept
    BY SMTT(60), <1>1 DEF Kept, SameId, SlotPosition, Active
  <1>2. ASSUME NEW e \in Endpoints, NEW i \in Slots, NEW v \in Pool,
               NEW seq \in SeqNums, Added(e, i, v, seq)
        PROVE  SlotPosition'
    <2>1. i \notin Active /\ \A j \in Slots : j < i => j \in Active
      BY SMTT(60), <1>2 DEF Added, FindFreeSlot, IsFirst, Slots
    <2>2. \A j \in Active : peers[j].vip # v
      BY SMTT(60), <1>2 DEF Added, AllocIp, IsFirst, SlotsByVip
    <2>3. \A u \in Pool : u < v => \E j \in Active : peers[j].vip = u
      BY <1>2 DEF Added, AllocIp, IsFirst, SlotsByVip, Pool
    <2>4. v = IpStart + i
      <3>1. ~(v < IpStart + i)
        <4>1. SUFFICES ASSUME v < IpStart + i PROVE FALSE
          OBVIOUS
        <4>2. v - IpStart \in Slots /\ v - IpStart < i
          BY <4>1 DEF Pool, Slots
        <4>3. v - IpStart \in Active
          BY SMTT(60), <2>1, <4>2
        <4>4. peers[v - IpStart].vip = v
          BY SMTT(60), <4>3 DEF SlotPosition, Pool
        <4> QED
          BY Zenon, <2>2, <4>3, <4>4
      <3>2. ~(IpStart + i < v)
        <4>1. SUFFICES ASSUME IpStart + i < v PROVE FALSE
          OBVIOUS
        <4>2. IpStart + i \in Pool
          BY SMTT(60), <4>1 DEF Pool, Slots
        <4>3. PICK j \in Active : peers[j].vip = IpStart + i
          BY Zenon, <2>3, <4>1, <4>2
        <4>4. j = i
          BY SMTT(60), <4>3 DEF SlotPosition, Active, Slots
        <4> QED
          BY Zenon, <2>1, <4>3, <4>4
      <3> QED
        BY SMTT(60), <3>1, <3>2 DEF Pool, Slots
    <2>5. NewPeer(e, v, seq).vip = v
      BY SMTT(60) DEF NewPeer
    <2>6. \A j \in Slots :
            peers'[j] = IF j = i THEN NewPeer(e, v, seq) ELSE peers[j]
      BY <1>2 DEF Added, TypeOK
    <2> QED
      BY Zenon, <2>4, <2>5, <2>6 DEF SlotPosition, Active
  <1>3. ASSUME NEW S \in SUBSET Active, Removed(S) PROVE SlotPosition'
    <2>1. ~FreeSlot.active
      BY DEF FreeSlot
    <2> QED
      BY SMTT(60), <1>3, <2>1 DEF Removed, SlotPosition, Active
  <1> QED
    BY <1>1, <1>2, <1>3, TableStep

\* With as many addresses as slots, the address at the position of a free slot
\* is free.
LEMMA PoolSufficesFromPosition ==
  ASSUME TypeOK, SlotPosition PROVE PoolSuffices
  <1>1. SUFFICES ASSUME Active # Slots, MaxPeers <= IpEnd - IpStart + 1
                 PROVE  \E v \in Pool : SlotsByVip(v) = {}
    BY DEF PoolSuffices
  <1>2. PICK i \in Slots : i \notin Active
    BY <1>1 DEF Active
  <1>3. IpStart + i \in Pool
    BY SMTT(60), <1>1 DEF Slots, Pool
  <1>4. \A j \in Active : peers[j].vip # IpStart + i
    BY SMTT(60), <1>2 DEF SlotPosition, Active, Slots
  <1> QED
    BY SMTT(60), <1>3, <1>4 DEF SlotsByVip

-----------------------------------------------------------------------------
(* The datagram in hand, and the clock of the timeout thread. *)

\* Work done after the unlock changes no replay window.
LEMMA PerformKeepsWindows ==
  ASSUME TypeOK, NEW t \in Threads, Perform(t), NEW i \in Slots
  PROVE  peers'[i].replay = peers[i].replay
  <1>1. CASE PerformAccount(t)
    <2>1. Head(todo[t]) \in Work
      BY Zenon, HeadTail DEF Perform
    <2>2. PICK d \in Snapshot, n \in Nat :
            \/ peers' = peers
            \/ peers' = [peers EXCEPT ![d.idx].bytesOut = @ + n]
      BY <1>1, <2>1, SMTT(60) DEF PerformAccount, Work
    <2>3. CASE peers' = [peers EXCEPT ![d.idx].bytesOut = @ + n]
      <3>1. peers[i] \in Slot
        BY DEF TypeOK
      <3>2. peers'[i] = IF i = d.idx
                        THEN [peers[i] EXCEPT !.bytesOut = @ + n] ELSE peers[i]
        BY Zenon, <2>3 DEF TypeOK
      <3>3. \A r \in Slot : \A m : [r EXCEPT !.bytesOut = m].replay = r.replay
        BY DEF Slot
      <3> QED
        BY <3>1, <3>2, <3>3, ZenonT(60)
    <2> QED
      BY SMTT(60), <2>2, <2>3
  <1> QED
    BY Zenon, <1>1 DEF Perform, PerformSend, PerformEvent, PerformLeaves, PerformTun,
                tableVars

\* A datagram is taken in hand together with its number; until it is handled
\* no step gives its sender another window.
LEMMA DispatchedStep ==
  ASSUME TypeOK, TableConsistent, DispatchedIsRecorded, [Next]_vars
  PROVE  DispatchedIsRecorded'
  <1>1. SUFFICES ASSUME pkt' # None, NEW i \in SlotsByAddr(pkt.from)'
                 PROVE  ~ReplayAccepts(peers'[i].replay, pkt'.seq)
    BY DEF DispatchedIsRecorded
  <1> DEFINE Goal == ~ReplayAccepts(peers'[i].replay, pkt'.seq)
  <1>2. i \in Slots /\ peers'[i].active /\ peers'[i].addr = pkt'.from
    BY Zenon, <1>1 DEF SlotsByAddr, Active
  <1>3. ASSUME pkt' = pkt, peers[i].active, peers'[i].addr = peers[i].addr,
               peers'[i].replay = peers[i].replay
        PROVE  Goal
    BY Zenon, <1>1, <1>2, <1>3 DEF DispatchedIsRecorded, SlotsByAddr, Active
  <1>4. ASSUME NEW type \in Requests, NEW e \in Endpoints,
               NEW seq \in SeqNums, AcceptRegisteredSequence(type, e, seq)
        PROVE  Goal
    <2>1. pkt'.from = e /\ pkt'.seq = seq
      BY SMTT(60), <1>4 DEF AcceptRegisteredSequence
    <2>2. peers[i].active /\ peers[i].addr = e
      BY ZenonT(60), <1>2, <1>4, <2>1, KeptByAccept DEF Kept, SameId
    <2>3. CASE SlotsByAddr(e) = {}
      BY Zenon, <1>2, <2>2, <2>3 DEF SlotsByAddr, Active
    <2>4. ASSUME NEW j \in Slots, FindPeerByAddr(j, e),
                 ReplayAccepts(peers[j].replay, seq),
                 peers' = RecordSequence(j, seq)
          PROVE  Goal
      <3>1. j = i
        BY Zenon, <1>2, <2>2, <2>4
           DEF TableConsistent, FindPeerByAddr, IsFirst, SlotsByAddr, Active
      <3>2. peers[j] \in Slot /\ peers[j].replay \in WindowType
        BY DEF TypeOK, Slot
      <3>3. peers'[j] =
              [peers[j] EXCEPT !.replay = ReplayUpdate(peers[j].replay, seq)]
        BY <2>4 DEF RecordSequence, TypeOK
      <3>4. \A r \in Slot : \A m : [r EXCEPT !.replay = m].replay = m
        BY DEF Slot
      <3>5. peers'[j].replay = ReplayUpdate(peers[j].replay, seq)
        BY <3>2, <3>3, <3>4, Zenon
      <3> QED
        BY Zenon, <2>1, <2>4, <3>1, <3>2, <3>5, UpdateRefuses
    <2> QED
      BY Zenon, <1>4, <2>3, <2>4 DEF AcceptRegisteredSequence
  <1>5. CASE Main
    BY ZenonT(60), <1>1, <1>4, <1>5
       DEF Main, RegisterKnown, RegisterNew, DropReplayed, RejectRegister,
           MainReady, HandleNothing, HandleData, HandleKeepalive,
           HandleKeepaliveAck, HandleDisconnect, vars
  <1>6. CASE TimeoutSweep
    <2>1. ~FreeSlot.active
      BY Zenon  DEF FreeSlot
    <2> QED
      BY Zenon, <1>2, <1>3, <1>6, <2>1 DEF TimeoutSweep
  <1>7. ASSUME NEW t \in Threads, Perform(t) PROVE Goal
    BY Zenon, <1>2, <1>3, <1>7, KeptByPerform, PerformKeepsWindows
       DEF Kept, SameId, Perform
  <1>8. CASE UNCHANGED <<peers, pkt>>
    BY Zenon, <1>2, <1>3, <1>8
  <1> QED
    BY Zenon, <1>5, <1>6, <1>7, <1>8
       DEF Next, TimeoutWake, Tick, TunRead, vars, tableVars

\* The timeout thread reads `now' from the clock, and the clock only grows.
LEMMA NowInPastStep ==
  ASSUME TypeOK, NowInPast, [Next]_vars PROVE NowInPast'
  <1>1. CASE UNCHANGED <<clock, tnow>>
    BY Zenon, <1>1 DEF NowInPast
  <1> clock \in Nat /\ tnow \in Nat \cup {None}
    BY DEF TypeOK
  <1>2. CASE TimeoutWake \/ TimeoutSweep \/ Tick
    <2>1. CASE TimeoutWake
      BY SMTT(60), <2>1 DEF TimeoutWake, NowInPast
    <2>2. CASE TimeoutSweep
      BY SMTT(60), <2>2 DEF TimeoutSweep, NowInPast
    <2>3. CASE Tick
      <3>1. clock' = clock + 1 /\ tnow' = tnow
        BY Zenon, <2>3 DEF Tick
      <3> QED
        BY SMTT(60), <3>1 DEF NowInPast
    <2> QED
      BY Zenon, <1>2, <2>1, <2>2, <2>3
  <1>3. CASE Main
    BY ZenonT(60), <1>1, <1>3
       DEF Main, RegisterKnown, RegisterNew, AcceptRegisteredSequence,
           DropReplayed, RejectRegister, HandleNothing, HandleData,
           HandleKeepalive, HandleKeepaliveAck, HandleDisconnect, vars,
           timeoutVars
  <1> QED
    BY Zenon, <1>1, <1>2, <1>3 DEF Next, TunRead, Perform, vars, timeoutVars

-----------------------------------------------------------------------------
(* The counters of the packets sent to each peer. *)

\* Updates of the other fields of a slot leave its counter alone.
LEMMA SlotCounts ==
  ASSUME NEW r \in Slot, NEW n, NEW w
  PROVE  /\ [r EXCEPT !.lastSeen = n].bytesOut = r.bytesOut
         /\ [r EXCEPT !.replay = w].bytesOut = r.bytesOut
         /\ [r EXCEPT !.lastSeen = n, !.replay = w].bytesOut = r.bytesOut
         /\ [r EXCEPT !.bytesIn = n].bytesOut = r.bytesOut
         /\ [r EXCEPT !.bytesOut = n].bytesOut = n
  BY DEF Slot

CountsKept == \A i \in Slots : peers'[i].bytesOut = peers[i].bytesOut

\* ... and so does a step that updates one slot that way.
LEMMA CountsKeptByUpdate ==
  ASSUME TypeOK, NEW i \in Slots, NEW q, q.bytesOut = peers[i].bytesOut,
         peers' = [peers EXCEPT ![i] = q]
  PROVE  CountsKept
  BY Zenon DEF TypeOK, CountsKept

\* The handlers count what they receive and refresh the sender; the counter of
\* what was sent is not theirs.
LEMMA CountsKeptByMain ==
  ASSUME TypeOK, Main
  PROVE  \/ CountsKept
         \/ \E e \in Endpoints, seq \in SeqNums : RegisterNew(e, seq)
         \/ HandleDisconnect
  <1>0. \A i \in Slots : peers[i] \in Slot
    BY DEF TypeOK
  <1>1. ASSUME NEW e \in Endpoints, NEW seq \in SeqNums, RegisterKnown(e, seq)
        PROVE  CountsKept
    <2>1. PICK i \in Slots :
            peers' = [peers EXCEPT
                        ![i].lastSeen = clock,
                        ![i].replay = ReplayUpdate(peers[i].replay, seq)]
      BY Zenon, <1>1 DEF RegisterKnown
    <2> DEFINE w == ReplayUpdate(peers[i].replay, seq)
               q == [peers[i] EXCEPT !.lastSeen = clock, !.replay = w]
    <2>2. peers' = [peers EXCEPT ![i] = q]
      BY Zenon, <2>1 DEF TypeOK
    <2> HIDE DEF w
    <2>3. q.bytesOut = peers[i].bytesOut
      BY <1>0 DEF Slot
    <2> QED
      BY Zenon, <2>2, <2>3, CountsKeptByUpdate
  <1>2. ASSUME NEW type \in Requests, NEW e \in Endpoints,
               NEW seq \in SeqNums, AcceptRegisteredSequence(type, e, seq)
        PROVE  CountsKept
    <2>1. CASE UNCHANGED peers
      BY Zenon, <2>1 DEF CountsKept
    <2>2. ASSUME NEW i \in Slots, peers' = RecordSequence(i, seq)
          PROVE  CountsKept
      <3> DEFINE w == ReplayUpdate(peers[i].replay, seq)
                 q == [peers[i] EXCEPT !.replay = w]
      <3>1. peers' = [peers EXCEPT ![i] = q]
        BY Zenon, <2>2 DEF RecordSequence, TypeOK
      <3> HIDE DEF w
      <3>2. q.bytesOut = peers[i].bytesOut
        BY Zenon, <1>0, SlotCounts
      <3> QED
        BY Zenon, <3>1, <3>2, CountsKeptByUpdate
    <2> QED
      BY Zenon, <1>2, <2>1, <2>2 DEF AcceptRegisteredSequence
  <1>3. ASSUME NEW dst, HandleData(dst) PROVE CountsKept
    <2>1. PICK i \in Slots : peers' = [peers EXCEPT ![i].bytesIn = @ + 1]
      BY Zenon, <1>3 DEF HandleData
    <2> DEFINE n == peers[i].bytesIn + 1
               q == [peers[i] EXCEPT !.bytesIn = n]
    <2>2. peers' = [peers EXCEPT ![i] = q]
      BY Zenon, <2>1
    <2> HIDE DEF n
    <2>3. q.bytesOut = peers[i].bytesOut
      BY Zenon, <1>0, SlotCounts
    <2> QED
      BY Zenon, <2>2, <2>3, CountsKeptByUpdate
  <1>4. CASE HandleKeepalive \/ HandleKeepaliveAck
    <2>1. PICK i \in Slots : peers' = [peers EXCEPT ![i].lastSeen = clock]
      BY ZenonT(60), <1>4 DEF HandleKeepalive, HandleKeepaliveAck
    <2> DEFINE q == [peers[i] EXCEPT !.lastSeen = clock]
    <2>2. peers' = [peers EXCEPT ![i] = q]
      BY Zenon, <2>1
    <2>3. q.bytesOut = peers[i].bytesOut
      BY Zenon, <1>0, SlotCounts
    <2> QED
      BY Zenon, <2>2, <2>3, CountsKeptByUpdate
  <1>5. CASE UNCHANGED peers
    BY Zenon, <1>5 DEF CountsKept
  <1> QED
    BY ZenonT(60), <1>1, <1>2, <1>3, <1>4, <1>5
       DEF Main, DropReplayed, RejectRegister, HandleNothing, vars, tableVars

\* The threads that owe an update can be counted.
LEMMA OwingFinite ==
  ASSUME NEW S \in SUBSET Threads
  PROVE  IsFiniteSet(S) /\ Cardinality(S) \in Nat
  <1>1. IsFiniteSet(Threads)
    <2>1. IsFiniteSet({"main"})
      BY Zenon, FS_Singleton
    <2>2. IsFiniteSet({"main"} \cup {"timeout"})
      BY Zenon, <2>1, FS_AddElement
    <2>3. IsFiniteSet(({"main"} \cup {"timeout"}) \cup {"tun"})
      BY Zenon, <2>2, FS_AddElement
    <2>4. Threads = ({"main"} \cup {"timeout"}) \cup {"tun"}
      BY DEF Threads
    <2> QED
      BY Zenon, <2>3, <2>4
  <1> QED
    BY Zenon, <1>1, FS_Subset, FS_CardinalityType

\* A thread whose work holds no update owes none.
LEMMA OwesNothing ==
  ASSUME NEW q \in Seq(NoAccount), q # <<>>
  PROVE  Head(q).op # "account" /\ Tail(q) \in Seq(NoAccount)
  <1>1. Head(q) \in NoAccount /\ Tail(q) \in Seq(NoAccount)
    BY SMT
  <1> QED
    BY Zenon, <1>1 DEF NoAccount

Requeued(t) == \E q \in Seq(NoAccount) : Queue(t, q)

\* New work holds no update of a counter: the thread then owes none.
LEMMA RequeuedOwing ==
  ASSUME TypeOK, AccountsFirst, NEW t \in Threads, Requeued(t)
  PROVE  /\ AccountsFirst'
         /\ \A e : Owing(e)' = Owing(e) \ {t}
  <1>1. PICK q \in Seq(NoAccount) : todo' = [todo EXCEPT ![t] = q]
    BY Zenon DEF Requeued, Queue
  <1>2. todo'[t] = q /\ \A u \in Threads \ {t} : todo'[u] = todo[u]
    BY Zenon, <1>1 DEF TypeOK
  <1>3. AccountsFirst'
    BY Zenon, <1>2 DEF AccountsFirst
  <1>4. q # <<>> => Head(q).op # "account"
    BY Zenon, OwesNothing
  <1> QED
    BY Zenon, <1>2, <1>3, <1>4 DEF Owing

\* A send that worked leaves one update to do, for the endpoint it went to.
Sent(t, d) ==
  /\ d \in Snapshot
  /\ sent' = [sent EXCEPT ![d.addr] = @ + 1]
  /\ AccountsFirst'
  /\ UNCHANGED peers
  /\ \A e : t \notin Owing(e)
  /\ \A e : Owing(e)' = IF e = d.addr THEN Owing(e) \cup {t} ELSE Owing(e)

\* An update is of the counter of the endpoint it is owed to, if at all.
Accounted(t, d) ==
  /\ d \in Snapshot
  /\ t \in Owing(d.addr)
  /\ Requeued(t)
  /\ UNCHANGED sent
  /\ peers' = IF SamePeer(d)
              THEN [peers EXCEPT ![d.idx].bytesOut = @ + 1] ELSE peers

\* What the first piece of work being no update says of a thread's work.
LEMMA NoAccountAtHead ==
  ASSUME TypeOK, AccountsFirst, NEW t \in Threads, ~Idle(t),
         Head(todo[t]).op # "account"
  PROVE  /\ Tail(todo[t]) \in Seq(NoAccount)
         /\ \A e : t \notin Owing(e)
  <1>1. todo[t] \in Seq(NoAccount)
    BY Zenon DEF AccountsFirst, OneAccount
  <1> QED
    BY Zenon, <1>1, OwesNothing DEF Owing, Idle

\* net_send, as far as the counters go.
LEMMA SendOwes ==
  ASSUME TypeOK, AccountsFirst, NEW t \in Threads, ~Idle(t), PerformSend(t)
  PROVE  \/ Requeued(t) /\ UNCHANGED <<peers, sent>>
         \/ \E d : Sent(t, d)
  <1> DEFINE w == Head(todo[t])
             tail == Tail(todo[t])
  <1>1. w \in Work /\ w.op # "account"
    BY Zenon, HeadTail, "send" # "account" DEF PerformSend
  <1>2. tail \in Seq(NoAccount) /\ \A e : t \notin Owing(e)
    BY Zenon, <1>1, NoAccountAtHead
  <1>3. PICK d \in w.dests :
          LET rest == SendAll(w.msg, w.about, w.dests \ {d}, w.bytes) \o tail
          IN  \/ /\ sent' = [sent EXCEPT ![d.addr] = @ + w.bytes]
                 /\ Queue(t, IF w.bytes = 0 THEN rest
                             ELSE <<Do("account", w.msg, {}, {d}, w.bytes)>>
                                    \o rest)
              \/ Queue(t, rest) /\ UNCHANGED <<told, sent>>
    BY Zenon DEF PerformSend
  <1>4. UNCHANGED peers
    BY Zenon DEF PerformSend, tableVars
  <1> DEFINE left == w.dests \ {d}
             send == SendAll(w.msg, w.about, left, w.bytes)
             rest == send \o tail
             one == Do("account", w.msg, {}, {d}, w.bytes)
  <1>5. /\ w.msg \in Msgs /\ w.about \in SUBSET Snapshot /\ w.bytes \in 0 .. 1
        /\ left \in SUBSET Snapshot /\ {d} \in SUBSET Snapshot /\ d \in Snapshot
    BY Zenon, <1>1 DEF Work, Msgs
  <1>6. send \in Seq(NoAccount)
    BY Zenon, <1>5, SendAllType
  <1>7. \/ /\ sent' = [sent EXCEPT ![d.addr] = @ + w.bytes]
           /\ Queue(t, IF w.bytes = 0 THEN rest ELSE <<one>> \o rest)
        \/ Queue(t, rest) /\ UNCHANGED <<told, sent>>
    BY Zenon, <1>3
  <1>8. one \in Work /\ one.op = "account" /\ one.dests = {d} /\ one.bytes = w.bytes
    BY Zenon, <1>5, DoType DEF Ops, Do
  <1>9. d.addr \in Endpoints
    BY Zenon, <1>5 DEF Snapshot
  <1> HIDE DEF w, tail, left, send, one
  <1>10. rest \in Seq(NoAccount)
    BY SMT, <1>2, <1>6
  <1> HIDE DEF rest
  <1>11. CASE Queue(t, rest) /\ UNCHANGED <<told, sent>>
    BY Zenon, <1>4, <1>10, <1>11 DEF Requeued
  <1>12. CASE w.bytes = 0 /\ sent' = [sent EXCEPT ![d.addr] = @ + w.bytes]
                /\ Queue(t, rest)
    <2>1. sent[d.addr] + 0 = sent[d.addr]
      BY SMT, <1>9 DEF TypeOK
    <2>2. sent' = [sent EXCEPT ![d.addr] = sent[d.addr]]
      BY Zenon, <1>12, <2>1
    <2>3. sent' = sent
      BY Zenon, <1>9, <2>2 DEF TypeOK
    <2> QED
      BY Zenon, <1>4, <1>10, <1>12, <2>3 DEF Requeued
  <1>13. CASE w.bytes # 0 /\ sent' = [sent EXCEPT ![d.addr] = @ + w.bytes]
                /\ Queue(t, <<one>> \o rest)
    <2>1. w.bytes = 1
      BY SMT, <1>5, <1>13
    <2>2. one \in OneAccount
      BY Zenon, <1>5, <1>8, <2>1 DEF OneAccount
    <2> DEFINE q == <<one>> \o rest
    <2>3. q # <<>> /\ Head(q) = one /\ Tail(q) = rest
      BY SMT, <1>8, <1>10, KindsOfWork
    <2>4. todo'[t] = q /\ \A u \in Threads \ {t} : todo'[u] = todo[u]
      BY Zenon, <1>13 DEF Queue, TypeOK
    <2> HIDE DEF q
    <2>5. AccountsFirst'
      BY Zenon, <1>10, <2>2, <2>3, <2>4 DEF AccountsFirst
    <2>6. ASSUME NEW e
          PROVE  Owing(e)' = IF e = d.addr THEN Owing(e) \cup {t} ELSE Owing(e)
      <3>1. t \in Owing(e)' <=> e = d.addr
        BY Zenon, <1>8, <2>3, <2>4 DEF Owing
      <3>2. \A u \in Threads \ {t} : u \in Owing(e)' <=> u \in Owing(e)
        BY Zenon, <2>4 DEF Owing
      <3>3. Owing(e) \subseteq Threads /\ Owing(e)' \subseteq Threads
        BY Zenon DEF Owing
      <3>4. CASE e = d.addr
        <4>1. \A u : u \in Owing(e)' <=> u \in Owing(e) \cup {t}
          BY Zenon, <3>1, <3>2, <3>3, <3>4
        <4> QED
          BY Zenon, <3>4, <4>1
      <3>5. CASE e # d.addr
        <4>1. \A u : u \in Owing(e)' <=> u \in Owing(e)
          BY Zenon, <1>2, <3>1, <3>2, <3>3, <3>5
        <4> QED
          BY Zenon, <3>5, <4>1
      <3> QED
        BY Zenon, <3>4, <3>5
    <2>7. sent' = [sent EXCEPT ![d.addr] = @ + 1]
      BY Zenon, <1>13, <2>1
    <2> QED
      BY Zenon, <1>2, <1>4, <1>5, <2>5, <2>6, <2>7 DEF Sent
  <1> QED
    BY Zenon, <1>7, <1>11, <1>12, <1>13

\* server_add_peer_bytes_out, as far as the counters go.
LEMMA AccountPays ==
  ASSUME TypeOK, AccountsFirst, NEW t \in Threads, ~Idle(t), PerformAccount(t)
  PROVE  \E d : Accounted(t, d)
  <1> DEFINE w == Head(todo[t])
  <1>1. w.op = "account" /\ todo[t] # <<>>
    BY Zenon DEF PerformAccount, Idle
  <1>2. w \in OneAccount /\ Tail(todo[t]) \in Seq(NoAccount)
    BY Zenon, <1>1, OwesNothing DEF AccountsFirst
  <1>3. PICK d \in Snapshot : w.dests = {d}
    BY Zenon, <1>2 DEF OneAccount
  <1>4. w.bytes = 1
    BY Zenon, <1>2 DEF OneAccount
  <1>5. t \in Owing(d.addr)
    BY Zenon, <1>1, <1>3 DEF Owing
  <1>6. Requeued(t) /\ UNCHANGED sent
    BY Zenon, <1>2 DEF PerformAccount, Requeued, history
  <1>7. peers' = IF SamePeer(d)
                 THEN [peers EXCEPT ![d.idx].bytesOut = @ + 1] ELSE peers
    BY Zenon, <1>3, <1>4 DEF PerformAccount
  <1> QED
    BY Zenon, <1>3, <1>5, <1>6, <1>7 DEF Accounted

\* Every system call leaves the counters alone and owes nothing new, or is a
\* send that worked, or the update that follows it.
LEMMA PerformAccounts ==
  ASSUME TypeOK, AccountsFirst, NEW t \in Threads, Perform(t)
  PROVE  \/ Requeued(t) /\ UNCHANGED <<peers, sent>>
         \/ \E d : Sent(t, d)
         \/ \E d : Accounted(t, d)
  <1> DEFINE w == Head(todo[t])
             tail == Tail(todo[t])
  <1>1. w \in Work /\ ~Idle(t)
    BY Zenon, HeadTail DEF Perform
  <1>2. CASE w.op # "account" /\ Queue(t, tail) /\ UNCHANGED <<peers, sent>>
    BY Zenon, <1>1, <1>2, NoAccountAtHead DEF Requeued
  <1>3. CASE PerformLeaves(t)
    <2>1. PICK s \in w.about :
            Queue(t, SendAll(w.msg, {s}, w.dests, 0)
                       \o (IF w.about = {s} THEN <<>>
                           ELSE <<Do(w.op, w.msg, w.about \ {s}, w.dests, 0)>>)
                       \o tail)
      BY Zenon, <1>3 DEF PerformLeaves
    <2> DEFINE left == w.about \ {s}
               send == SendAll(w.msg, {s}, w.dests, 0)
               again == Do(w.op, w.msg, left, w.dests, 0)
               more == IF w.about = {s} THEN <<>> ELSE <<again>>
    <2>2. /\ w.op \in Ops /\ w.msg \in Msgs
          /\ {s} \in SUBSET Snapshot /\ left \in SUBSET Snapshot
          /\ w.dests \in SUBSET Snapshot
      BY Zenon, <1>1 DEF Work, Ops, Msgs
    <2>3. w.op # "account"
      BY Zenon, <1>3, "leaves" # "account" DEF PerformLeaves
    <2>4. tail \in Seq(NoAccount)
      BY Zenon, <1>1, <2>3, NoAccountAtHead
    <2>5. Queue(t, send \o more \o tail)
      BY Zenon, <2>1
    <2>6. 0 \in 0 .. 1
      BY SMT
    <2>7. send \in Seq(NoAccount)
      BY Zenon, <2>2, <2>6, SendAllType
    <2>8. again \in Work /\ again.op = w.op
      BY Zenon, <2>2, <2>6, DoType DEF Do
    <2>9. again \in NoAccount
      BY Zenon, <2>3, <2>8 DEF NoAccount
    <2> HIDE DEF left, w, tail, send, again
    <2>10. send \o more \o tail \in Seq(NoAccount)
      BY SMT, <2>4, <2>7, <2>9
    <2> QED
      BY Zenon, <1>3, <2>5, <2>10 DEF Requeued, PerformLeaves, tableVars
  <1>4. CASE PerformEvent(t) \/ PerformTun(t)
    BY Zenon, <1>2, <1>4, "event" # "account", "tun" # "account"
       DEF PerformEvent, PerformTun, tableVars, history
  <1> QED
    BY Zenon, <1>1, <1>3, <1>4, SendOwes, AccountPays DEF Perform

Paid(i) ==
  peers[i].bytesOut + Cardinality(Owing(peers[i].addr)) <= sent[peers[i].addr]

\* A step that owes nothing new and credits nobody keeps the accounts.
LEMMA AccountingKept ==
  ASSUME TypeOK, TypeOK', Accounting, AccountsFirst', sent' = sent,
         \A e : Owing(e)' \subseteq Owing(e),
         \A i \in Active' :
           \/ /\ i \in Active /\ peers'[i].addr = peers[i].addr
              /\ peers'[i].bytesOut = peers[i].bytesOut
           \/ peers'[i].bytesOut = 0
  PROVE  Accounting'
  <1>1. \A e : /\ Cardinality(Owing(e)') \in Nat /\ Cardinality(Owing(e)) \in Nat
               /\ Cardinality(Owing(e)') <= Cardinality(Owing(e))
    <2>1. \A e : Owing(e) \in SUBSET Threads /\ Owing(e)' \in SUBSET Threads
      BY Zenon DEF Owing
    <2> QED
      BY Zenon, <2>1, OwingFinite, FS_Subset
  <1>2. \A e \in Endpoints : Cardinality(Owing(e)') <= sent'[e]
    BY SMTT(60), <1>1 DEF Accounting, TypeOK
  <1>3. ASSUME NEW i \in Active' PROVE Paid(i)'
    <2>1. peers'[i].addr \in Endpoints /\ peers'[i].bytesOut \in Nat
      BY Zenon DEF TypeOK, Slot, Active
    <2>2. CASE peers'[i].bytesOut = 0
      BY SMTT(60), <1>1, <1>2, <2>1, <2>2 DEF Paid
    <2>3. CASE /\ i \in Active /\ peers'[i].addr = peers[i].addr
               /\ peers'[i].bytesOut = peers[i].bytesOut
      <3>1. Paid(i)
        BY Zenon, <2>3 DEF Accounting, Paid
      <3>2. sent[peers[i].addr] \in Nat
        BY Zenon, <2>1, <2>3 DEF TypeOK
      <3> QED
        BY SMT, <1>1, <2>1, <2>3, <3>1, <3>2 DEF Paid
    <2> QED
      BY Zenon, <2>2, <2>3
  <1> QED
    BY Zenon, <1>2, <1>3 DEF Accounting, Paid

\* The steps that are no system call owe nothing and credit nobody: a new peer
\* starts from zero, the others keep their counters or leave.
LEMMA AccountingByOthers ==
  ASSUME TypeOK, TypeOK', Accounting,
         \/ Main \/ TimeoutWake \/ TimeoutSweep \/ Tick
         \/ \E dst \in Pool \cup {BroadcastIp} : TunRead(dst)
         \/ UNCHANGED vars
  PROVE  Accounting'
  <1> DEFINE Credits ==
        \A i \in Active' :
          \/ /\ i \in Active /\ peers'[i].addr = peers[i].addr
             /\ peers'[i].bytesOut = peers[i].bytesOut
          \/ peers'[i].bytesOut = 0
  <1>1. AccountsFirst' /\ \A e : Owing(e)' \subseteq Owing(e)
    <2>1. AccountsFirst
      BY Zenon DEF Accounting
    <2>2. CASE UNCHANGED todo
      BY Zenon, <2>1, <2>2 DEF AccountsFirst, Owing
    <2>3. ASSUME NEW t \in Threads, Requeued(t)
          PROVE  AccountsFirst' /\ \A e : Owing(e)' \subseteq Owing(e)
      BY ZenonT(60), <2>1, <2>3, RequeuedOwing
    <2>4. "main" \in Threads /\ "timeout" \in Threads /\ "tun" \in Threads
      BY DEF Threads
    <2>5. CASE Main
      <3>1. UNCHANGED todo \/ Requeued("main")
        BY Zenon, <2>5, MainQueues, RegisterQueues, DisconnectQueues, KindsOfWork
           DEF Requeued
      <3> QED
        BY Zenon, <2>2, <2>3, <2>4, <3>1
    <2>6. CASE TimeoutSweep
      BY Zenon, <2>3, <2>4, <2>6, SweepQueues DEF Requeued
    <2>7. ASSUME NEW dst, TunRead(dst) PROVE Requeued("tun")
      BY Zenon, <2>7, TunQueues, KindsOfWork DEF Requeued
    <2>8. CASE TimeoutWake \/ Tick \/ UNCHANGED vars
      BY Zenon, <2>2, <2>8 DEF TimeoutWake, Tick, vars
    <2> QED
      BY Zenon, <2>3, <2>4, <2>5, <2>6, <2>7, <2>8
  <1>2. sent' = sent
    BY ZenonT(60)
       DEF Main, RegisterKnown, RegisterNew, AcceptRegisteredSequence,
           DropReplayed, RejectRegister, HandleNothing, HandleData,
           HandleKeepalive, HandleKeepaliveAck, HandleDisconnect, TimeoutWake,
           TimeoutSweep, Tick, TunRead, vars, history
  <1>3. Credits
    <2>1. ASSUME Kept, CountsKept PROVE Credits
      BY Zenon, <2>1 DEF Kept, SameId, CountsKept, Active
    <2>2. ASSUME NEW e, NEW i \in Slots, NEW v, NEW seq,
                 peers' = [peers EXCEPT ![i] = NewPeer(e, v, seq)]
          PROVE  Credits
      <3>1. NewPeer(e, v, seq).bytesOut = 0
        BY Zenon DEF NewPeer
      <3>2. \A j \in Slots :
              peers'[j] = IF j = i THEN NewPeer(e, v, seq) ELSE peers[j]
        BY Zenon, <2>2 DEF TypeOK
      <3> QED
        BY Zenon, <3>1, <3>2 DEF Active
    <2>3. ASSUME NEW S \in SUBSET Active, Removed(S) PROVE Credits
      <3>1. FreeSlot.bytesOut = 0
        BY Zenon DEF FreeSlot
      <3> QED
        BY Zenon, <2>3, <3>1 DEF Removed, Active
    <2>4. CASE UNCHANGED tableVars
      BY Zenon, <2>4 DEF tableVars, Active
    <2>5. CASE Main
      <3>1. CASE CountsKept
        <4>1. [Next]_vars
          BY Zenon, <2>5 DEF Next
        <4> QED
          BY Zenon, <2>1, <2>2, <2>3, <3>1, <4>1, TableStep DEF Added
      <3>2. ASSUME NEW e \in Endpoints, NEW seq \in SeqNums, RegisterNew(e, seq)
            PROVE  Credits
        BY Zenon, <2>2, <3>2 DEF RegisterNew
      <3>3. CASE HandleDisconnect
        BY Zenon, <2>3, <3>3, RemovedByDisconnect
      <3> QED
        BY Zenon, <2>5, <3>1, <3>2, <3>3, CountsKeptByMain
    <2>6. CASE TimeoutSweep
      BY Zenon, <2>3, <2>6, RemovedBySweep
    <2> QED
      BY Zenon, <2>4, <2>5, <2>6 DEF TimeoutWake, Tick, TunRead, vars
  <1> QED
    BY Zenon, <1>1, <1>2, <1>3, AccountingKept

\* A send that worked adds one to what was sent and one to what is owed.
LEMMA AccountingBySend ==
  ASSUME TypeOK, TypeOK', Accounting, NEW t \in Threads, NEW d, Sent(t, d)
  PROVE  Accounting'
  <1>1. /\ d.addr \in Endpoints /\ AccountsFirst' /\ UNCHANGED peers
        /\ sent' = [sent EXCEPT ![d.addr] = @ + 1]
    BY Zenon DEF Sent, Snapshot
  <1> DEFINE C(e) == Cardinality(Owing(e))
             D(e) == Cardinality(Owing(e)')
  <1>2. ASSUME NEW e \in Endpoints
        PROVE  /\ C(e) \in Nat /\ D(e) \in Nat
               /\ sent[e] \in Nat /\ sent'[e] \in Nat
               /\ \/ D(e) = C(e) /\ sent'[e] = sent[e]
                  \/ D(e) = C(e) + 1 /\ sent'[e] = sent[e] + 1
    <2>1. Owing(e) \in SUBSET Threads /\ Owing(e)' \in SUBSET Threads
      BY Zenon DEF Owing
    <2>2. /\ C(e) \in Nat /\ D(e) \in Nat /\ IsFiniteSet(Owing(e))
          /\ sent[e] \in Nat /\ sent'[e] \in Nat
      BY Zenon, <2>1, OwingFinite DEF TypeOK
    <2>3. CASE e = d.addr
      <3>1. Owing(e)' = Owing(e) \cup {t} /\ t \notin Owing(e)
        BY Zenon, <2>3 DEF Sent
      <3>2. D(e) = C(e) + 1
        BY Zenon, <2>2, <3>1, FS_AddElement
      <3>3. sent'[e] = sent[e] + 1
        BY Zenon, <1>1, <2>3 DEF TypeOK
      <3> HIDE DEF C, D
      <3> QED
        BY Zenon, <2>2, <3>2, <3>3
    <2>4. CASE e # d.addr
      <3>1. Owing(e)' = Owing(e)
        BY Zenon, <2>4 DEF Sent
      <3>2. sent'[e] = sent[e]
        BY Zenon, <1>1, <2>4 DEF TypeOK
      <3>3. D(e) = C(e)
        BY Zenon, <3>1
      <3> HIDE DEF C, D
      <3> QED
        BY Zenon, <2>2, <3>2, <3>3
    <2> QED
      BY Zenon, <2>3, <2>4
  <1>3. ASSUME NEW e \in Endpoints PROVE D(e) <= sent'[e]
    <2>1. C(e) <= sent[e]
      BY Zenon DEF Accounting
    <2> HIDE DEF C, D
    <2> QED
      BY SMT, <1>2, <2>1
  <1>4. ASSUME NEW i \in Active' PROVE Paid(i)'
    <2>1. /\ i \in Active /\ peers' = peers
          /\ peers[i].addr \in Endpoints /\ peers[i].bytesOut \in Nat
      BY Zenon, <1>1 DEF TypeOK, Slot, Active
    <2>2. peers[i].bytesOut + C(peers[i].addr) <= sent[peers[i].addr]
      BY Zenon, <2>1 DEF Accounting
    <2>3. PICK e \in Endpoints, n \in Nat :
            e = peers[i].addr /\ n = peers[i].bytesOut
      BY Zenon, <2>1
    <2> HIDE DEF C, D
    <2>4. n + D(e) <= sent'[e]
      BY SMT, <1>2, <2>2, <2>3
    <2> QED
      BY Zenon, <2>1, <2>3, <2>4 DEF Paid, D
  <1> QED
    BY Zenon, <1>1, <1>3, <1>4 DEF Accounting, Paid

\* An update takes one from what is owed and credits at most one packet, to
\* the peer at the endpoint the packet went to.
LEMMA AccountingByUpdate ==
  ASSUME TypeOK, TypeOK', Accounting, NEW t \in Threads, NEW d, Accounted(t, d)
  PROVE  Accounting'
  <1>1. /\ d.addr \in Endpoints /\ d.idx \in Slots /\ Requeued(t)
        /\ t \in Owing(d.addr) /\ sent' = sent /\ AccountsFirst
    BY Zenon DEF Accounted, Snapshot, Accounting
  <1>2. AccountsFirst' /\ \A e : Owing(e)' = Owing(e) \ {t}
    BY Zenon, <1>1, RequeuedOwing
  <1>3. CASE ~SamePeer(d)
    <2>1. peers' = peers
      BY Zenon, <1>3 DEF Accounted
    <2> QED
      BY Zenon, <1>1, <1>2, <2>1, AccountingKept DEF Active
  <1>4. CASE SamePeer(d)
    <2> DEFINE C(e) == Cardinality(Owing(e))
               D(e) == Cardinality(Owing(e)')
               a == d.addr
               k == d.idx
    <2>1. \A e : Owing(e) \in SUBSET Threads /\ Owing(e)' \in SUBSET Threads
      BY Zenon DEF Owing
    <2>2. \A e : C(e) \in Nat /\ D(e) \in Nat /\ IsFiniteSet(Owing(e))
      BY Zenon, <2>1, OwingFinite
    <2>3. \A e : D(e) <= C(e)
      BY Zenon, <1>2, <2>2, FS_Subset
    <2>4. D(a) = C(a) - 1
      BY Zenon, <1>1, <1>2, <2>2, FS_RemoveElement
    <2>5. peers' = [peers EXCEPT ![k] = [peers[k] EXCEPT !.bytesOut = @ + 1]]
      BY Zenon, <1>4 DEF Accounted
    <2>6. k \in Slots /\ peers[k] \in Slot /\ peers[k].active /\ peers[k].addr = a
      BY Zenon, <1>1, <1>4 DEF SamePeer, TypeOK
    <2>7. /\ peers'[k] = [peers[k] EXCEPT !.bytesOut = peers[k].bytesOut + 1]
          /\ \A i \in Slots \ {k} : peers'[i] = peers[i]
      BY Zenon, <2>5, <2>6 DEF TypeOK
    <2>8. /\ peers'[k].bytesOut = peers[k].bytesOut + 1
          /\ peers'[k].addr = a
      BY <2>6, <2>7 DEF Slot
    <2>9. \A e \in Endpoints : C(e) <= sent[e] /\ sent[e] \in Nat
      BY Zenon DEF Accounting, TypeOK
    <2>10. peers[k].bytesOut + C(a) <= sent[a] /\ peers[k].bytesOut \in Nat
             /\ a \in Endpoints
      BY Zenon, <1>1, <2>6 DEF Accounting, Active, Slot
    <2>11. ASSUME NEW i \in Active', i # k PROVE Paid(i)'
      <3>1. /\ peers'[i] = peers[i] /\ i \in Active
            /\ peers[i].bytesOut \in Nat /\ peers[i].addr \in Endpoints
        BY Zenon, <2>7, <2>11 DEF Active, TypeOK, Slot
      <3>2. peers[i].bytesOut + C(peers[i].addr) <= sent[peers[i].addr]
        BY Zenon, <3>1 DEF Accounting
      <3>3. PICK e \in Endpoints, n \in Nat :
              e = peers[i].addr /\ n = peers[i].bytesOut
        BY Zenon, <3>1
      <3> HIDE DEF C, D
      <3>4. n + D(e) <= sent[e]
        BY SMTT(60), <2>2, <2>3, <2>9, <3>2, <3>3
      <3> QED
        BY Zenon, <1>1, <3>1, <3>3, <3>4 DEF Paid, D
    <2>12. Paid(k)'
      <3>1. PICK n \in Nat : n = peers[k].bytesOut
        BY Zenon, <2>10
      <3>2. (n + 1) + D(a) <= sent[a]
        <4> HIDE DEF C, D, a, k
        <4> QED
          BY SMTT(60), <2>2, <2>4, <2>9, <2>10, <3>1
      <3> QED
        BY Zenon, <1>1, <2>8, <3>1, <3>2 DEF Paid
    <2>13. ASSUME NEW e \in Endpoints PROVE D(e) <= sent'[e]
      <3> HIDE DEF C, D
      <3> QED
        BY SMTT(60), <1>1, <2>2, <2>3, <2>9
    <2> QED
      BY Zenon, <1>2, <2>11, <2>12, <2>13 DEF Accounting, Paid
  <1> QED
    BY Zenon, <1>3, <1>4

\* Every step keeps the accounts.
LEMMA AccountingStep ==
  ASSUME TypeOK, Accounting, [Next]_vars PROVE Accounting'
  <1>1. TypeOK' /\ AccountsFirst
    BY Zenon, TypeStep DEF Accounting
  <1>2. ASSUME NEW t \in Threads, Perform(t) PROVE Accounting'
    <2>1. CASE Requeued(t) /\ UNCHANGED <<peers, sent>>
      <3>1. AccountsFirst' /\ \A e : Owing(e)' \subseteq Owing(e)
        BY ZenonT(60), <1>1, <2>1, RequeuedOwing
      <3> QED
        BY Zenon, <1>1, <2>1, <3>1, AccountingKept DEF Active
    <2> QED
      BY Zenon, <1>1, <1>2, <2>1, PerformAccounts, AccountingBySend, AccountingByUpdate
  <1> QED
    BY Zenon, <1>1, <1>2, AccountingByOthers DEF Next

\* The updates still to be done are those that the threads owe.
LEMMA PendingIsOwing ==
  ASSUME TypeOK, AccountsFirst, NEW e
  PROVE  Cardinality(Pending(e)) = Cardinality(Owing(e))
  <1>1. ASSUME NEW t \in Threads, NEW n \in DOMAIN todo[t],
               todo[t][n].op = "account"
        PROVE  n = 1 /\ todo[t] # <<>> /\ todo[t][n] = Head(todo[t])
    <2>1. todo[t] \in Seq(Work)
      BY Zenon DEF TypeOK
    <2>2. todo[t] \notin Seq(NoAccount)
      BY SMT, <1>1, <2>1 DEF NoAccount
    <2>3. todo[t] # <<>> /\ Tail(todo[t]) \in Seq(NoAccount)
      BY Zenon, <2>2 DEF AccountsFirst
    <2>4. n # 1 => n - 1 \in DOMAIN Tail(todo[t]) /\ Tail(todo[t])[n - 1] = todo[t][n]
      BY SMT, <1>1, <2>1, <2>3
    <2>5. \A m \in DOMAIN Tail(todo[t]) : Tail(todo[t])[m].op # "account"
      BY SMT, <2>3 DEF NoAccount
    <2>6. n = 1
      BY Zenon, <1>1, <2>4, <2>5
    <2> QED
      BY SMT, <2>1, <2>3, <2>6
  <1>2. \A t \in Threads : todo[t] # <<>> => 1 \in DOMAIN todo[t] /\ todo[t][1] = Head(todo[t])
    BY SMT DEF TypeOK
  <1> DEFINE Open(t) == {n \in DOMAIN todo[t] :
                           /\ todo[t][n].op = "account"
                           /\ \E d \in todo[t][n].dests : d.addr = e}
             Pairs == {<<t, 1>> : t \in Owing(e)}
  <1>3. ASSUME NEW t \in Owing(e) PROVE t \in Threads /\ 1 \in Open(t)
    <2>1. t \in Threads /\ todo[t] # <<>> /\ Head(todo[t]).op = "account"
            /\ \E d \in Head(todo[t]).dests : d.addr = e
      BY Zenon DEF Owing
    <2>2. 1 \in DOMAIN todo[t] /\ todo[t][1] = Head(todo[t])
      BY Zenon, <1>2, <2>1
    <2> QED
      BY Zenon, <2>1, <2>2
  <1>4. ASSUME NEW t \in Threads, NEW n \in Open(t) PROVE t \in Owing(e) /\ n = 1
    <2>1. n \in DOMAIN todo[t] /\ todo[t][n].op = "account"
            /\ \E d \in todo[t][n].dests : d.addr = e
      BY Zenon, <1>4
    <2>2. n = 1 /\ todo[t] # <<>> /\ todo[t][n] = Head(todo[t])
      BY Zenon, <1>1, <2>1
    <2> QED
      BY Zenon, <2>1, <2>2 DEF Owing
  <1>5. Pending(e) = UNION {{<<t, k>> : k \in Open(t)} : t \in Threads}
    BY Zenon DEF Pending
  <1> HIDE DEF Open
  <1>6. Owing(e) \subseteq Threads
    BY Zenon DEF Owing
  <1>7. Pending(e) \subseteq Pairs
    <2>1. ASSUME NEW p \in Pending(e) PROVE p \in Pairs
      <3>1. PICK t \in Threads : p \in {<<t, k>> : k \in Open(t)}
        BY Zenon, <1>5
      <3>2. PICK k \in Open(t) : p = <<t, k>>
        BY Zenon, <3>1
      <3> QED
        BY Zenon, <1>4, <3>2
    <2> QED
      BY Zenon, <2>1
  <1>8. Pairs \subseteq Pending(e)
    <2>1. ASSUME NEW t \in Owing(e) PROVE <<t, 1>> \in Pending(e)
      <3>1. t \in Threads /\ 1 \in Open(t)
        BY Zenon, <1>3
      <3> DEFINE T == {<<t, k>> : k \in Open(t)}
      <3>2. <<t, 1>> \in T
        BY Zenon, <3>1
      <3>3. T \in {{<<u, k>> : k \in Open(u)} : u \in Threads}
        BY Zenon, <3>1
      <3> HIDE DEF T
      <3> QED
        BY Zenon, <1>5, <3>2, <3>3
    <2> QED
      BY Zenon, <2>1
  <1>9. Pending(e) = Pairs
    BY Zenon, <1>7, <1>8
  <1> DEFINE f == [t \in Owing(e) |-> <<t, 1>>]
  <1>10. f \in [Owing(e) -> Pending(e)]
    BY Zenon, <1>9
  <1>11. \A t, u \in Owing(e) : f[t] = f[u] => t = u
    BY SMT
  <1>12. \A p \in Pending(e) : \E t \in Owing(e) : f[t] = p
    BY Zenon, <1>9
  <1> HIDE DEF f
  <1>13. f \in Bijection(Owing(e), Pending(e))
    BY ZenonT(60), <1>10, <1>11, <1>12 DEF Bijection, Injection, Surjection, IsInjective
  <1>14. ExistsBijection(Owing(e), Pending(e))
    BY Zenon, <1>13 DEF ExistsBijection
  <1>15. IsFiniteSet(Owing(e))
    BY Zenon, <1>6, OwingFinite
  <1> QED
    BY Zenon, <1>14, <1>15, FS_Bijection

\* The accounts bound what is credited and what is still to be credited.
LEMMA AccountedFromAccounting ==
  ASSUME TypeOK, Accounting PROVE AccountedOnce
  BY Zenon, PendingIsOwing DEF Accounting, AccountedOnce

=============================================================================
