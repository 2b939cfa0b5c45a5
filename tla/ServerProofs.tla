---------------------------- MODULE ServerProofs ----------------------------
(***************************************************************************)
(* Safety of the server for every number of slots, endpoints and addresses *)
(* and every value of the other constants.                                 *)
(***************************************************************************)
EXTENDS ServerTableProofs

USE ServerAssumption
-----------------------------------------------------------------------------
(* The copies of slots that the main thread works with. *)

\* The snapshots whose slot is free or still belongs to the same peer.
Current == {d \in Snapshot : peers[d.idx].active => SamePeer(d)}

DestsIn(q, D) == \A k \in DOMAIN q : q[k].dests \subseteq D

\* MainSnapshotsCurrent in terms of Current.
LEMMA CurrentIsDestsIn ==
  ASSUME TypeOK
  PROVE  MainSnapshotsCurrent <=> DestsIn(todo["main"], Current)
  <1>1. todo["main"] \in Seq(Work)
    BY DEF TypeOK, Threads
  <1>2. \A k \in DOMAIN todo["main"] : todo["main"][k] \in Work
    BY SMTT(60), <1>1
  <1>3. \A w \in Work : w.dests \in SUBSET Snapshot
    BY SMTT(60) DEF Work
  <1> QED
    BY SMTT(60), <1>2, <1>3 DEF MainSnapshotsCurrent, DestsIn, Current

\* Destinations of work appended to work.
LEMMA DestsInConcat ==
  ASSUME NEW D, NEW q \in Seq(Work), NEW r \in Seq(Work),
         DestsIn(q, D), DestsIn(r, D)
  PROVE  DestsIn(q \o r, D)
  BY DEF DestsIn

\* Destinations of the work that remains.
LEMMA DestsInTail ==
  ASSUME NEW D, NEW q \in Seq(Work), q # <<>>, DestsIn(q, D)
  PROVE  Head(q).dests \subseteq D /\ DestsIn(Tail(q), D)
  BY SMTT(60) DEF DestsIn

\* Destinations of one piece of work.
LEMMA DestsInSingle ==
  ASSUME NEW D, NEW op, NEW msg, NEW about, NEW dests, NEW bytes,
         dests \subseteq D
  PROVE  /\ DestsIn(<<Do(op, msg, about, dests, bytes)>>, D)
         /\ DestsIn(<<>>, D)
  BY SMTT(60) DEF DestsIn, Do

\* Destinations of a round of sends.
LEMMA DestsInSendAll ==
  ASSUME NEW D, NEW msg, NEW about, NEW dests, NEW bytes, dests \subseteq D
  PROVE  DestsIn(SendAll(msg, about, dests, bytes), D)
  BY ZenonT(60), DestsInSingle DEF SendAll

\* Keeping and removing peers makes no snapshot stale.
LEMMA CurrentGrows ==
  ASSUME TypeOK, Kept \/ \E S \in SUBSET Active : Removed(S)
  PROVE  Current \subseteq Current'
  <1>1. CASE Kept
    <2>1. ASSUME NEW d \in Current PROVE d \in Current'
      <3>1. d \in Snapshot /\ d.idx \in Slots
        BY DEF Current, Snapshot
      <3>2. /\ peers'[d.idx].active = peers[d.idx].active
            /\ peers'[d.idx].vip = peers[d.idx].vip
            /\ peers'[d.idx].addr = peers[d.idx].addr
        BY Zenon, <1>1, <3>1 DEF Kept, SameId
      <3> QED
        BY <3>1, <3>2 DEF Current, SamePeer
    <2> QED
      BY Zenon, <2>1
  <1>2. ASSUME NEW S \in SUBSET Active, Removed(S)
        PROVE  Current \subseteq Current'
    <2>1. ~FreeSlot.active
      BY DEF FreeSlot
    <2> QED
      BY Zenon, <1>2, <2>1 DEF Removed, Current, SamePeer, Snapshot
  <1> QED
    BY Zenon, <1>1, <1>2

\* A snapshot just taken is current.
LEMMA SnapshotsAreCurrent ==
  ASSUME TypeOK
  PROVE  /\ \A i \in Active : SnapshotPeer(i) \in Current
         /\ \A S \in SUBSET Active : SnapshotBroadcast(S) \subseteq Current
  <1>1. ASSUME NEW i \in Active PROVE SnapshotPeer(i) \in Current
    <2>1. SnapshotPeer(i) \in Snapshot
      BY Zenon, SnapshotTypes
    <2> QED
      BY <2>1 DEF SnapshotPeer, Current, SamePeer
  <1> QED
    BY Zenon, <1>1 DEF SnapshotBroadcast

\* What the main thread queues goes to peers that are in the table now.
LEMMA MainTodoCurrent ==
  ASSUME TypeOK, Main, DestsIn(todo["main"], Current)
  PROVE  DestsIn(todo'["main"], Current')
  <1> DEFINE Goal == DestsIn(todo'["main"], Current')
  <1>0. \A D, E : D \subseteq E /\ DestsIn(todo["main"], D) =>
                   DestsIn(todo["main"], E)
    BY Zenon  DEF DestsIn
  <1>1. ASSUME NEW q, Queue("main", q) PROVE todo'["main"] = q
    BY Zenon, <1>1 DEF Queue, TypeOK, Threads
  <1>2. ASSUME Current \subseteq Current', UNCHANGED todo PROVE Goal
    BY Zenon, <1>0, <1>2
  <1>3. ASSUME NEW e \in Endpoints, NEW seq \in SeqNums, RegisterKnown(e, seq)
        PROVE  Goal
    <2>1. PICK i \in Active :
            Queue("main", SendAll("ASSIGN", {SnapshotPeer(i)},
                                  {SnapshotPeer(i)}, 0))
      BY Zenon, <1>3 DEF RegisterKnown, FindPeerByAddr, IsFirst, SlotsByAddr
    <2>2. Current \subseteq Current'
      BY Zenon, <1>3, KeptByRegisterKnown, CurrentGrows
    <2> DEFINE self == {SnapshotPeer(i)}
    <2>3. self \subseteq Current'
      BY Zenon, <2>2, SnapshotsAreCurrent
    <2>4. todo'["main"] = SendAll("ASSIGN", self, self, 0)
      BY Zenon, <1>1, <2>1
    <2> HIDE DEF self
    <2> QED
      BY SMTT(60), <2>3, <2>4, DestsInSendAll
  <1>4. ASSUME NEW e \in Endpoints, NEW seq \in SeqNums, RegisterNew(e, seq)
        PROVE  Goal
    <2>1. PICK i \in Slots, v \in Pool :
            /\ FindFreeSlot(i)
            /\ peers' = [peers EXCEPT ![i] = NewPeer(e, v, seq)]
            /\ Queue("main", RegisterWork([idx |-> i, vip |-> v, addr |-> e],
                                          SnapshotBroadcast(Active)))
      BY ZenonT(60), <1>4 DEF RegisterNew
    <2> DEFINE self == [idx |-> i, vip |-> v, addr |-> e]
               others == SnapshotBroadcast(Active)
    <2>2. self \in Snapshot /\ others \in SUBSET Snapshot
      BY SnapshotTypes DEF Snapshot
    <2>3. self \in Current'
      <3>1. peers'[i] = NewPeer(e, v, seq)
        BY ZenonT(60), <2>1 DEF TypeOK
      <3>2. SamePeer(self)'
        BY <3>1, SMTT(30) DEF SamePeer, NewPeer
      <3> QED
        BY Zenon, <2>2, <3>2 DEF Current
    <2>4. others \subseteq Current'
      <3>1. ASSUME NEW j \in Active PROVE SnapshotPeer(j) \in Current'
        <4>1. j # i /\ j \in Slots
          BY SMTT(60), <2>1 DEF FindFreeSlot, IsFirst, Active
        <4>2. peers'[j] = peers[j]
          BY ZenonT(60), <2>1, <4>1 DEF TypeOK
        <4>3. PICK d \in Snapshot : d = SnapshotPeer(j)
          BY Zenon, SnapshotTypes
        <4>4. SamePeer(d)'
          BY Zenon, <4>2, <4>3 DEF SamePeer, SnapshotPeer, Active
        <4> QED
          BY Zenon, <4>3, <4>4 DEF Current
      <3> QED
        BY SMTT(60), <3>1 DEF SnapshotBroadcast
    <2>5. Queue("main", RegisterWork(self, others))
      BY SMTT(60), <2>1
    <2>6. {self} \subseteq Current'
      BY Zenon, <2>3
    <2> HIDE DEF self, others
    <2> DEFINE list == PeerList(others)
               q1 == SendAll("ASSIGN", {self}, {self}, 0)
               q2 == Event("PEER_JOIN", self)
               q3 == SendAll("PEER_LIST", list, {self}, 0)
               q4 == SendAll("PEER_JOIN", {self}, others, 0)
    <2>7. list \in SUBSET Snapshot
      BY SMTT(60), <2>2 DEF PeerList
    <2>8. todo'["main"] = q1 \o q2 \o q3 \o q4
      BY ZenonT(60), <1>1, <2>5 DEF RegisterWork
    <2> HIDE DEF list
    <2>9. /\ q1 \in Seq(Work) /\ q2 \in Seq(Work)
          /\ q3 \in Seq(Work) /\ q4 \in Seq(Work)
      BY ZenonT(60), <2>2, <2>7, SendAllType, OtherWorkTypes, KindsOfWork, BytesTypes
         DEF Msgs
    <2>10. /\ DestsIn(q1, Current') /\ DestsIn(q2, Current')
           /\ DestsIn(q3, Current') /\ DestsIn(q4, Current')
      BY <2>4, <2>6, DestsInSingle, DestsInSendAll DEF Event
    <2> HIDE DEF q1, q2, q3, q4
    <2>11. q1 \o q2 \in Seq(Work) /\ DestsIn(q1 \o q2, Current')
      BY Zenon, <2>9, <2>10, ConcatType, DestsInConcat
    <2>12. q1 \o q2 \o q3 \in Seq(Work) /\ DestsIn(q1 \o q2 \o q3, Current')
      BY Zenon, <2>9, <2>10, <2>11, ConcatType, DestsInConcat
    <2> QED
      BY Zenon, <2>8, <2>9, <2>10, <2>12, DestsInConcat
  <1>5. ASSUME NEW dst, HandleData(dst) PROVE Goal
    <2>1. PICK i \in Slots :
            Queue("main", IF dst = ServerIp THEN TunWrite
                          ELSE Forward(dst, Active \ {i})
                                 \o (IF dst = BroadcastIp THEN TunWrite
                                                          ELSE <<>>))
      BY ZenonT(60), <1>5 DEF HandleData
    <2> DEFINE f == Forward(dst, Active \ {i})
               tun == IF dst = BroadcastIp THEN TunWrite ELSE <<>>
    <2>2. Current \subseteq Current'
      BY Zenon, <1>5, KeptByHandlers, CurrentGrows
    <2>3. f \in Seq(Work) /\ tun \in Seq(Work)
      <3>1. f \in Seq(Work) /\ TunWrite \in Seq(Work)
        BY Zenon, ForwardType, OtherWorkTypes, KindsOfWork
      <3>2. <<>> \in Seq(Work)
        BY SMT
      <3> QED
        BY Zenon, <3>1, <3>2
    <2>4. DestsIn(TunWrite, Current') /\ DestsIn(tun, Current')
      BY Zenon, DestsInSingle, DestsInSendAll DEF TunWrite
    <2>5. {j \in Slots : FindPeerByVip(j, dst)} \in SUBSET Active
      BY Zenon  DEF FindPeerByVip, IsFirst, SlotsByVip
    <2>6. DestsIn(f, Current')
      BY Zenon, <2>2, <2>5, SnapshotsAreCurrent, DestsInSingle, DestsInSendAll DEF Forward
    <2>7. todo'["main"] = IF dst = ServerIp THEN TunWrite ELSE f \o tun
      BY Zenon, <1>1, <2>1
    <2> HIDE DEF f, tun
    <2> QED
      BY ZenonT(60), <2>3, <2>4, <2>6, <2>7, DestsInConcat
  <1>6. CASE HandleKeepalive
    <2>1. PICK i \in Active :
            Queue("main", SendAll("KEEPALIVE_ACK", {}, {SnapshotPeer(i)}, 0))
      BY ZenonT(60), <1>6 DEF HandleKeepalive, FindPeerByAddr, IsFirst, SlotsByAddr
    <2>2. Current \subseteq Current'
      BY ZenonT(60), <1>6, KeptByHandlers, CurrentGrows
    <2> DEFINE self == {SnapshotPeer(i)}
    <2>3. self \subseteq Current'
      BY Zenon, <2>2, SnapshotsAreCurrent
    <2>4. todo'["main"] = SendAll("KEEPALIVE_ACK", {}, self, 0)
      BY Zenon, <1>1, <2>1
    <2> HIDE DEF self
    <2> QED
      BY SMTT(60), <2>3, <2>4, DestsInSendAll
  <1>7. CASE HandleDisconnect
    <2>1. PICK i \in Active :
            Queue("main",
              SendAll("PEER_LEAVE", {SnapshotPeer(i)},
                      SnapshotBroadcast(Active \ {i}), 0)
                \o Event("PEER_LEAVE", SnapshotPeer(i)))
      BY Zenon, <1>7 DEF HandleDisconnect, FindPeerByAddr, IsFirst, SlotsByAddr
    <2> DEFINE self == SnapshotPeer(i)
               rest == SnapshotBroadcast(Active \ {i})
               q1 == SendAll("PEER_LEAVE", {self}, rest, 0)
               q2 == Event("PEER_LEAVE", self)
    <2>2. Current \subseteq Current'
      BY Zenon, <1>7, RemovedByDisconnect, CurrentGrows
    <2>3. /\ self \in Snapshot /\ rest \in SUBSET Snapshot
          /\ rest \subseteq Current'
      BY Zenon, <2>2, SnapshotTypes, SnapshotsAreCurrent
    <2>4. todo'["main"] = q1 \o q2
      BY Zenon, <1>1, <2>1
    <2> HIDE DEF self, rest
    <2>5. q1 \in Seq(Work) /\ q2 \in Seq(Work)
      BY ZenonT(60), <2>3, SendAllType, OtherWorkTypes, KindsOfWork, BytesTypes
         DEF Msgs
    <2>6. DestsIn(q1, Current') /\ DestsIn(q2, Current')
      BY Zenon, <2>3, DestsInSingle, DestsInSendAll DEF Event
    <2> HIDE DEF q1, q2
    <2> QED
      BY Zenon, <2>4, <2>5, <2>6, DestsInConcat
  <1>8. ASSUME NEW type \in Requests, NEW e \in Endpoints,
               NEW seq \in SeqNums, AcceptRegisteredSequence(type, e, seq)
        PROVE  Goal
    BY Zenon, <1>2, <1>8, KeptByAccept, CurrentGrows DEF AcceptRegisteredSequence
  <1>9. CASE HandleKeepaliveAck
    BY ZenonT(60), <1>2, <1>9, KeptByHandlers, CurrentGrows DEF HandleKeepaliveAck
  <1>10. CASE UNCHANGED tableVars /\ UNCHANGED todo
    BY Zenon, <1>2, <1>10, KeptByUnchanged, CurrentGrows
  <1> QED
    BY ZenonT(60), <1>3, <1>4, <1>5, <1>6, <1>7, <1>8, <1>9, <1>10
       DEF Main, DropReplayed, RejectRegister, HandleNothing, vars

\* What remains after a system call goes to the same peers.
LEMMA PerformCurrent ==
  ASSUME TypeOK, NEW t \in Threads, Perform(t), DestsIn(todo["main"], Current)
  PROVE  DestsIn(todo'["main"], Current')
  <1> DEFINE Goal == DestsIn(todo'["main"], Current')
             w == Head(todo[t])
             tail == Tail(todo[t])
  <1>1. Current \subseteq Current'
    BY Zenon, KeptByPerform, CurrentGrows
  <1>2. \A D, E : D \subseteq E /\ DestsIn(todo["main"], D) =>
                   DestsIn(todo["main"], E)
    BY DEF DestsIn
  <1>3. ASSUME NEW q, Queue(t, q)
        PROVE  todo'["main"] = IF t = "main" THEN q ELSE todo["main"]
    BY Zenon, <1>3 DEF Queue, TypeOK, Threads
  <1>4. \E q : Queue(t, q)
    BY ZenonT(60) DEF Perform, PerformSend, PerformAccount, PerformEvent, PerformLeaves,
           PerformTun
  <1>5. CASE t # "main"
    BY Zenon, <1>1, <1>2, <1>3, <1>4, <1>5
  <1>6. CASE t = "main"
    <2>1. w \in Work /\ tail \in Seq(Work)
      BY Zenon, HeadTail DEF Perform
    <2>2. w.dests \subseteq Current' /\ DestsIn(tail, Current')
      <3>1. todo[t] \in Seq(Work) /\ todo[t] # <<>>
        BY Zenon, HeadTail DEF Perform, TypeOK
      <3>2. w.dests \subseteq Current /\ DestsIn(tail, Current)
        BY Zenon, <1>6, <3>1, DestsInTail
      <3> QED
        BY Zenon, <1>1, <3>2 DEF DestsIn
    <2>3. CASE Queue(t, tail)
      BY SMTT(60), <1>3, <1>6, <2>2, <2>3
    <2>4. CASE PerformSend(t)
      <3>1. PICK d \in w.dests :
              LET rest == SendAll(w.msg, w.about, w.dests \ {d}, w.bytes)
                            \o tail
              IN  \/ Queue(t, rest)
                  \/ Queue(t, <<Do("account", w.msg, {}, {d}, w.bytes)>>
                                \o rest)
        BY Zenon, <2>4 DEF PerformSend
      <3> DEFINE left == w.dests \ {d}
                 one == {d}
                 send == SendAll(w.msg, w.about, left, w.bytes)
                 account == <<Do("account", w.msg, {}, one, w.bytes)>>
      <3>2. /\ w.msg \in Msgs /\ w.about \in SUBSET Snapshot
            /\ w.bytes \in 0 .. 1
            /\ left \in SUBSET Snapshot /\ one \in SUBSET Snapshot
        BY Zenon, <2>1 DEF Work, Msgs
      <3>3. left \subseteq Current' /\ one \subseteq Current'
        BY <2>2
      <3>4. \/ todo'["main"] = send \o tail
            \/ todo'["main"] = account \o (send \o tail)
        BY ZenonT(60), <1>3, <1>6, <3>1
      <3> HIDE DEF left, one, w, tail
      <3>5. account \in Seq(Work) /\ DestsIn(account, Current')
        BY ZenonT(60), <3>2, <3>3, DoType, DestsInSingle DEF Ops
      <3>6. send \in Seq(Work) /\ DestsIn(send, Current')
        BY Zenon, <3>2, <3>3, SendAllType, DestsInSendAll
      <3> HIDE DEF send, account
      <3>7. send \o tail \in Seq(Work) /\ DestsIn(send \o tail, Current')
        BY ZenonT(60), <2>1, <2>2, <3>6, ConcatType, DestsInConcat
      <3>8. DestsIn(account \o (send \o tail), Current')
        BY Zenon, <3>5, <3>7, DestsInConcat
      <3> QED
        BY Zenon, <3>4, <3>7, <3>8
    <2>5. CASE PerformLeaves(t)
      <3>1. PICK s \in w.about :
              Queue(t, SendAll(w.msg, {s}, w.dests, 0)
                         \o (IF w.about = {s} THEN <<>>
                             ELSE <<Do(w.op, w.msg, w.about \ {s}, w.dests, 0)>>)
                         \o tail)
        BY ZenonT(60), <2>5 DEF PerformLeaves
      <3> DEFINE left == w.about \ {s}
                 one == {s}
                 send == SendAll(w.msg, one, w.dests, 0)
                 more == IF w.about = one THEN <<>>
                         ELSE <<Do(w.op, w.msg, left, w.dests, 0)>>
      <3>2. /\ w.op \in Ops /\ w.msg \in Msgs
            /\ one \in SUBSET Snapshot /\ left \in SUBSET Snapshot
            /\ w.dests \in SUBSET Snapshot
        BY <2>1 DEF Work, Ops, Msgs
      <3>3. todo'["main"] = send \o more \o tail
        BY Zenon, <1>3, <1>6, <3>1
      <3> HIDE DEF left, one, w, tail
      <3>4. send \in Seq(Work) /\ DestsIn(send, Current')
        BY <2>2, <3>2, SendAllType, DestsInSendAll, SMTT(30)
      <3>5. more \in Seq(Work) /\ DestsIn(more, Current')
        <4>1. <<Do(w.op, w.msg, left, w.dests, 0)>> \in Seq(Work)
          BY <3>2, DoType, SMTT(30)
        <4>2. DestsIn(<<Do(w.op, w.msg, left, w.dests, 0)>>, Current')
          BY Zenon, <2>2, DestsInSingle
        <4>3. <<>> \in Seq(Work) /\ DestsIn(<<>>, Current')
          BY SMTT(60) DEF DestsIn
        <4> QED
          BY Zenon, <4>1, <4>2, <4>3
      <3> HIDE DEF send, more
      <3>6. send \o more \in Seq(Work) /\ DestsIn(send \o more, Current')
        BY Zenon, <3>4, <3>5, ConcatType, DestsInConcat
      <3> QED
        BY Zenon, <2>1, <2>2, <3>3, <3>6, DestsInConcat
    <2> QED
      BY Zenon, <2>3, <2>4, <2>5
         DEF Perform, PerformAccount, PerformEvent, PerformTun
  <1> QED
    BY <1>5, <1>6

\* Every step keeps the snapshots of the main thread current: only its own
\* steps add peers, and it registers nobody before its work is done.
LEMMA MainSnapshotsStep ==
  ASSUME TypeOK, MainSnapshotsCurrent, [Next]_vars
  PROVE  MainSnapshotsCurrent'
  <1>1. DestsIn(todo["main"], Current)
    BY Zenon, CurrentIsDestsIn
  <1>2. SUFFICES DestsIn(todo'["main"], Current')
    BY SMTT(60) DEF MainSnapshotsCurrent, DestsIn, Current
  <1>3. ASSUME Current \subseteq Current', todo'["main"] = todo["main"]
        PROVE  DestsIn(todo'["main"], Current')
    BY Zenon, <1>1, <1>3 DEF DestsIn
  <1>4. CASE TimeoutSweep
    <2>1. todo'["main"] = todo["main"]
      BY Zenon, <1>4 DEF TimeoutSweep, Queue, TypeOK, Threads
    <2> QED
      BY Zenon, <1>3, <1>4, <2>1, RemovedBySweep, CurrentGrows
  <1>5. ASSUME UNCHANGED tableVars, todo'["main"] = todo["main"]
        PROVE  DestsIn(todo'["main"], Current')
    BY Zenon, <1>3, <1>5, KeptByUnchanged, CurrentGrows
  <1>6. ASSUME NEW dst, TunRead(dst) PROVE todo'["main"] = todo["main"]
    BY Zenon, <1>6 DEF TunRead, Queue, TypeOK, Threads
  <1> QED
    BY ZenonT(60), <1>1, <1>4, <1>5, <1>6, MainTodoCurrent, PerformCurrent
       DEF Next, TimeoutWake, Tick, TunRead, vars

-----------------------------------------------------------------------------
(* What the peers and the host have been told, while nobody is evicted. *)

Items(q) == {q[k] : k \in DOMAIN q}
Arrivals == {"PEER_LIST", "PEER_JOIN"}
Departures == {"PEER_LEAVE"}

\* w tells endpoint e of address v; w is an event about v.
Tells(w, msgs, e, v) ==
  /\ w.op = "send" /\ w.msg \in msgs
  /\ \E d \in w.dests : d.addr = e
  /\ \E s \in w.about : s.vip = v
Shows(w, msg, v) ==
  w.op = "event" /\ w.msg = msg /\ \E s \in w.about : s.vip = v

\* What a queue says is what its items say.
LEMMA SaysItems ==
  ASSUME NEW q
  PROVE  /\ \A msgs, e, v : v \in Says(q, msgs, e) <=>
              v \in Pool /\ \E w \in Items(q) : Tells(w, msgs, e, v)
         /\ \A msg, v : v \in Emits(q, msg) <=>
              v \in Pool /\ \E w \in Items(q) : Shows(w, msg, v)
  <1>1. ASSUME NEW msgs, NEW e, NEW v
        PROVE  v \in Says(q, msgs, e) <=>
                 v \in Pool /\ \E w \in Items(q) : Tells(w, msgs, e, v)
    BY Zenon DEF Says, Items, Tells
  <1>2. ASSUME NEW msg, NEW v
        PROVE  v \in Emits(q, msg) <=>
                 v \in Pool /\ \E w \in Items(q) : Shows(w, msg, v)
    BY Zenon DEF Emits, Items, Shows
  <1> QED
    BY Zenon, <1>1, <1>2

\* The items of queues put together.
LEMMA ItemsOf ==
  /\ Items(<<>>) = {}
  /\ \A w \in Work : Items(<<w>>) = {w}
  /\ \A q, r \in Seq(Work) : Items(q \o r) = Items(q) \cup Items(r)
  /\ \A q \in Seq(Work) : q # <<>> => Items(q) = {Head(q)} \cup Items(Tail(q))
  <1>1. Items(<<>>) = {}
    BY SMT DEF Items
  <1>2. \A w \in Work : Items(<<w>>) = {w}
    BY SMT DEF Items
  <1>3. ASSUME NEW q \in Seq(Work), NEW r \in Seq(Work)
        PROVE  Items(q \o r) = Items(q) \cup Items(r)
    <2>1. ASSUME NEW k \in DOMAIN (q \o r)
          PROVE  (q \o r)[k] \in Items(q) \cup Items(r)
      <3>1. CASE k <= Len(q)
        <4>1. k \in DOMAIN q /\ (q \o r)[k] = q[k]
          BY SMT, <3>1
        <4> QED
          BY Zenon, <4>1 DEF Items
      <3>2. CASE ~(k <= Len(q))
        <4>1. k - Len(q) \in DOMAIN r /\ (q \o r)[k] = r[k - Len(q)]
          BY SMT, <3>2
        <4> QED
          BY Zenon, <4>1 DEF Items
      <3> QED
        BY Zenon, <3>1, <3>2
    <2>2. ASSUME NEW k \in DOMAIN q PROVE q[k] \in Items(q \o r)
      <3>1. k \in DOMAIN (q \o r) /\ (q \o r)[k] = q[k]
        BY SMT
      <3> QED
        BY Zenon, <3>1 DEF Items
    <2>3. ASSUME NEW k \in DOMAIN r PROVE r[k] \in Items(q \o r)
      <3>1. k + Len(q) \in DOMAIN (q \o r) /\ (q \o r)[k + Len(q)] = r[k]
        BY SMT
      <3> QED
        BY Zenon, <3>1 DEF Items
    <2>4. Items(q \o r) \subseteq Items(q) \cup Items(r)
      BY Zenon, <2>1 DEF Items
    <2>5. Items(q) \cup Items(r) \subseteq Items(q \o r)
      BY Zenon, <2>2, <2>3 DEF Items
    <2> QED
      BY Zenon, <2>4, <2>5
  <1>4. ASSUME NEW q \in Seq(Work), q # <<>>
        PROVE  Items(q) = {Head(q)} \cup Items(Tail(q))
    <2>1. /\ Head(q) \in Work /\ <<Head(q)>> \in Seq(Work)
          /\ Tail(q) \in Seq(Work)
      BY SMT, <1>4
    <2>2. <<Head(q)>> \o Tail(q) = q
      BY SMT, <1>4
    <2>3. Items(<<Head(q)>> \o Tail(q)) = Items(<<Head(q)>>) \cup Items(Tail(q))
      BY Zenon, <1>3, <2>1
    <2>4. Items(<<Head(q)>>) = {Head(q)}
      BY Zenon, <1>2, <2>1
    <2> QED
      BY Zenon, <2>2, <2>3, <2>4
  <1> QED
    BY Zenon, <1>1, <1>2, <1>3, <1>4

\* Work that tells nobody anything.
Mute(w) ==
  /\ \A msgs \in {Arrivals, Departures} : \A e, v : ~Tells(w, msgs, e, v)
  /\ \A msg, v : ~Shows(w, msg, v)

\* Messages that are no news, updates of counters and packets are mute.
LEMMA MuteWork ==
  /\ \A w : w.op \notin {"send", "event"} => Mute(w)
  /\ \A w \in Silent : Mute(w)
  /\ Quiet \subseteq Silent
  /\ Quiet \subseteq Unmixed(Arrivals) /\ Quiet \subseteq Unmixed(Departures)
  <1>1. \A w : w.op \notin {"send", "event"} => Mute(w)
    BY Zenon DEF Mute, Tells, Shows
  <1>2. ASSUME NEW w \in Silent PROVE Mute(w)
    <2>1. w.op \in {"send", "account", "tun"} /\ w.msg \notin News
      BY Zenon DEF Silent
    <2>2. w.op # "event"
      BY <2>1
    <2>3. w.msg \notin Arrivals /\ w.msg \notin Departures
      BY Zenon, <2>1 DEF News, Arrivals, Departures
    <2> QED
      BY Zenon, <2>2, <2>3 DEF Mute, Tells, Shows
  <1>3. ASSUME NEW w \in Quiet
        PROVE  /\ w \in Silent
               /\ w \in Unmixed(Arrivals) /\ w \in Unmixed(Departures)
    <2>1. w \in Work /\ w.op \in {"send", "tun"} /\ w.msg \notin News
      BY Zenon DEF Quiet
    <2>2. w.op # "event" /\ w.op # "leaves" /\ w.op \in {"send", "account", "tun"}
      BY <2>1
    <2>3. w.msg \notin Arrivals /\ w.msg \notin Departures
      BY Zenon, <2>1 DEF News, Arrivals, Departures
    <2> QED
      BY Zenon, <2>1, <2>2, <2>3 DEF Silent, Unmixed
  <1> QED
    BY Zenon, <1>1, <1>2, <1>3

\* A queue of quiet work says nothing.
LEMMA QuietSaysNothing ==
  ASSUME NEW q \in Seq(Quiet)
  PROVE  /\ \A e : Says(q, Arrivals, e) = {} /\ Says(q, Departures, e) = {}
         /\ \A msg : Emits(q, msg) = {}
  <1>1. Items(q) \subseteq Quiet
    BY SMT DEF Items
  <1>2. \A w \in Items(q) : Mute(w)
    BY Zenon, <1>1, MuteWork
  <1>3. ASSUME NEW e, NEW v, NEW M \in {Arrivals, Departures}
        PROVE  v \notin Says(q, M, e)
    BY Zenon, <1>2, SaysItems DEF Mute
  <1>4. ASSUME NEW msg, NEW v PROVE v \notin Emits(q, msg)
    BY Zenon, <1>2, SaysItems DEF Mute
  <1> QED
    BY Zenon, <1>3, <1>4

\* Telling, with the two kinds of news named.
TellingInv ==
  /\ pkt # None => Idle("main")
  /\ \A t \in Threads \ {"main"} : todo[t] \in Seq(Silent)
  /\ \/ todo["main"] \in Seq(Unmixed(Departures))
     \/ todo["main"] \in Seq(Unmixed(Arrivals))
  /\ \A i \in Active :
       WillTell(peers[i].addr) = {peers[j].vip : j \in Active \ {i}}
  /\ WillShow = {peers[i].vip : i \in Active}

\* What is in WillTell and in WillShow.
LEMMA WillTellIs ==
  /\ Telling <=> TellingInv
  /\ \A e, v : v \in WillTell(e) <=>
       /\ v \in told[e] \/ v \in Says(todo["main"], Arrivals, e)
       /\ v \notin Says(todo["main"], Departures, e)
  /\ \A v : v \in WillShow <=>
       /\ v \in hostView \/ v \in Emits(todo["main"], "PEER_JOIN")
       /\ v \notin Emits(todo["main"], "PEER_LEAVE")
  <1>1. Telling <=> TellingInv
    BY Zenon DEF Telling, TellingInv, Arrivals, Departures
  <1> QED
    BY Zenon, <1>1 DEF WillTell, WillShow, Arrivals, Departures

\* The set of work without one kind of news.
LEMMA UnmixedIs ==
  /\ \A w \in Work :
       w \in Unmixed(Arrivals) \/ w \in Unmixed(Departures) =>
         /\ w.op # "leaves"
         /\ w.op = "event" => /\ w.msg \in {"PEER_JOIN", "PEER_LEAVE"}
                              /\ \E s \in Snapshot : w.about = {s}
  /\ \A w : w \in Unmixed(Arrivals) => \A e, v : ~Tells(w, Arrivals, e, v)
                                              /\ ~Shows(w, "PEER_JOIN", v)
  /\ \A w : w \in Unmixed(Departures) => \A e, v : ~Tells(w, Departures, e, v)
                                                /\ ~Shows(w, "PEER_LEAVE", v)
  BY Zenon DEF Unmixed, Tells, Shows, Arrivals, Departures

\* A step that keeps every peer and changes nothing of what will have been told
\* keeps the invariant.
LEMMA TellingKept ==
  ASSUME TypeOK, Telling, Kept,
         pkt' # None => Idle("main")',
         \A t \in Threads \ {"main"} : todo'[t] \in Seq(Silent),
         \/ todo'["main"] \in Seq(Unmixed(Departures))
         \/ todo'["main"] \in Seq(Unmixed(Arrivals)),
         \A e \in Endpoints : WillTell(e)' = WillTell(e),
         WillShow' = WillShow
  PROVE  Telling'
  <1>1. /\ Active' = Active
        /\ \A i \in Active : peers'[i].vip = peers[i].vip
                          /\ peers'[i].addr = peers[i].addr
                          /\ peers[i].addr \in Endpoints
    BY Zenon DEF Kept, SameId, Active, TypeOK
  <1>2. ASSUME NEW S \in SUBSET Active
        PROVE  {peers'[j].vip : j \in S} = {peers[j].vip : j \in S}
    BY Zenon, <1>1
  <1>3. \A i \in Active' :
          WillTell(peers[i].addr)' = {peers'[j].vip : j \in Active' \ {i}}
    <2> SUFFICES ASSUME NEW i \in Active
                 PROVE  WillTell(peers[i].addr)' = {peers'[j].vip : j \in Active \ {i}}
      BY Zenon, <1>1
    <2>1. WillTell(peers[i].addr) = {peers[j].vip : j \in Active \ {i}}
      BY Zenon DEF Telling
    <2>2. {peers'[j].vip : j \in Active \ {i}} = {peers[j].vip : j \in Active \ {i}}
      BY Zenon, <1>2
    <2>3. PICK e \in Endpoints : e = peers[i].addr /\ e = peers'[i].addr
      BY Zenon, <1>1
    <2>4. WillTell(e)' = WillTell(e)
      BY Zenon
    <2>5. WillTell(peers[i].addr)' = WillTell(e)'
      BY Zenon, <2>3 DEF WillTell
    <2> QED
      BY Zenon, <2>1, <2>2, <2>3, <2>4, <2>5
  <1>4. WillShow' = {peers'[i].vip : i \in Active'}
    <2>1. WillShow = {peers[i].vip : i \in Active}
      BY Zenon DEF Telling
    <2>2. {peers'[i].vip : i \in Active} = {peers[i].vip : i \in Active}
      BY Zenon, <1>2
    <2> QED
      BY Zenon, <1>1, <2>1, <2>2
  <1> QED
    BY Zenon, <1>3, <1>4 DEF Telling, Arrivals, Departures

\* A data packet's or a message's next send, for the main thread: the endpoint
\* it goes to has been told what the others will be told.
LEMMA MainSendTells ==
  ASSUME TypeOK, Telling, ~SendFails, ~Idle("main"), PerformSend("main")
  PROVE  /\ \/ todo'["main"] \in Seq(Unmixed(Departures))
            \/ todo'["main"] \in Seq(Unmixed(Arrivals))
         /\ \A t \in Threads \ {"main"} : todo'[t] = todo[t]
         /\ \A e \in Endpoints : WillTell(e)' = WillTell(e)
         /\ WillShow' = WillShow
  <1> DEFINE t == "main"
             w == Head(todo[t])
             tail == Tail(todo[t])
             vips == {s.vip : s \in w.about}
  <1>1. t \in Threads /\ w \in Work /\ tail \in Seq(Work) /\ todo[t] # <<>>
          /\ todo[t] \in Seq(Work)
    BY Zenon, HeadTail DEF Threads, TypeOK
  <1>2. PICK d \in w.dests :
          LET rest == SendAll(w.msg, w.about, w.dests \ {d}, w.bytes) \o tail
          IN  /\ Tell(d.addr, w)
              /\ Queue(t, IF w.bytes = 0 THEN rest
                          ELSE <<Do("account", w.msg, {}, {d}, w.bytes)>>
                                 \o rest)
    BY Zenon DEF PerformSend
  <1>3. w.op = "send" /\ hostView' = hostView
    BY Zenon DEF PerformSend
  <1> DEFINE left == w.dests \ {d}
             again == Do("send", w.msg, w.about, left, w.bytes)
             send == IF left = {} THEN <<>> ELSE <<again>>
             one == Do("account", w.msg, {}, {d}, w.bytes)
             q == IF w.bytes = 0 THEN send \o tail ELSE <<one>> \o (send \o tail)
  <1>4. /\ w.msg \in Msgs /\ w.about \in SUBSET Snapshot /\ w.bytes \in 0 .. 1
        /\ left \in SUBSET Snapshot /\ {d} \in SUBSET Snapshot
        /\ {} \in SUBSET Snapshot /\ d \in Snapshot /\ d.addr \in Endpoints
    BY Zenon, <1>1 DEF Work, Msgs, Snapshot
  <1>5. /\ again \in Work /\ again.op = "send" /\ again.msg = w.msg
        /\ again.about = w.about /\ again.dests = left
    BY Zenon, <1>4, DoType DEF Ops, Do
  <1>6. one \in Work /\ one.op = "account" /\ one.msg = w.msg
    BY Zenon, <1>4, DoType DEF Ops, Do
  <1>7. todo'[t] = q /\ \A u \in Threads \ {t} : todo'[u] = todo[u]
    <2>1. Queue(t, q)
      BY Zenon, <1>2 DEF SendAll
    <2> HIDE DEF q
    <2> QED
      BY Zenon, <1>1, <2>1 DEF Queue, TypeOK
  <1>8. told' = [told EXCEPT ![d.addr] =
                   CASE w.msg \in Arrivals -> @ \cup vips
                     [] w.msg = "PEER_LEAVE" -> @ \ vips
                     [] OTHER -> @]
    BY Zenon, <1>2 DEF Tell, Arrivals
  <1> HIDE DEF w, tail, left, again, one
  <1>9. Items(q) \subseteq {again, one} \cup Items(tail)
          /\ (left # {} => again \in Items(q)) /\ Items(tail) \subseteq Items(q)
    <2>1. send \in Seq(Work) /\ <<one>> \in Seq(Work)
      BY SMT, <1>5, <1>6
    <2>2. Items(send) = IF left = {} THEN {} ELSE {again}
      BY Zenon, <1>5, ItemsOf
    <2> HIDE DEF send
    <2>3. send \o tail \in Seq(Work)
      BY Zenon, <1>1, <2>1, ConcatType
    <2>4. Items(send \o tail) = Items(send) \cup Items(tail)
      BY Zenon, <1>1, <2>1, ItemsOf
    <2>5. Items(<<one>> \o (send \o tail)) = {one} \cup Items(send \o tail)
      <3>1. Items(<<one>>) = {one}
        BY Zenon, <1>6, ItemsOf
      <3>2. \A r \in Seq(Work) : Items(<<one>> \o r) = Items(<<one>>) \cup Items(r)
        BY Zenon, <2>1, ItemsOf
      <3> QED
        BY Zenon, <2>3, <3>1, <3>2
    <2>6. CASE w.bytes = 0
      <3>1. Items(q) = Items(send \o tail)
        BY Zenon, <2>6
      <3> QED
        BY Zenon, <2>2, <2>4, <3>1
    <2>7. CASE w.bytes # 0
      <3>1. Items(q) = {one} \cup Items(send \o tail)
        BY Zenon, <2>5, <2>7
      <3> QED
        BY Zenon, <2>2, <2>4, <3>1
    <2> QED
      BY Zenon, <2>6, <2>7
  <1>10. Items(todo[t]) = {w} \cup Items(tail)
    BY Zenon, <1>1, ItemsOf DEF w, tail
  <1>11. ASSUME NEW M, todo[t] \in Seq(Unmixed(M)) PROVE q \in Seq(Unmixed(M))
    <2>1. w \in Unmixed(M) /\ tail \in Seq(Unmixed(M))
      BY SMT, <1>1, <1>11 DEF w, tail
    <2>2. w.msg \notin M
      BY Zenon, <2>1 DEF Unmixed
    <2>3. again \in Unmixed(M) /\ one \in Unmixed(M)
      BY Zenon, <1>5, <1>6, <2>2, "send" # "leaves", "send" # "event",
         "account" # "leaves", "account" # "event" DEF Unmixed
    <2> QED
      BY SMTT(60), <2>1, <2>3
  <1> HIDE DEF q
  <1>12. Mute(one)
    BY Zenon, <1>6, MuteWork, "account" \notin {"send", "event"}
  <1>13. ASSUME NEW M \in {Arrivals, Departures}, NEW e, NEW v
         PROVE  /\ v \in Says(todo[t], M, e) <=>
                     \/ v \in Pool /\ Tells(w, M, e, v)
                     \/ v \in Says(tail, M, e)
                /\ v \in Says(q, M, e) <=>
                     \/ v \in Pool /\ left # {} /\ Tells(again, M, e, v)
                     \/ v \in Says(tail, M, e)
    <2>1. v \in Says(todo[t], M, e) <=>
            \/ v \in Pool /\ Tells(w, M, e, v)
            \/ v \in Says(tail, M, e)
      BY Zenon, <1>10, SaysItems
    <2>2. ~Tells(one, M, e, v)
      BY Zenon, <1>12 DEF Mute
    <2>3. left = {} => ~Tells(again, M, e, v)
      BY Zenon, <1>5 DEF Tells
    <2>4. v \in Says(q, M, e) =>
            \/ v \in Pool /\ left # {} /\ Tells(again, M, e, v)
            \/ v \in Says(tail, M, e)
      BY Zenon, <1>9, <2>2, <2>3, SaysItems
    <2>5. \/ v \in Pool /\ left # {} /\ Tells(again, M, e, v)
          \/ v \in Says(tail, M, e)
          => v \in Says(q, M, e)
      BY Zenon, <1>9, SaysItems
    <2> QED
      BY Zenon, <2>1, <2>4, <2>5
  <1>14. ASSUME NEW e \in Endpoints, NEW v
         PROVE  v \in WillTell(e)' <=> v \in WillTell(e)
    <2> DEFINE to == \E r \in w.dests : r.addr = e
               more == \E r \in left : r.addr = e
               says(M) == w.msg \in M /\ v \in vips
    <2>1. /\ v \in vips => v \in Pool
          /\ v \in vips <=> \E s \in w.about : s.vip = v
      <3>1. v \in vips <=> \E s \in w.about : s.vip = v
        BY Zenon
      <3>2. \A s \in w.about : s.vip \in Pool
        BY ZenonT(30), <1>4 DEF Snapshot
      <3> QED
        BY Zenon, <3>1, <3>2
    <2>2. ASSUME NEW M
          PROVE  /\ Tells(w, M, e, v) <=> to /\ says(M)
                 /\ Tells(again, M, e, v) <=> more /\ says(M)
      <3>1. Tells(w, M, e, v) <=> to /\ says(M)
        BY Zenon, <1>3, <2>1 DEF Tells
      <3>2. Tells(again, M, e, v) <=> more /\ says(M)
        BY Zenon, <1>5, <2>1 DEF Tells
      <3> QED
        BY Zenon, <3>1, <3>2
    <2>3. /\ more => to /\ left # {}
          /\ to => more \/ e = d.addr
          /\ e = d.addr => to
      BY Zenon DEF left
    <2>4. ASSUME NEW M \in {Arrivals, Departures}
          PROVE  /\ v \in Says(todo[t], M, e) <=>
                      (to /\ says(M)) \/ v \in Says(tail, M, e)
                 /\ v \in Says(todo'[t], M, e) <=>
                      (more /\ says(M)) \/ v \in Says(tail, M, e)
      BY Zenon, <1>7, <1>13, <2>1, <2>2, <2>3
    <2>5. v \in WillTell(e)' <=>
            /\ v \in told'[e] \/ v \in Says(todo'[t], Arrivals, e)
            /\ v \notin Says(todo'[t], Departures, e)
      BY Zenon DEF WillTell, Arrivals, Departures
    <2>6. v \in WillTell(e) <=>
            /\ v \in told[e] \/ v \in Says(todo[t], Arrivals, e)
            /\ v \notin Says(todo[t], Departures, e)
      BY Zenon, WillTellIs
    <2>7. e # d.addr => told'[e] = told[e]
      BY Zenon, <1>8 DEF TypeOK
    <2>8. /\ v \in Says(todo[t], Arrivals, e) <=>
               (to /\ says(Arrivals)) \/ v \in Says(tail, Arrivals, e)
          /\ v \in Says(todo'[t], Arrivals, e) <=>
               (more /\ says(Arrivals)) \/ v \in Says(tail, Arrivals, e)
          /\ v \in Says(todo[t], Departures, e) <=>
               (to /\ says(Departures)) \/ v \in Says(tail, Departures, e)
          /\ v \in Says(todo'[t], Departures, e) <=>
               (more /\ says(Departures)) \/ v \in Says(tail, Departures, e)
      BY Zenon, <2>4
    <2>9. CASE w.msg \in Arrivals
      <3>1. w.msg \notin Departures /\ w.msg # "PEER_LEAVE"
        BY <2>9 DEF Arrivals, Departures
      <3>2. e = d.addr => told'[e] = told[e] \cup vips
        <4>1. told' = [told EXCEPT ![d.addr] = @ \cup vips]
          BY ZenonT(60), <1>8, <2>9, <3>1
        <4> QED
          BY Zenon, <4>1 DEF TypeOK
      <3> HIDE DEF vips, to, more
      <3> QED
        BY SMTT(60), <2>3, <2>5, <2>6, <2>7, <2>8, <2>9, <3>1, <3>2
    <2>10. CASE w.msg \in Departures
      <3>1. w.msg \notin Arrivals /\ w.msg = "PEER_LEAVE"
        BY <2>10 DEF Arrivals, Departures
      <3>2. e = d.addr => told'[e] = told[e] \ vips
        BY ZenonT(60), <1>8, <3>1 DEF TypeOK
      <3>3. todo[t] \in Seq(Unmixed(Arrivals))
        <4>1. todo[t] \notin Seq(Unmixed(Departures))
          <5>1. w \notin Unmixed(Departures)
            BY Zenon, <2>10 DEF Unmixed
          <5> QED
            BY SMTT(60), <1>1, <5>1 DEF w
        <4> QED
          BY Zenon, <4>1, WillTellIs DEF TellingInv
      <3>4. v \notin Says(tail, Arrivals, e)
        <4>1. Items(tail) \subseteq Unmixed(Arrivals)
          BY SMTT(60), <1>1, <3>3 DEF Items, tail
        <4> QED
          BY ZenonT(60), <4>1, SaysItems, UnmixedIs
      <3> HIDE DEF vips, to, more
      <3> QED
        BY SMTT(60), <2>3, <2>5, <2>6, <2>7, <2>8, <2>10, <3>1, <3>2, <3>4
    <2>11. CASE w.msg \notin Arrivals /\ w.msg \notin Departures
      <3>1. w.msg # "PEER_LEAVE"
        BY Zenon, <2>11 DEF Departures
      <3>2. e = d.addr => told'[e] = told[e]
        BY ZenonT(60), <1>8, <2>11, <3>1 DEF TypeOK
      <3> HIDE DEF vips, to, more
      <3> QED
        BY SMTT(60), <2>5, <2>6, <2>7, <2>8, <2>11, <3>2
    <2> QED
      BY Zenon, <2>9, <2>10, <2>11
  <1>15. ASSUME NEW v PROVE v \in WillShow' <=> v \in WillShow
    <2>1. \A msg : ~Shows(w, msg, v) /\ ~Shows(again, msg, v) /\ ~Shows(one, msg, v)
      BY Zenon, <1>3, <1>5, <1>6, "send" # "event", "account" # "event" DEF Shows
    <2>2. ASSUME NEW msg
          PROVE  v \in Emits(todo'[t], msg) <=> v \in Emits(todo[t], msg)
      <3>1. v \in Emits(todo[t], msg) <=> v \in Emits(tail, msg)
        BY Zenon, <1>10, <2>1, SaysItems
      <3>2. v \in Emits(q, msg) <=> v \in Emits(tail, msg)
        BY Zenon, <1>9, <2>1, SaysItems
      <3> QED
        BY Zenon, <1>7, <3>1, <3>2
    <2> QED
      BY Zenon, <1>3, <2>2 DEF WillShow
  <1>16. \/ q \in Seq(Unmixed(Departures)) \/ q \in Seq(Unmixed(Arrivals))
    BY Zenon, <1>11, WillTellIs DEF TellingInv
  <1> QED
    BY Zenon, <1>7, <1>14, <1>15, <1>16

\* The rest of the main thread's work after an unlock: an event changes what the
\* host has been told as announced, and the others say nothing.
LEMMA MainRestTells ==
  ASSUME TypeOK, Telling, ~Idle("main"),
         \/ PerformAccount("main") \/ PerformEvent("main")
         \/ PerformLeaves("main") \/ PerformTun("main")
  PROVE  /\ \/ todo'["main"] \in Seq(Unmixed(Departures))
            \/ todo'["main"] \in Seq(Unmixed(Arrivals))
         /\ \A t \in Threads \ {"main"} : todo'[t] = todo[t]
         /\ \A e \in Endpoints : WillTell(e)' = WillTell(e)
         /\ WillShow' = WillShow
  <1> DEFINE t == "main"
             w == Head(todo[t])
             tail == Tail(todo[t])
  <1>1. t \in Threads /\ w \in Work /\ tail \in Seq(Work) /\ todo[t] # <<>>
          /\ todo[t] \in Seq(Work)
    BY Zenon, HeadTail DEF Threads, TypeOK
  <1>2. \/ /\ todo[t] \in Seq(Unmixed(Departures))
           /\ w \in Unmixed(Departures) /\ tail \in Seq(Unmixed(Departures))
        \/ /\ todo[t] \in Seq(Unmixed(Arrivals))
           /\ w \in Unmixed(Arrivals) /\ tail \in Seq(Unmixed(Arrivals))
    <2>1. \/ todo[t] \in Seq(Unmixed(Departures))
          \/ todo[t] \in Seq(Unmixed(Arrivals))
      BY Zenon, WillTellIs DEF TellingInv
    <2>2. ASSUME NEW M, todo[t] \in Seq(Unmixed(M))
          PROVE  w \in Unmixed(M) /\ tail \in Seq(Unmixed(M))
      BY SMT, <1>1, <2>2
    <2> QED
      BY Zenon, <2>1, <2>2
  <1>3. w.op # "leaves"
    BY Zenon, <1>1, <1>2, UnmixedIs
  <1>4. Queue(t, tail) /\ told' = told
    BY Zenon, <1>3 DEF PerformAccount, PerformEvent, PerformLeaves, PerformTun, history
  <1>5. todo'[t] = tail /\ \A u \in Threads \ {t} : todo'[u] = todo[u]
    BY ZenonT(60), <1>1, <1>4 DEF Queue, TypeOK
  <1>6. Items(todo[t]) = {w} \cup Items(tail)
    BY Zenon, <1>1, ItemsOf
  <1>7. w.op # "send"
    <2>1. w.op \in {"account", "event", "tun"}
      BY Zenon, <1>3 DEF PerformAccount, PerformEvent, PerformLeaves, PerformTun
    <2> QED
      BY <2>1
  <1>8. ASSUME w.op # "event" PROVE hostView' = hostView
    BY Zenon, <1>3, <1>8
       DEF PerformAccount, PerformEvent, PerformLeaves, PerformTun, history
  <1>9. ASSUME w.op = "event"
        PROVE  \E s \in w.about : Emit(w.msg, s) /\ w.about = {s}
                                /\ w.msg \in {"PEER_JOIN", "PEER_LEAVE"}
    <2>1. PerformEvent(t)
      BY Zenon, <1>9, "event" # "account", "event" # "leaves", "event" # "tun"
         DEF PerformAccount, PerformLeaves, PerformTun
    <2>2. PICK s \in w.about : Emit(w.msg, s)
      BY Zenon, <2>1 DEF PerformEvent
    <2>3. w.msg \in {"PEER_JOIN", "PEER_LEAVE"} /\ \E r \in Snapshot : w.about = {r}
      BY Zenon, <1>1, <1>2, <1>9, UnmixedIs
    <2> QED
      BY Zenon, <2>2, <2>3
  <1> HIDE DEF w, tail
  <1>10. ASSUME NEW e \in Endpoints PROVE WillTell(e)' = WillTell(e)
    <2>1. ASSUME NEW v, NEW M
          PROVE  v \in Says(todo[t], M, e) <=> v \in Says(tail, M, e)
      <3>1. ~Tells(w, M, e, v)
        BY Zenon, <1>7 DEF Tells
      <3> QED
        BY Zenon, <1>6, <3>1, SaysItems
    <2>2. ASSUME NEW v PROVE v \in WillTell(e)' <=> v \in WillTell(e)
      BY Zenon, <1>4, <1>5, <2>1 DEF WillTell
    <2> QED
      BY Zenon, <2>2
  <1>11. ASSUME NEW v PROVE v \in WillShow' <=> v \in WillShow
    <2>1. v \in WillShow' <=> /\ v \in hostView' \/ v \in Emits(tail, "PEER_JOIN")
                              /\ v \notin Emits(tail, "PEER_LEAVE")
      BY Zenon, <1>5 DEF WillShow
    <2>2. v \in WillShow <=> /\ v \in hostView \/ v \in Emits(todo[t], "PEER_JOIN")
                             /\ v \notin Emits(todo[t], "PEER_LEAVE")
      BY Zenon, WillTellIs
    <2>3. ASSUME NEW msg
          PROVE  v \in Emits(todo[t], msg) <=>
                   (v \in Pool /\ Shows(w, msg, v)) \/ v \in Emits(tail, msg)
      BY Zenon, <1>6, SaysItems
    <2>4. CASE w.op # "event"
      <3>1. ~Shows(w, "PEER_JOIN", v) /\ ~Shows(w, "PEER_LEAVE", v)
        BY Zenon, <2>4 DEF Shows
      <3> QED
        BY ZenonT(60), <1>8, <2>1, <2>2, <2>3, <2>4, <3>1
    <2>5. CASE w.op = "event"
      <3>1. PICK s \in w.about : Emit(w.msg, s) /\ w.about = {s}
                               /\ w.msg \in {"PEER_JOIN", "PEER_LEAVE"}
        BY Zenon, <1>9, <2>5
      <3>2. s.vip \in Pool
        BY Zenon, <1>1 DEF Work, Snapshot
      <3>3. ASSUME NEW msg
            PROVE  v \in Pool /\ Shows(w, msg, v) <=> w.msg = msg /\ v = s.vip
        BY ZenonT(60), <2>5, <3>1, <3>2 DEF Shows
      <3>4. CASE w.msg = "PEER_JOIN"
        <4>1. hostView' = hostView \cup {s.vip}
          BY Zenon, <3>1, <3>4 DEF Emit
        <4>2. w.msg # "PEER_LEAVE"
          BY <3>4
        <4> QED
          BY ZenonT(60), <2>1, <2>2, <2>3, <3>3, <3>4, <4>1, <4>2
      <3>5. CASE w.msg = "PEER_LEAVE"
        <4>1. w.msg # "PEER_JOIN"
          BY <3>5
        <4>2. hostView' = hostView \ {s.vip}
          BY ZenonT(60), <3>1, <4>1 DEF Emit
        <4>3. v \notin Emits(tail, "PEER_JOIN")
          <5>1. w \notin Unmixed(Departures)
            BY Zenon, <3>5 DEF Unmixed, Departures
          <5>2. Items(tail) \subseteq Unmixed(Arrivals)
            BY SMTT(60), <1>1, <1>2, <5>1 DEF Items
          <5> QED
            BY Zenon, <5>2, SaysItems, UnmixedIs
        <4> QED
          BY ZenonT(60), <2>1, <2>2, <2>3, <3>3, <3>5, <4>1, <4>2, <4>3
      <3> QED
        BY Zenon, <3>1, <3>4, <3>5
    <2> QED
      BY Zenon, <2>4, <2>5
  <1> QED
    BY ZenonT(60), <1>2, <1>5, <1>10, <1>11

\* The timeout and the TUN thread tell nobody of a peer, and emit no event.
LEMMA OthersTellNothing ==
  ASSUME TypeOK, Telling, NEW t \in Threads \ {"main"}, Perform(t)
  PROVE  /\ told' = told /\ hostView' = hostView
         /\ todo'[t] \in Seq(Silent)
         /\ \A u \in Threads \ {t} : todo'[u] = todo[u]
  <1> DEFINE w == Head(todo[t])
             tail == Tail(todo[t])
  <1>1. /\ w \in Work /\ tail \in Seq(Work) /\ todo[t] # <<>> /\ ~Idle(t)
        /\ todo[t] \in Seq(Silent)
    BY Zenon, HeadTail DEF Perform, Telling
  <1>2. w \in Silent /\ tail \in Seq(Silent)
    BY SMT, <1>1
  <1>3. w.op \in {"send", "account", "tun"} /\ w.msg \notin News
    BY Zenon, <1>2 DEF Silent
  <1>4. w.op # "event" /\ w.op # "leaves"
    BY <1>3
  <1>5. PerformSend(t) \/ PerformAccount(t) \/ PerformTun(t)
    BY Zenon, <1>4 DEF Perform, PerformEvent, PerformLeaves
  <1>6. ASSUME NEW q \in Seq(Silent), Queue(t, q)
        PROVE  todo'[t] \in Seq(Silent) /\ \A u \in Threads \ {t} : todo'[u] = todo[u]
    BY Zenon, <1>6 DEF Queue, TypeOK
  <1>7. CASE PerformAccount(t) \/ PerformTun(t)
    <2>1. Queue(t, tail) /\ told' = told /\ hostView' = hostView
      BY Zenon, <1>7 DEF PerformAccount, PerformTun, history
    <2> QED
      BY Zenon, <1>2, <1>6, <2>1
  <1>8. CASE PerformSend(t)
    <2>1. PICK d \in w.dests :
            LET rest == SendAll(w.msg, w.about, w.dests \ {d}, w.bytes) \o tail
            IN  \/ /\ Tell(d.addr, w)
                   /\ Queue(t, IF w.bytes = 0 THEN rest
                               ELSE <<Do("account", w.msg, {}, {d}, w.bytes)>>
                                      \o rest)
                \/ Queue(t, rest) /\ told' = told
      BY Zenon, <1>8 DEF PerformSend
    <2> DEFINE left == w.dests \ {d}
               again == Do("send", w.msg, w.about, left, w.bytes)
               send == IF left = {} THEN <<>> ELSE <<again>>
               one == Do("account", w.msg, {}, {d}, w.bytes)
               rest == send \o tail
    <2>2. /\ w.msg \in Msgs /\ w.about \in SUBSET Snapshot /\ w.bytes \in 0 .. 1
          /\ left \in SUBSET Snapshot /\ {d} \in SUBSET Snapshot
          /\ {} \in SUBSET Snapshot
      BY Zenon, <1>1 DEF Work, Msgs
    <2>3. again \in Silent /\ one \in Silent
      <3>1. again \in Work /\ again.op = "send" /\ again.msg = w.msg
        BY Zenon, <2>2, DoType DEF Ops, Do
      <3>2. one \in Work /\ one.op = "account" /\ one.msg = w.msg
        BY Zenon, <2>2, DoType DEF Ops, Do
      <3> QED
        BY Zenon, <1>3, <3>1, <3>2 DEF Silent
    <2>4. \/ Tell(d.addr, w) /\ Queue(t, IF w.bytes = 0 THEN rest ELSE <<one>> \o rest)
          \/ Queue(t, rest) /\ told' = told
      BY Zenon, <2>1 DEF SendAll
    <2> HIDE DEF w, tail, left, again, one
    <2>5. rest \in Seq(Silent) /\ <<one>> \o rest \in Seq(Silent)
      BY SMTT(60), <1>2, <2>3
    <2> HIDE DEF rest
    <2>6. Tell(d.addr, w) => told' = told
      <3> SUFFICES ASSUME Tell(d.addr, w) PROVE told' = told
        OBVIOUS
      <3>1. w.msg \notin {"PEER_LIST", "PEER_JOIN"} /\ w.msg # "PEER_LEAVE"
        BY Zenon, <1>3 DEF News
      <3>2. told' = [told EXCEPT ![d.addr] = @]
        BY Zenon, <3>1 DEF Tell
      <3> QED
        BY ZenonT(60), <3>2 DEF TypeOK
    <2>7. hostView' = hostView
      BY Zenon, <1>8 DEF PerformSend
    <2>8. \E q \in Seq(Silent) : Queue(t, q)
      BY Zenon, <2>4, <2>5
    <2> QED
      BY ZenonT(60), <1>6, <2>4, <2>6, <2>7, <2>8
  <1> QED
    BY Zenon, <1>5, <1>7, <1>8

\* The main thread's queue decides what will have been told.
LEMMA WillTellKept ==
  ASSUME told' = told, hostView' = hostView, todo'["main"] = todo["main"]
  PROVE  (\A e : WillTell(e)' = WillTell(e)) /\ WillShow' = WillShow
  BY Zenon DEF WillTell, WillShow

\* The work after an unlock keeps the invariant.
LEMMA TellingByPerform ==
  ASSUME TypeOK, Telling, ~SendFails, NEW t \in Threads, Perform(t)
  PROVE  Telling'
  <1>1. Kept /\ pkt' = pkt /\ ~Idle(t)
    BY Zenon, KeptByPerform DEF Perform
  <1>2. /\ pkt # None => Idle("main")
        /\ \A u \in Threads \ {"main"} : todo[u] \in Seq(Silent)
        /\ \/ todo["main"] \in Seq(Unmixed(Departures))
           \/ todo["main"] \in Seq(Unmixed(Arrivals))
    BY Zenon, WillTellIs DEF TellingInv
  <1>3. CASE t = "main"
    <2>1. /\ \/ todo'["main"] \in Seq(Unmixed(Departures))
             \/ todo'["main"] \in Seq(Unmixed(Arrivals))
          /\ \A u \in Threads \ {"main"} : todo'[u] = todo[u]
          /\ \A e \in Endpoints : WillTell(e)' = WillTell(e)
          /\ WillShow' = WillShow
      BY Zenon, <1>1, <1>3, MainSendTells, MainRestTells DEF Perform
    <2> QED
      BY ZenonT(60), <1>1, <1>2, <1>3, <2>1, TellingKept
  <1>4. CASE t # "main"
    <2>1. /\ told' = told /\ hostView' = hostView
          /\ todo'[t] \in Seq(Silent)
          /\ \A u \in Threads \ {t} : todo'[u] = todo[u]
      BY Zenon, <1>4, OthersTellNothing
    <2>2. todo'["main"] = todo["main"]
      BY Zenon, <1>4, <2>1 DEF Threads
    <2>3. \A u \in Threads \ {"main"} : todo'[u] \in Seq(Silent)
      BY Zenon, <1>2, <2>1
    <2>4. Idle("main") => Idle("main")'
      BY Zenon, <2>2 DEF Idle
    <2>5. (\A e : WillTell(e)' = WillTell(e)) /\ WillShow' = WillShow
      BY Zenon, <2>1, <2>2, WillTellKept
    <2> QED
      BY ZenonT(60), <1>1, <1>2, <2>2, <2>3, <2>4, <2>5, TellingKept
  <1> QED
    BY Zenon, <1>3, <1>4

\* A handler that neither adds nor removes a peer.
LEMMA MainKeeps ==
  ASSUME TypeOK, Main
  PROVE  \/ /\ Kept /\ told' = told /\ hostView' = hostView
            /\ UNCHANGED todo \/ pkt' = None
         \/ \E e \in Endpoints, seq \in SeqNums : RegisterNew(e, seq)
         \/ HandleDisconnect
  <1> SUFFICES ASSUME ~\E e \in Endpoints, seq \in SeqNums : RegisterNew(e, seq),
                      ~HandleDisconnect
               PROVE  /\ Kept /\ told' = told /\ hostView' = hostView
                      /\ UNCHANGED todo \/ pkt' = None
    BY Zenon
  <1>1. ASSUME NEW e \in Endpoints, NEW seq \in SeqNums, RegisterKnown(e, seq)
        PROVE  Kept /\ told' = told /\ hostView' = hostView /\ pkt' = None
    BY Zenon, <1>1, KeptByRegisterKnown DEF RegisterKnown, MainReady, history
  <1>2. ASSUME NEW type \in Requests, NEW e \in Endpoints, NEW seq \in SeqNums,
               AcceptRegisteredSequence(type, e, seq)
        PROVE  Kept /\ told' = told /\ hostView' = hostView /\ todo' = todo
    BY Zenon, <1>2, KeptByAccept DEF AcceptRegisteredSequence, history
  <1>3. ASSUME NEW e \in Endpoints, NEW seq \in SeqNums,
               DropReplayed(e, seq) \/ RejectRegister(e)
        PROVE  Kept /\ told' = told /\ hostView' = hostView /\ todo' = todo
    BY Zenon, <1>3, KeptByUnchanged DEF DropReplayed, RejectRegister, vars, history
  <1>4. ASSUME HandleNothing
        PROVE  Kept /\ told' = told /\ hostView' = hostView /\ pkt' = None
    BY Zenon, <1>4, KeptByUnchanged DEF HandleNothing, history
  <1>5. ASSUME \/ \E dst : HandleData(dst)
               \/ HandleKeepalive
               \/ HandleKeepaliveAck
        PROVE  Kept /\ told' = told /\ hostView' = hostView /\ pkt' = None
    BY Zenon, <1>5, KeptByHandlers
       DEF HandleData, HandleKeepalive, HandleKeepaliveAck, history
  <1> QED
    BY ZenonT(60), <1>1, <1>2, <1>3, <1>4, <1>5 DEF Main

\* A handler starts when the main thread has done all its work.
LEMMA MainStartsIdle ==
  ASSUME Telling, Main PROVE Idle("main")
  <1>1. pkt # None => Idle("main")
    BY Zenon DEF Telling
  <1> QED
    BY Zenon, <1>1
       DEF Main, MainReady, RegisterKnown, RegisterNew, AcceptRegisteredSequence,
           DropReplayed, RejectRegister, Handling, HandleNothing, HandleData,
           HandleKeepalive, HandleKeepaliveAck, HandleDisconnect

\* An empty queue, and one of quiet work, have both kinds of no news.
LEMMA QuietIsUnmixed ==
  /\ <<>> \in Seq(Quiet)
  /\ \A q \in Seq(Quiet) : /\ q \in Seq(Silent) /\ q \in Seq(Unmixed(Arrivals))
                           /\ q \in Seq(Unmixed(Departures))
  <1>1. <<>> \in Seq(Quiet)
    BY SMT
  <1>2. ASSUME NEW A, NEW B, A \subseteq B, NEW q \in Seq(A) PROVE q \in Seq(B)
    BY SMT, <1>2
  <1> QED
    BY Zenon, <1>1, <1>2, MuteWork

\* A handler that neither adds nor removes a peer keeps the invariant.
LEMMA TellingByMain ==
  ASSUME TypeOK, Telling, Main
  PROVE  \/ Telling'
         \/ \E e \in Endpoints, seq \in SeqNums : RegisterNew(e, seq)
         \/ HandleDisconnect
  <1> SUFFICES ASSUME ~\E e \in Endpoints, seq \in SeqNums : RegisterNew(e, seq),
                      ~HandleDisconnect
               PROVE  Telling'
    BY Zenon
  <1>1. /\ Kept /\ told' = told /\ hostView' = hostView
        /\ UNCHANGED todo \/ pkt' = None
    BY Zenon, MainKeeps
  <1>2. PICK q \in Seq(Quiet) : Queue("main", q) \/ (UNCHANGED todo /\ q = <<>>)
    BY Zenon, MainQueues, QuietIsUnmixed
  <1>3. Idle("main") /\ todo["main"] = <<>> /\ "main" \in Threads
    BY Zenon, MainStartsIdle DEF Idle, Threads
  <1>4. todo'["main"] = q /\ \A u \in Threads \ {"main"} : todo'[u] = todo[u]
    BY ZenonT(60), <1>2, <1>3 DEF Queue, TypeOK
  <1>5. pkt' # None => Idle("main")'
    BY Zenon, <1>1, <1>3 DEF Idle
  <1>6. \A u \in Threads \ {"main"} : todo'[u] \in Seq(Silent)
    BY Zenon, <1>4 DEF Telling
  <1>7. /\ \A e : Says(q, Arrivals, e) = {} /\ Says(q, Departures, e) = {}
        /\ \A msg : Emits(q, msg) = {}
    BY Zenon, QuietSaysNothing
  <1>8. /\ \A e : Says(todo["main"], Arrivals, e) = {}
               /\ Says(todo["main"], Departures, e) = {}
        /\ \A msg : Emits(todo["main"], msg) = {}
    BY Zenon, <1>3, QuietSaysNothing, QuietIsUnmixed
  <1>9. (\A e : WillTell(e)' = WillTell(e)) /\ WillShow' = WillShow
    BY ZenonT(60), <1>1, <1>4, <1>7, <1>8 DEF WillTell, WillShow, Arrivals, Departures
  <1>10. todo'["main"] \in Seq(Unmixed(Departures))
    BY Zenon, <1>4, QuietIsUnmixed
  <1> QED
    BY ZenonT(60), <1>1, <1>5, <1>6, <1>9, <1>10, TellingKept

\* The timeout and the TUN thread's critical sections, when nobody is evicted,
\* and the passing of time.
LEMMA TellingByOthers ==
  ASSUME TypeOK, Telling, NobodySilent,
         \/ TimeoutWake \/ TimeoutSweep \/ Tick
         \/ \E dst : TunRead(dst)
         \/ UNCHANGED vars
  PROVE  Telling'
  <1>1. told' = told /\ hostView' = hostView /\ pkt' = pkt
    BY Zenon DEF TimeoutWake, TimeoutSweep, Tick, TunRead, vars, history
  <1>2. Kept
    <2>1. CASE TimeoutSweep
      <3>1. Removed(TimedOut) /\ TimedOut = {}
        BY Zenon, <2>1, RemovedBySweep DEF TimeoutSweep, NobodySilent
      <3>2. peers' = [i \in Slots |-> peers[i]]
        BY Zenon, <3>1 DEF Removed
      <3>3. peers' = peers
        BY Zenon, <3>2 DEF TypeOK
      <3>4. peerCount' = peerCount - 0
        BY Zenon, <3>1, FS_EmptySet DEF Removed
      <3>5. peerCount' = peerCount
        BY SMTT(60), <3>4 DEF TypeOK
      <3> QED
        BY Zenon, <3>3, <3>5, KeptByUnchanged DEF tableVars
    <2>2. CASE ~TimeoutSweep
      <3>1. UNCHANGED tableVars
        BY Zenon, <2>2 DEF TimeoutWake, Tick, TunRead, vars
      <3> QED
        BY Zenon, <3>1, KeptByUnchanged
    <2> QED
      BY Zenon, <2>1, <2>2
  <1>3. \/ UNCHANGED todo
        \/ \E q \in Seq(Quiet) : Queue("timeout", q) \/ Queue("tun", q)
    BY Zenon, SweepQueues, TunQueues
       DEF TimeoutWake, TimeoutSweep, NobodySilent, Tick, vars
  <1>4. /\ todo'["main"] = todo["main"]
        /\ \A t \in Threads \ {"main"} : todo'[t] = todo[t] \/ todo'[t] \in Seq(Quiet)
    <2>1. "main" \in Threads /\ "main" # "timeout" /\ "main" # "tun"
      BY DEF Threads
    <2> QED
      BY ZenonT(60), <1>3, <2>1 DEF Queue, TypeOK
  <1>5. \A t \in Threads \ {"main"} : todo'[t] \in Seq(Silent)
    BY Zenon, <1>4, QuietIsUnmixed DEF Telling
  <1>6. pkt' # None => Idle("main")'
    BY Zenon, <1>1, <1>4 DEF Telling, Idle
  <1>7. (\A e : WillTell(e)' = WillTell(e)) /\ WillShow' = WillShow
    BY Zenon, <1>1, <1>4, WillTellKept
  <1>8. \/ todo'["main"] \in Seq(Unmixed(Departures))
        \/ todo'["main"] \in Seq(Unmixed(Arrivals))
    BY Zenon, <1>4, WillTellIs DEF TellingInv
  <1> QED
    BY ZenonT(60), <1>2, <1>5, <1>6, <1>7, <1>8, TellingKept

\* What queues put together, a round of sends, and an event say.
JointSpeech(p, q, r) ==
  /\ \A M, e, v : v \in Says(p, M, e) <=> v \in Says(q, M, e) \/ v \in Says(r, M, e)
  /\ \A m, v : v \in Emits(p, m) <=> v \in Emits(q, m) \/ v \in Emits(r, m)

Reaches(dests, e) == \E d \in dests : d.addr = e
Names(about, v) == \E s \in about : s.vip = v
SendSpeech(q, msg, about, dests) ==
  /\ q \in Seq(Work)
  /\ \A M, e, v : v \in Says(q, M, e) <=>
                    msg \in M /\ Reaches(dests, e) /\ Names(about, v)
  /\ \A m, v : v \notin Emits(q, m)
  /\ \A M : msg \notin M => q \in Seq(Unmixed(M))

EventSpeech(q, msg, s) ==
  /\ q \in Seq(Work)
  /\ \A M, e, v : v \notin Says(q, M, e)
  /\ \A m, v : v \in Emits(q, m) <=> m = msg /\ v = s.vip
  /\ \A M : msg \notin M => q \in Seq(Unmixed(M))

\* Two queues put together say what the two say.
LEMMA SaysConcat ==
  ASSUME NEW q \in Seq(Work), NEW r \in Seq(Work)
  PROVE  JointSpeech(q \o r, q, r)
  <1>1. Items(q \o r) = Items(q) \cup Items(r)
    BY Zenon, ItemsOf
  <1>2. ASSUME NEW M, NEW e, NEW v
        PROVE  v \in Says(q \o r, M, e) <=>
                 v \in Says(q, M, e) \/ v \in Says(r, M, e)
    BY Zenon, <1>1, SaysItems
  <1>3. ASSUME NEW msg, NEW v
        PROVE  v \in Emits(q \o r, msg) <=>
                 v \in Emits(q, msg) \/ v \in Emits(r, msg)
    BY Zenon, <1>1, SaysItems
  <1> QED
    BY Zenon, <1>2, <1>3 DEF JointSpeech

\* A round of sends tells every destination of everything it is about.
LEMMA SaysSendAll ==
  ASSUME NEW msg \in Msgs, NEW about \in SUBSET Snapshot,
         NEW dests \in SUBSET Snapshot
  PROVE  SendSpeech(SendAll(msg, about, dests, 0), msg, about, dests)
  <1> DEFINE q == SendAll(msg, about, dests, 0)
             w == Do("send", msg, about, dests, 0)
  <1>1. /\ w \in Work /\ w.op = "send" /\ w.msg = msg
        /\ w.about = about /\ w.dests = dests
    BY Zenon, BytesTypes, DoType DEF Ops, Do
  <1>2. q = IF dests = {} THEN <<>> ELSE <<w>>
    BY Zenon DEF SendAll
  <1> HIDE DEF w, q
  <1>3. \A u : u \in Items(q) <=> dests # {} /\ u = w
    <2>1. dests = {} => Items(q) = {}
      BY Zenon, <1>2, ItemsOf
    <2>2. dests # {} => Items(q) = {w}
      BY Zenon, <1>1, <1>2, ItemsOf
    <2> QED
      BY Zenon, <2>1, <2>2
  <1>4. q \in Seq(Work)
    BY SMT, <1>1, <1>2
  <1>5. \A s \in about : s.vip \in Pool
    BY Zenon DEF Snapshot
  <1>6. ASSUME NEW M, NEW e, NEW v
        PROVE  v \in Says(q, M, e) <=>
                 msg \in M /\ Reaches(dests, e) /\ Names(about, v)
    <2>1. v \in Says(q, M, e) <=>
            v \in Pool /\ \E u \in Items(q) : Tells(u, M, e, v)
      BY Zenon, SaysItems
    <2>2. Tells(w, M, e, v) <=> msg \in M /\ Reaches(dests, e) /\ Names(about, v)
      BY Zenon, <1>1 DEF Tells, Reaches, Names
    <2>3. (\E u \in Items(q) : Tells(u, M, e, v)) <=> dests # {} /\ Tells(w, M, e, v)
      BY Zenon, <1>3
    <2>4. Reaches(dests, e) => dests # {}
      BY Zenon DEF Reaches
    <2>5. Names(about, v) => v \in Pool
      BY Zenon, <1>5 DEF Names
    <2>6. v \in Says(q, M, e) <=> v \in Pool /\ dests # {} /\ Tells(w, M, e, v)
      BY Zenon, <2>1, <2>3
    <2> QED
      BY Zenon, <2>2, <2>4, <2>5, <2>6
  <1>7. ASSUME NEW m, NEW v PROVE v \notin Emits(q, m)
    <2>1. ~Shows(w, m, v)
      BY Zenon, <1>1, "send" # "event" DEF Shows
    <2>2. v \in Emits(q, m) => \E u \in Items(q) : Shows(u, m, v)
      BY Zenon, SaysItems
    <2> QED
      BY Zenon, <1>3, <2>1, <2>2
  <1>8. ASSUME NEW M, msg \notin M PROVE q \in Seq(Unmixed(M))
    <2>1. w \in Unmixed(M)
      BY Zenon, <1>1, <1>8, "send" # "leaves", "send" # "event" DEF Unmixed
    <2> QED
      BY SMTT(60), <1>2, <2>1
  <1> QED
    BY Zenon, <1>4, <1>6, <1>7, <1>8 DEF q, SendSpeech

\* An event shows the host one peer.
LEMMA SaysEvent ==
  ASSUME NEW msg \in {"PEER_JOIN", "PEER_LEAVE"}, NEW s \in Snapshot
  PROVE  EventSpeech(Event(msg, s), msg, s)
  <1> DEFINE w == Do("event", msg, {s}, {}, 0)
             q == Event(msg, s)
  <1>1. msg \in Msgs
    BY DEF Msgs
  <1>2. w \in Work /\ w.op = "event" /\ w.msg = msg /\ w.about = {s}
    BY Zenon, <1>1, BytesTypes, DoType DEF Ops, Do
  <1>3. q = <<w>>
    BY Zenon DEF Event
  <1> HIDE DEF w, q
  <1>4. Items(q) = {w}
    BY Zenon, <1>2, <1>3, ItemsOf
  <1>5. q \in Seq(Work)
    BY SMTT(60), <1>2, <1>3
  <1>6. ASSUME NEW M, NEW e, NEW v PROVE v \notin Says(q, M, e)
    <2>1. ~Tells(w, M, e, v)
      BY Zenon, <1>2, "send" # "event" DEF Tells
    <2>2. v \in Says(q, M, e) => \E u \in Items(q) : Tells(u, M, e, v)
      BY Zenon, SaysItems
    <2> QED
      BY Zenon, <1>4, <2>1, <2>2
  <1>7. ASSUME NEW m, NEW v PROVE v \in Emits(q, m) <=> m = msg /\ v = s.vip
    <2>1. s.vip \in Pool
      BY Zenon DEF Snapshot
    <2>2. Shows(w, m, v) <=> m = msg /\ v = s.vip
      BY Zenon, <1>2 DEF Shows
    <2>3. v \in Emits(q, m) <=> v \in Pool /\ \E u \in Items(q) : Shows(u, m, v)
      BY Zenon, SaysItems
    <2>4. (\E u \in Items(q) : Shows(u, m, v)) <=> Shows(w, m, v)
      BY Zenon, <1>4
    <2> QED
      BY ZenonT(60), <2>1, <2>2, <2>3, <2>4
  <1>8. ASSUME NEW M, msg \notin M PROVE q \in Seq(Unmixed(M))
    <2>1. w \in Unmixed(M)
      BY Zenon, <1>2, <1>8, "event" # "leaves" DEF Unmixed
    <2> QED
      BY SMTT(60), <1>3, <2>1
  <1> QED
    BY Zenon, <1>5, <1>6, <1>7, <1>8 DEF q, EventSpeech

\* When the main thread is idle, everybody has been told everything.
LEMMA AllTold ==
  ASSUME TypeOK, Telling, Idle("main")
  PROVE  /\ \A i \in Active :
              told[peers[i].addr] = {peers[j].vip : j \in Active \ {i}}
         /\ hostView = {peers[j].vip : j \in Active}
  <1>1. todo["main"] \in Seq(Quiet)
    BY Zenon, QuietIsUnmixed DEF Idle
  <1>2. /\ \A e : Says(todo["main"], Arrivals, e) = {}
               /\ Says(todo["main"], Departures, e) = {}
        /\ \A msg : Emits(todo["main"], msg) = {}
    BY ZenonT(60), <1>1, QuietSaysNothing
  <1>3. (\A e : WillTell(e) = told[e]) /\ WillShow = hostView
    BY Zenon, <1>2 DEF WillTell, WillShow, Arrivals, Departures
  <1>4. /\ \A i \in Active :
             WillTell(peers[i].addr) = {peers[j].vip : j \in Active \ {i}}
        /\ WillShow = {peers[i].vip : i \in Active}
    BY Zenon DEF Telling
  <1> QED
    BY Zenon, <1>3, <1>4

\* server_handle_disconnect: the peers that remain, and the host, will have been
\* told that the peer has left.
LEMMA TellingByDisconnect ==
  ASSUME TypeOK, TypeOK', TableConsistent, Telling, HandleDisconnect
  PROVE  Telling'
  <1>1. PICK i \in Slots :
          /\ FindPeerByAddr(i, pkt.from)
          /\ peers' = [peers EXCEPT ![i] = FreeSlot]
          /\ Queue("main", SendAll("PEER_LEAVE", {SnapshotPeer(i)},
                                   SnapshotBroadcast(Active \ {i}), 0)
                             \o Event("PEER_LEAVE", SnapshotPeer(i)))
    BY Zenon DEF HandleDisconnect
  <1>2. i \in Active
    BY Zenon, <1>1 DEF FindPeerByAddr, IsFirst, SlotsByAddr
  <1>3. pkt' = None /\ told' = told /\ hostView' = hostView /\ pkt # None
    BY Zenon DEF HandleDisconnect, Handling, history
  <1>4. Idle("main") /\ "main" \in Threads
    BY ZenonT(60), <1>3 DEF Telling, Threads
  <1> DEFINE s == SnapshotPeer(i)
             rest == SnapshotBroadcast(Active \ {i})
             send == SendAll("PEER_LEAVE", {s}, rest, 0)
             event == Event("PEER_LEAVE", s)
             q == send \o event
  <1>5. /\ todo'["main"] = q
        /\ \A t \in Threads \ {"main"} : todo'[t] = todo[t]
    <2>1. Queue("main", q)
      BY Zenon, <1>1
    <2> HIDE DEF q
    <2> QED
      BY ZenonT(60), <1>4, <2>1 DEF Queue, TypeOK
  <1>6. /\ Active' = Active \ {i}
        /\ \A j \in Active \ {i} : peers'[j] = peers[j]
    <2>1. \A j \in Slots : peers'[j] = IF j = i THEN FreeSlot ELSE peers[j]
      BY ZenonT(60), <1>1 DEF TypeOK
    <2>2. ~FreeSlot.active
      BY DEF FreeSlot
    <2> QED
      BY ZenonT(60), <2>1, <2>2 DEF Active
  <1>7. s \in Snapshot /\ {s} \in SUBSET Snapshot /\ rest \in SUBSET Snapshot
    BY ZenonT(60), <1>2, SnapshotTypes
  <1>8. s.vip = peers[i].vip
    BY DEF SnapshotPeer
  <1>9. \A j \in Active \ {i} : \E d \in rest : d.addr = peers[j].addr
    <2>1. \A j \in Active \ {i} : SnapshotPeer(j) \in rest
      BY Zenon DEF SnapshotBroadcast
    <2>2. \A j : SnapshotPeer(j).addr = peers[j].addr
      BY DEF SnapshotPeer
    <2> QED
      BY Zenon, <2>1, <2>2
  <1>10. "PEER_LEAVE" \in Msgs /\ "PEER_LEAVE" \in {"PEER_JOIN", "PEER_LEAVE"}
           /\ "PEER_LEAVE" \notin Arrivals /\ "PEER_LEAVE" \in Departures
           /\ "PEER_LEAVE" # "PEER_JOIN"
    BY DEF Msgs, Arrivals, Departures
  <1>11. SendSpeech(send, "PEER_LEAVE", {s}, rest)
    BY ZenonT(60), <1>7, <1>10, SaysSendAll
  <1>12. EventSpeech(event, "PEER_LEAVE", s)
    BY ZenonT(60), <1>7, <1>10, SaysEvent
  <1> HIDE DEF s, rest, send, event
  <1>13. JointSpeech(q, send, event) /\ q \in Seq(Unmixed(Arrivals))
    <2>1. send \in Seq(Work) /\ event \in Seq(Work)
      BY Zenon, <1>11, <1>12 DEF SendSpeech, EventSpeech
    <2>2. send \in Seq(Unmixed(Arrivals)) /\ event \in Seq(Unmixed(Arrivals))
      BY ZenonT(60), <1>10, <1>11, <1>12 DEF SendSpeech, EventSpeech
    <2>3. q \in Seq(Unmixed(Arrivals))
      BY SMTT(60), <2>2
    <2> QED
      BY Zenon, <2>1, <2>3, SaysConcat
  <1> HIDE DEF q
  <1>15. /\ \A j \in Active :
              told[peers[j].addr] = {peers[k].vip : k \in Active \ {j}}
         /\ hostView = {peers[k].vip : k \in Active}
    BY Zenon, <1>4, AllTold
  <1>16. \A k \in Active \ {i} : peers[k].vip # s.vip
    BY Zenon, <1>2, <1>8 DEF TableConsistent
  <1>17. ASSUME NEW j \in Active', NEW v
         PROVE  v \in WillTell(peers[j].addr)' <=>
                  v \in {peers'[k].vip : k \in Active' \ {j}}
    <2>1. j \in Active \ {i} /\ peers'[j] = peers[j]
      BY Zenon, <1>6
    <2>2. v \in WillTell(peers[j].addr)' <=>
            /\ v \in told[peers[j].addr] \/ v \in Says(q, Arrivals, peers[j].addr)
            /\ v \notin Says(q, Departures, peers[j].addr)
      BY ZenonT(60), <1>3, <1>5, <2>1 DEF WillTell, Arrivals, Departures
    <2>3. v \notin Says(q, Arrivals, peers[j].addr)
      <3>1. v \notin Says(send, Arrivals, peers[j].addr)
        BY Zenon, <1>10, <1>11 DEF SendSpeech
      <3>2. v \notin Says(event, Arrivals, peers[j].addr)
        BY Zenon, <1>12 DEF EventSpeech
      <3> QED
        BY ZenonT(60), <1>13, <3>1, <3>2 DEF JointSpeech
    <2>4. v \in Says(q, Departures, peers[j].addr) <=> v = s.vip
      <3>1. v \in Says(send, Departures, peers[j].addr) <=>
              /\ "PEER_LEAVE" \in Departures
              /\ Reaches(rest, peers[j].addr)
              /\ Names({s}, v)
        BY Zenon, <1>11 DEF SendSpeech
      <3>2. Reaches(rest, peers[j].addr) /\ (Names({s}, v) <=> v = s.vip)
        BY Zenon, <1>9, <2>1 DEF Reaches, Names
      <3>3. v \in Says(send, Departures, peers[j].addr) <=> v = s.vip
        BY ZenonT(60), <1>10, <3>1, <3>2
      <3>4. v \notin Says(event, Departures, peers[j].addr)
        BY Zenon, <1>12 DEF EventSpeech
      <3> QED
        BY ZenonT(60), <1>13, <3>3, <3>4 DEF JointSpeech
    <2>5. v \in told[peers[j].addr] <=> \E k \in Active \ {j} : v = peers[k].vip
      <3>1. told[peers[j].addr] = {peers[k].vip : k \in Active \ {j}}
        BY Zenon, <1>15, <2>1
      <3> QED
        BY Zenon, <3>1
    <2>6. (\E k \in Active \ {j} : v = peers[k].vip) /\ v # s.vip <=>
            \E k \in (Active \ {i}) \ {j} : v = peers[k].vip
      BY Zenon, <1>8, <1>16
    <2>7. v \in {peers'[k].vip : k \in Active' \ {j}} <=>
            \E k \in (Active \ {i}) \ {j} : v = peers[k].vip
      BY Zenon, <1>6
    <2> QED
      BY ZenonT(60), <2>2, <2>3, <2>4, <2>5, <2>6, <2>7
  <1>18. ASSUME NEW v
         PROVE  v \in WillShow' <=> v \in {peers'[k].vip : k \in Active'}
    <2>1. v \in WillShow' <=> /\ v \in hostView \/ v \in Emits(q, "PEER_JOIN")
                              /\ v \notin Emits(q, "PEER_LEAVE")
      BY Zenon, <1>3, <1>5 DEF WillShow
    <2>2. v \notin Emits(q, "PEER_JOIN") /\ (v \in Emits(q, "PEER_LEAVE") <=> v = s.vip)
      <3>1. ASSUME NEW m PROVE v \notin Emits(send, m)
        BY Zenon, <1>11 DEF SendSpeech
      <3>2. ASSUME NEW m PROVE v \in Emits(event, m) <=> m = "PEER_LEAVE" /\ v = s.vip
        BY Zenon, <1>12 DEF EventSpeech
      <3> QED
        BY ZenonT(60), <1>10, <1>13, <3>1, <3>2 DEF JointSpeech
    <2>3. (\E k \in Active : v = peers[k].vip) /\ v # s.vip <=>
            \E k \in Active \ {i} : v = peers[k].vip
      BY Zenon, <1>8, <1>16
    <2>4. v \in {peers'[k].vip : k \in Active'} <=>
            \E k \in Active \ {i} : v = peers[k].vip
      BY Zenon, <1>6
    <2> QED
      BY ZenonT(60), <1>15, <2>1, <2>2, <2>3, <2>4
  <1>19. \A t \in Threads \ {"main"} : todo'[t] \in Seq(Silent)
    BY ZenonT(60), <1>5 DEF Telling
  <1> QED
    BY ZenonT(60), <1>3, <1>5, <1>13, <1>17, <1>18, <1>19 DEF Telling, Arrivals

\* A PEER_LIST has room for every peer, unless there are too many.
LEMMA PeerListIsAll ==
  ASSUME TypeOK, Cardinality(Active) <= ListCapacity
  PROVE  PeerList(SnapshotBroadcast(Active)) = SnapshotBroadcast(Active)
  <1> DEFINE others == SnapshotBroadcast(Active)
  <1>1. \A r \in others : r.idx \in Active /\ r = SnapshotPeer(r.idx)
    <2>1. \A k : SnapshotPeer(k).idx = k
      BY DEF SnapshotPeer
    <2> QED
      BY Zenon, <2>1 DEF SnapshotBroadcast
  <1> HIDE DEF others
  <1>2. IsFiniteSet(Active) /\ Cardinality(Active) \in Nat
    BY Zenon, TimedOutFinite DEF Active
  <1>3. ASSUME NEW s \in others
        PROVE  Cardinality({r \in others : r.idx < s.idx}) < ListCapacity
    <2> DEFINE before == {r \in others : r.idx < s.idx}
               places == Active \ {s.idx}
               f == [r \in before |-> r.idx]
    <2>1. s.idx \in Active
      BY Zenon, <1>1
    <2>2. \A r \in before : r.idx \in places
      <3> SUFFICES ASSUME NEW r \in before PROVE r.idx \in places
        BY Zenon
      <3>1. r.idx \in Active /\ r.idx < s.idx
        BY Zenon, <1>1
      <3>2. r.idx # s.idx
        BY SMTT(60), <2>1, <3>1 DEF Active, Slots
      <3> QED
        BY ZenonT(60), <3>1, <3>2
    <2>3. \A r, q \in before : r.idx = q.idx => r = q
      BY Zenon, <1>1
    <2>4. f \in Injection(before, places)
      <3> HIDE DEF before, places
      <3>1. f \in [before -> places] /\ \A r, q \in before : f[r] = f[q] => r = q
        BY Zenon, <2>2, <2>3
      <3> HIDE DEF f
      <3> QED
        BY Zenon, <3>1 DEF Injection, IsInjective
    <2>5. IsFiniteSet(places) /\ Cardinality(places) = Cardinality(Active) - 1
      BY ZenonT(60), <1>2, <2>1, FS_RemoveElement
    <2>6. IsFiniteSet(before) /\ Cardinality(before) <= Cardinality(places)
      <3> HIDE DEF f, before, places
      <3> QED
        BY ZenonT(60), <2>4, <2>5, FS_Injection
    <2>7. Cardinality(before) \in Nat
      BY Zenon, <2>6, FS_CardinalityType
    <2> QED
      BY SMTT(60), <1>2, <2>5, <2>6, <2>7
  <1> QED
    BY Zenon, <1>3 DEF PeerList, others

\* The work of server_handle_register introduces the newcomer and the others to
\* each other, and the newcomer to the host.
Introduces(q, self, others) ==
  /\ q \in Seq(Unmixed(Departures))
  /\ \A e, v : v \notin Says(q, Departures, e)
  /\ \A e, v : v \in Says(q, Arrivals, e) <=>
                 \/ e = self.addr /\ Names(others, v)
                 \/ Reaches(others, e) /\ v = self.vip
  /\ \A v : v \notin Emits(q, "PEER_LEAVE")
  /\ \A v : v \in Emits(q, "PEER_JOIN") <=> v = self.vip

\* What server_handle_register tells for a new peer, when the list is complete.
LEMMA RegisterSpeech ==
  ASSUME NEW self \in Snapshot, NEW others \in SUBSET Snapshot,
         PeerList(others) = others
  PROVE  Introduces(RegisterWork(self, others), self, others)
  <1> DEFINE a == SendAll("ASSIGN", {self}, {self}, 0)
             b == Event("PEER_JOIN", self)
             c == SendAll("PEER_LIST", others, {self}, 0)
             d == SendAll("PEER_JOIN", {self}, others, 0)
             q == a \o b \o c \o d
  <1>1. /\ "ASSIGN" \in Msgs /\ "PEER_LIST" \in Msgs /\ "PEER_JOIN" \in Msgs
        /\ "PEER_JOIN" \in {"PEER_JOIN", "PEER_LEAVE"} /\ "PEER_JOIN" # "PEER_LEAVE"
        /\ "ASSIGN" \notin Arrivals /\ "ASSIGN" \notin Departures
        /\ "PEER_LIST" \in Arrivals /\ "PEER_LIST" \notin Departures
        /\ "PEER_JOIN" \in Arrivals /\ "PEER_JOIN" \notin Departures
    BY DEF Msgs, Arrivals, Departures
  <1>2. {self} \in SUBSET Snapshot
    BY Zenon
  <1>3. /\ SendSpeech(a, "ASSIGN", {self}, {self})
        /\ SendSpeech(c, "PEER_LIST", others, {self})
        /\ SendSpeech(d, "PEER_JOIN", {self}, others)
    BY ZenonT(60), <1>1, <1>2, SaysSendAll
  <1>4. EventSpeech(b, "PEER_JOIN", self)
    BY Zenon, <1>1, SaysEvent
  <1>5. RegisterWork(self, others) = q
    BY Zenon DEF RegisterWork
  <1> HIDE DEF a, b, c, d
  <1>6. /\ a \in Seq(Work) /\ a \in Seq(Unmixed(Departures))
        /\ b \in Seq(Work) /\ b \in Seq(Unmixed(Departures))
        /\ c \in Seq(Work) /\ c \in Seq(Unmixed(Departures))
        /\ d \in Seq(Work) /\ d \in Seq(Unmixed(Departures))
    BY ZenonT(60), <1>1, <1>3, <1>4 DEF SendSpeech, EventSpeech
  <1>7. q \in Seq(Unmixed(Departures))
    BY SMTT(60), <1>6
  <1>8. a \o b \in Seq(Work) /\ (a \o b) \o c \in Seq(Work)
    BY SMTT(60), <1>6
  <1>9. /\ JointSpeech(a \o b, a, b) /\ JointSpeech((a \o b) \o c, a \o b, c)
        /\ JointSpeech(q, (a \o b) \o c, d)
    BY ZenonT(60), <1>6, <1>8, SaysConcat
  <1> HIDE DEF q
  <1>10. ASSUME NEW M, NEW e, NEW v
         PROVE  v \in Says(q, M, e) <=>
                  v \in Says(a, M, e) \/ v \in Says(c, M, e) \/ v \in Says(d, M, e)
    <2>1. v \notin Says(b, M, e)
      BY Zenon, <1>4 DEF EventSpeech
    <2> QED
      BY Zenon, <1>9, <2>1 DEF JointSpeech
  <1>11. ASSUME NEW m, NEW v
         PROVE  v \in Emits(q, m) <=> m = "PEER_JOIN" /\ v = self.vip
    <2>1. v \notin Emits(a, m) /\ v \notin Emits(c, m) /\ v \notin Emits(d, m)
      BY Zenon, <1>3 DEF SendSpeech
    <2>2. v \in Emits(b, m) <=> m = "PEER_JOIN" /\ v = self.vip
      BY Zenon, <1>4 DEF EventSpeech
    <2> QED
      BY Zenon, <1>9, <2>1, <2>2 DEF JointSpeech
  <1>12. ASSUME NEW e, NEW v PROVE v \notin Says(q, Departures, e)
    <2>1. v \notin Says(a, Departures, e)
      BY Zenon, <1>1, <1>3 DEF SendSpeech
    <2>2. v \notin Says(c, Departures, e)
      BY Zenon, <1>1, <1>3 DEF SendSpeech
    <2>3. v \notin Says(d, Departures, e)
      BY Zenon, <1>1, <1>3 DEF SendSpeech
    <2> QED
      BY Zenon, <1>10, <2>1, <2>2, <2>3
  <1>13. ASSUME NEW e, NEW v
         PROVE  v \in Says(q, Arrivals, e) <=>
                  \/ e = self.addr /\ Names(others, v)
                  \/ Reaches(others, e) /\ v = self.vip
    <2>1. v \notin Says(a, Arrivals, e)
      BY Zenon, <1>1, <1>3 DEF SendSpeech
    <2>2. v \in Says(c, Arrivals, e) <=> Reaches({self}, e) /\ Names(others, v)
      BY Zenon, <1>1, <1>3 DEF SendSpeech
    <2>3. v \in Says(d, Arrivals, e) <=> Reaches(others, e) /\ Names({self}, v)
      BY Zenon, <1>1, <1>3 DEF SendSpeech
    <2>4. (Reaches({self}, e) <=> e = self.addr) /\ (Names({self}, v) <=> v = self.vip)
      BY Zenon DEF Reaches, Names
    <2> QED
      BY ZenonT(60), <1>10, <2>1, <2>2, <2>3, <2>4
  <1>14. Introduces(q, self, others)
    BY ZenonT(60), <1>1, <1>7, <1>11, <1>12, <1>13 DEF Introduces
  <1> QED
    BY ZenonT(60), <1>5, <1>14

\* server_handle_register for a new peer: the newcomer will have been told of all
\* the others, which fit its PEER_LIST, and the others and the host of it.
LEMMA TellingByRegister ==
  ASSUME TypeOK, TableConsistent, Telling, ListSuffices',
         NEW e \in Endpoints, NEW seq \in SeqNums, RegisterNew(e, seq)
  PROVE  Telling'
  <1>1. PICK i \in Slots, v \in Pool :
          /\ FindFreeSlot(i)
          /\ AllocIp(v)
          /\ peers' = [peers EXCEPT ![i] = NewPeer(e, v, seq)]
          /\ Queue("main", RegisterWork([idx |-> i, vip |-> v, addr |-> e],
                                        SnapshotBroadcast(Active)))
    BY Zenon DEF RegisterNew
  <1> DEFINE self == [idx |-> i, vip |-> v, addr |-> e]
             others == SnapshotBroadcast(Active)
             q == RegisterWork(self, others)
  <1>2. i \in Slots \ Active /\ SlotsByVip(v) = {} /\ SlotsByAddr(e) = {}
    BY Zenon, <1>1 DEF FindFreeSlot, AllocIp, IsFirst, RegisterNew
  <1>3. /\ pkt' = pkt /\ pkt = None /\ Idle("main") /\ hostView' = hostView
        /\ told' = [told EXCEPT ![e] = {}]
    BY Zenon DEF RegisterNew, MainReady
  <1>4. self \in Snapshot /\ self.vip = v /\ self.addr = e /\ others \in SUBSET Snapshot
    <2>1. others \in SUBSET Snapshot
      BY Zenon, SnapshotTypes
    <2> QED
      BY Zenon, <2>1 DEF Snapshot
  <1>5. Introduces(q, self, others)
    <2>1. Cardinality(Active) <= ListCapacity
      <3>1. peerCount = Cardinality(Active) /\ peerCount \in Int
        BY Zenon DEF TableConsistent, TypeOK
      <3>2. peerCount + 1 <= ListCapacity + 1
        BY Zenon DEF RegisterNew, ListSuffices
      <3> QED
        BY SMTT(60), <3>1, <3>2
    <2>2. PeerList(others) = others
      BY ZenonT(60), <2>1, PeerListIsAll
    <2> HIDE DEF self, others
    <2> QED
      BY Zenon, <1>4, <2>2, RegisterSpeech
  <1> HIDE DEF q
  <1>6. todo'["main"] = q /\ \A t \in Threads \ {"main"} : todo'[t] = todo[t]
    <2>1. "main" \in Threads
      BY DEF Threads
    <2>2. Queue("main", q)
      BY Zenon, <1>1 DEF q
    <2> QED
      BY ZenonT(60), <2>1, <2>2 DEF Queue, TypeOK
  <1>7. /\ Active' = Active \cup {i} /\ i \notin Active
        /\ peers'[i].vip = v /\ peers'[i].addr = e
        /\ \A j \in Active : peers'[j] = peers[j] /\ j # i
    <2>1. \A j \in Slots : peers'[j] = IF j = i THEN NewPeer(e, v, seq) ELSE peers[j]
      BY Zenon, <1>1 DEF TypeOK
    <2>2. /\ NewPeer(e, v, seq).active /\ NewPeer(e, v, seq).vip = v
          /\ NewPeer(e, v, seq).addr = e
      BY Zenon DEF NewPeer
    <2>3. Active' = Active \cup {i}
      BY Zenon, <2>1, <2>2 DEF Active
    <2> QED
      BY Zenon, <1>2, <2>1, <2>2, <2>3 DEF Active
  <1>8. \A j \in Active : peers[j].addr # e /\ Reaches(others, peers[j].addr)
    <2>1. \A j \in Active : SnapshotPeer(j) \in others
      BY Zenon DEF SnapshotBroadcast
    <2>2. \A j : SnapshotPeer(j).addr = peers[j].addr
      BY DEF SnapshotPeer
    <2> QED
      BY Zenon, <1>2, <2>1, <2>2 DEF SlotsByAddr, Reaches
  <1>9. ~Reaches(others, e) /\ \A u : Names(others, u) <=> \E j \in Active : u = peers[j].vip
    <2>1. \A j : SnapshotPeer(j).addr = peers[j].addr /\ SnapshotPeer(j).vip = peers[j].vip
      BY DEF SnapshotPeer
    <2>2. \A r : r \in others <=> \E j \in Active : r = SnapshotPeer(j)
      BY Zenon DEF SnapshotBroadcast
    <2> HIDE DEF others
    <2>3. ~Reaches(others, e)
      <3> SUFFICES ASSUME NEW r \in others, r.addr = e PROVE FALSE
        BY Zenon DEF Reaches
      <3>1. PICK j \in Active : r = SnapshotPeer(j)
        BY Zenon, <2>2
      <3> QED
        BY Zenon, <1>8, <2>1, <3>1
    <2>4. ASSUME NEW u, NEW j \in Active, u = peers[j].vip PROVE Names(others, u)
      BY Zenon, <2>1, <2>2, <2>4 DEF Names
    <2>5. ASSUME NEW u, Names(others, u) PROVE \E j \in Active : u = peers[j].vip
      <3>1. PICK r \in others : r.vip = u
        BY Zenon, <2>5 DEF Names
      <3>2. PICK j \in Active : r = SnapshotPeer(j)
        BY Zenon, <2>2
      <3> QED
        BY Zenon, <2>1, <3>1, <3>2
    <2> QED
      BY ZenonT(60), <2>3, <2>4, <2>5
  <1> HIDE DEF self, others
  <1>10. /\ \A j \in Active :
              told[peers[j].addr] = {peers[k].vip : k \in Active \ {j}}
         /\ hostView = {peers[k].vip : k \in Active}
    BY Zenon, <1>3, AllTold
  <1>11. ASSUME NEW x \in Endpoints, NEW u
         PROVE  u \in WillTell(x)' <=> u \in told'[x] \/ u \in Says(q, Arrivals, x)
    <2>1. u \in WillTell(x)' <=> /\ u \in told'[x] \/ u \in Says(q, Arrivals, x)
                                 /\ u \notin Says(q, Departures, x)
      BY Zenon, <1>6 DEF WillTell, Arrivals, Departures
    <2> QED
      BY Zenon, <1>5, <2>1 DEF Introduces
  <1>12. ASSUME NEW u
         PROVE  u \in WillTell(e)' <=> u \in {peers'[k].vip : k \in Active' \ {i}}
    <2>1. u \notin told'[e]
      BY Zenon, <1>3 DEF TypeOK
    <2>2. u \in Says(q, Arrivals, e) <=> Names(others, u)
      BY Zenon, <1>4, <1>5, <1>9 DEF Introduces
    <2>3. u \in {peers'[k].vip : k \in Active' \ {i}} <=>
            \E k \in Active : u = peers[k].vip
      BY Zenon, <1>7
    <2> QED
      BY ZenonT(60), <1>9, <1>11, <2>1, <2>2, <2>3
  <1>13. ASSUME NEW j \in Active, NEW u
         PROVE  u \in WillTell(peers[j].addr)' <=>
                  u \in {peers'[k].vip : k \in Active' \ {j}}
    <2>1. PICK x \in Endpoints : x = peers[j].addr /\ x = peers'[j].addr /\ x # e
      BY ZenonT(60), <1>7, <1>8 DEF TypeOK
    <2>2. told'[x] = told[x]
      BY ZenonT(60), <1>3, <2>1 DEF TypeOK
    <2>3. u \in Says(q, Arrivals, x) <=> u = v
      BY ZenonT(60), <1>4, <1>5, <1>8, <2>1 DEF Introduces
    <2>4. u \in told[x] <=> \E k \in Active \ {j} : u = peers[k].vip
      <3>1. told[peers[j].addr] = {peers[k].vip : k \in Active \ {j}}
        BY Zenon, <1>10
      <3> QED
        BY Zenon, <2>1, <3>1
    <2>5. u \in {peers'[k].vip : k \in Active' \ {j}} <=>
            (\E k \in Active \ {j} : u = peers[k].vip) \/ u = v
      BY Zenon, <1>7
    <2>6. WillTell(peers[j].addr)' = WillTell(x)'
      BY Zenon, <2>1 DEF WillTell
    <2> QED
      BY ZenonT(60), <1>11, <2>2, <2>3, <2>4, <2>5, <2>6
  <1>14. ASSUME NEW u
         PROVE  u \in WillShow' <=> u \in {peers'[k].vip : k \in Active'}
    <2>1. u \in WillShow' <=> /\ u \in hostView \/ u \in Emits(q, "PEER_JOIN")
                              /\ u \notin Emits(q, "PEER_LEAVE")
      BY Zenon, <1>3, <1>6 DEF WillShow
    <2>2. u \notin Emits(q, "PEER_LEAVE") /\ (u \in Emits(q, "PEER_JOIN") <=> u = v)
      BY Zenon, <1>4, <1>5 DEF Introduces
    <2>3. u \in {peers'[k].vip : k \in Active'} <=>
            (\E k \in Active : u = peers[k].vip) \/ u = v
      BY Zenon, <1>7
    <2> QED
      BY ZenonT(60), <1>10, <2>1, <2>2, <2>3
  <1>15. \A j \in Active' :
           WillTell(peers[j].addr)' = {peers'[k].vip : k \in Active' \ {j}}
    <2>1. WillTell(peers[i].addr)' = WillTell(e)'
      BY Zenon, <1>7 DEF WillTell
    <2>2. WillTell(e)' = {peers'[k].vip : k \in Active' \ {i}}
      BY Zenon, <1>12
    <2>3. \A j \in Active :
            WillTell(peers[j].addr)' = {peers'[k].vip : k \in Active' \ {j}}
      BY Zenon, <1>13
    <2> QED
      BY ZenonT(60), <1>7, <2>1, <2>2, <2>3
  <1>16. \A t \in Threads \ {"main"} : todo'[t] \in Seq(Silent)
    BY Zenon, <1>6 DEF Telling
  <1>17. todo'["main"] \in Seq(Unmixed({"PEER_LEAVE"})) /\ pkt' = None
    BY Zenon, <1>3, <1>5, <1>6 DEF Introduces, Departures
  <1> QED
    BY ZenonT(60), <1>14, <1>15, <1>16, <1>17 DEF Telling

\* Every step keeps the invariant, as long as nobody is evicted and a PEER_LIST
\* can name everybody.
LEMMA TellingStep ==
  ASSUME ~SendFails, IInv, IInv', Telling, NobodySilent, ListSuffices',
         [Next]_vars
  PROVE  Telling'
  <1>1. TypeOK /\ TypeOK' /\ TableConsistent
    BY Zenon DEF IInv
  <1>2. CASE Main
    BY Zenon, <1>1, <1>2, TellingByMain, TellingByRegister, TellingByDisconnect
  <1>3. CASE \E t \in Threads : Perform(t)
    BY Zenon, <1>1, <1>3, TellingByPerform
  <1>4. CASE ~Main /\ ~\E t \in Threads : Perform(t)
    <2>1. \/ TimeoutWake \/ TimeoutSweep \/ Tick
          \/ \E dst : TunRead(dst)
          \/ UNCHANGED vars
      BY Zenon, <1>4 DEF Next
    <2> QED
      BY Zenon, <1>1, <2>1, TellingByOthers
  <1> QED
    BY Zenon, <1>2, <1>3, <1>4

-----------------------------------------------------------------------------
(* The theorems. *)

\* The inductive invariant holds initially ...
LEMMA InitIInv == Init => IInv
  <1> SUFFICES ASSUME Init PROVE IInv
    OBVIOUS
  <1>1. TypeOK
    BY Zenon, TypeInit
  <1>2. Active = {}
    BY Zenon  DEF Init, Active, FreeSlot
  <1>3. TableConsistent
    BY Zenon, <1>2, FS_EmptySet DEF Init, TableConsistent
  <1>4. MainSnapshotsCurrent
    <2>1. todo["main"] = <<>>
      BY DEF Init, Threads
    <2>2. DOMAIN todo["main"] = {}
      BY SMTT(60), <2>1
    <2> QED
      BY SMTT(60), <2>2 DEF MainSnapshotsCurrent
  <1> QED
    BY ZenonT(60), <1>1, <1>2, <1>3, <1>4
       DEF Init, IInv, SlotPosition, DispatchedIsRecorded, NowInPast

\* ... and every step preserves it.
LEMMA StepIInv == IInv /\ [Next]_vars => IInv'
  BY ZenonT(60), TypeStep, TableConsistentStep, SlotPositionStep, DispatchedStep,
     NowInPastStep, MainSnapshotsStep DEF IInv

\* The inductive invariant holds throughout: the server's table, windows and
\* pending work stay consistent under every interleaving of its three threads.
THEOREM ServerInvariant == Spec => []IInv
  BY InitIInv, StepIInv, PTL DEF Spec

\* The state of the server is well formed: the table, the datagram in hand and
\* the work each thread has left.
THEOREM ServerTypes == Spec => []TypeOK
  <1>1. IInv => TypeOK
    BY Zenon DEF IInv
  <1> QED
    BY <1>1, ServerInvariant, PTL

\* Whatever the interleaving of the handlers and the timeout thread, no two
\* peers share a virtual address or an endpoint and peer_count is exact.
THEOREM TableIsConsistent == Spec => []TableConsistent
  <1>1. IInv => TableConsistent
    BY Zenon  DEF IInv
  <1> QED
    BY <1>1, ServerInvariant, PTL

\* A slot always gets the address of its own position, and a free slot comes
\* with a free address.
THEOREM SlotsAndAddressesAgree == Spec => []SlotVip
  <1>1. IInv => SlotVip
    BY ZenonT(60), PoolSufficesFromPosition DEF IInv, SlotVip
  <1> QED
    BY <1>1, ServerInvariant, PTL

\* A copy of the datagram being handled is refused, although its number was
\* recorded in an earlier critical section.
THEOREM DispatchedAreRecorded == Spec => []DispatchedIsRecorded
  <1>1. IInv => DispatchedIsRecorded
    BY ZenonT(60) DEF IInv
  <1> QED
    BY <1>1, ServerInvariant, PTL

\* What the main thread does after an unlock never concerns a slot that has
\* changed hands since.
THEOREM MainThreadSnapshots == Spec => []MainSnapshotsCurrent
  <1>1. IInv => MainSnapshotsCurrent
    BY DEF IInv
  <1> QED
    BY <1>1, ServerInvariant, PTL

\* server_add_peer_bytes_out never credits a peer with a packet that was not sent
\* to it, nor twice with one, through any reuse of slots and endpoints.
THEOREM PacketsAccountedOnce == Spec => []AccountedOnce
  <1>1. Init => Accounting
    <2> SUFFICES ASSUME Init PROVE Accounting
      OBVIOUS
    <2>1. TypeOK /\ Active = {} /\ \A t \in Threads : todo[t] = <<>>
      BY Zenon, TypeInit DEF Init, Active, FreeSlot
    <2>2. \A e : Owing(e) = {}
      BY Zenon, <2>1 DEF Owing
    <2>3. \A e \in Endpoints : Cardinality(Owing(e)) = 0 /\ sent[e] = 0
      BY ZenonT(60), <2>2, FS_EmptySet DEF Init
    <2>4. \A e \in Endpoints : Cardinality(Owing(e)) <= sent[e]
      <3>1. 0 <= 0
        BY SMT
      <3> QED
        BY Zenon, <2>3, <3>1
    <2>5. <<>> \in Seq(NoAccount)
      BY SMT
    <2> QED
      BY ZenonT(60), <2>1, <2>4, <2>5 DEF Accounting, AccountsFirst
  <1>2. TypeOK /\ Accounting /\ [Next]_vars => Accounting'
    BY Zenon, AccountingStep
  <1>3. TypeOK /\ Accounting => AccountedOnce
    BY Zenon, AccountedFromAccounting
  <1> QED
    BY <1>1, <1>2, <1>3, ServerTypes, PTL DEF Spec

\* What the premises of the next theorems say: no send fails, whenever the
\* timeout thread looks nobody is silent, and one PEER_LIST can name everybody.
\* Then, at every moment, the main thread still owes exactly what the peers and
\* the host have not been told yet.
THEOREM ServerOwesTheNews ==
  ASSUME ~SendFails PROVE Spec /\ [](NobodySilent /\ ListSuffices) => []Telling
  <1>1. Init => Telling
    <2> SUFFICES ASSUME Init PROVE Telling
      OBVIOUS
    <2>1. TypeOK /\ Active = {} /\ \A t \in Threads : todo[t] = <<>>
      BY Zenon, TypeInit DEF Init, Active, FreeSlot
    <2>2. "main" \in Threads /\ Idle("main")
      BY Zenon, <2>1 DEF Threads, Idle
    <2>3. todo["main"] \in Seq(Unmixed(Departures))
      BY Zenon, <2>1, <2>2, QuietIsUnmixed
    <2>4. \A t \in Threads : todo[t] \in Seq(Silent)
      BY Zenon, <2>1, QuietIsUnmixed
    <2>5. WillShow = {}
      <3>1. \A msg : Emits(todo["main"], msg) = {}
        BY ZenonT(60), <2>1, <2>2, QuietIsUnmixed, QuietSaysNothing
      <3> QED
        BY Zenon, <3>1 DEF WillShow, Init
    <2> QED
      BY ZenonT(60), <2>1, <2>2, <2>3, <2>4, <2>5 DEF Telling, Departures
  <1>2. IInv /\ IInv' /\ Telling /\ NobodySilent /\ ListSuffices' /\ [Next]_vars
          => Telling'
    BY Zenon, TellingStep
  <1> QED
    BY <1>1, <1>2, ServerInvariant, PTL DEF Spec

\* All peers discover each other: once the server has sent everything it owes,
\* every peer has been told of every other.
THEOREM PeersDiscoverEachOther ==
  ASSUME ~SendFails PROVE Spec /\ [](NobodySilent /\ ListSuffices) => []Discovery
  <1>1. TypeOK /\ Telling => Discovery
    <2> SUFFICES ASSUME TypeOK, Telling, Quiescent, NEW i \in Active,
                        NEW j \in Active, i # j
                 PROVE  peers[j].vip \in told[peers[i].addr]
      BY Zenon DEF Discovery
    <2>1. told[peers[i].addr] = {peers[k].vip : k \in Active \ {i}}
      BY ZenonT(60), AllTold DEF Quiescent, MainReady
    <2> QED
      BY Zenon, <2>1
  <1> QED
    BY <1>1, ServerOwesTheNews, ServerTypes, PTL

\* No peer goes on believing in one that has left.
THEOREM PeersSeeNoGhosts ==
  ASSUME ~SendFails PROVE Spec /\ [](NobodySilent /\ ListSuffices) => []NoGhosts
  <1>1. TypeOK /\ Telling => NoGhosts
    <2> SUFFICES ASSUME TypeOK, Telling, Quiescent, NEW i \in Active
                 PROVE  told[peers[i].addr] \subseteq {peers[k].vip : k \in Active \ {i}}
      BY Zenon DEF NoGhosts
    <2>1. told[peers[i].addr] = {peers[k].vip : k \in Active \ {i}}
      BY ZenonT(60), AllTold DEF Quiescent, MainReady
    <2> QED
      BY Zenon, <2>1
  <1> QED
    BY <1>1, ServerOwesTheNews, ServerTypes, PTL

\* The events that the host has been given add up to the peer table.
THEOREM HostSeesTheTable ==
  ASSUME ~SendFails PROVE Spec /\ [](NobodySilent /\ ListSuffices) => []HostViewExact
  <1>1. TypeOK /\ Telling => HostViewExact
    BY Zenon, AllTold DEF HostViewExact, Quiescent, MainReady
  <1> QED
    BY <1>1, ServerOwesTheNews, ServerTypes, PTL

\* The timeout thread evicts only peers that are silent at the moment of the
\* eviction, although it compares with a time read before it took the lock.
THEOREM EvictsOnlySilentPeers == Spec => NoEarlyEviction
  <1> DEFINE A == tnow # None /\ tnow' = None =>
                    \A i \in Active :
                      ~peers'[i].active =>
                        clock - peers[i].lastSeen > PeerTimeout
  <1>1. IInv /\ [Next]_vars => [A]_vars
    <2> SUFFICES ASSUME IInv, Next, tnow # None, tnow' = None,
                        NEW i \in Active, ~peers'[i].active
                 PROVE  clock - peers[i].lastSeen > PeerTimeout
      OBVIOUS
    <2>1. TimeoutSweep
      BY ZenonT(60)  DEF Next, Main, RegisterKnown, RegisterNew, AcceptRegisteredSequence,
             DropReplayed, RejectRegister, HandleNothing, HandleData,
             HandleKeepalive, HandleKeepaliveAck, HandleDisconnect,
             TimeoutWake, TunRead, Perform, Tick, vars, timeoutVars
    <2>2. i \in TimedOut
      BY ZenonT(60), <2>1 DEF TimeoutSweep, Active
    <2>3. tnow <= clock /\ tnow \in Nat /\ clock \in Nat
            /\ peers[i].lastSeen \in Nat
      BY DEF IInv, NowInPast, TypeOK, Slot, Active
    <2> QED
      BY SMTT(60), <2>2, <2>3 DEF TimedOut
  <1> QED
    BY <1>1, ServerInvariant, PTL DEF Spec, NoEarlyEviction
=============================================================================
