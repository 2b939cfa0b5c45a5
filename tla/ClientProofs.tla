---------------------------- MODULE ClientProofs ----------------------------
(***************************************************************************)
(* The messages, the relaunch of the program and the client: what one end  *)
(* of a connection writes is what the other end reads, whatever the names  *)
(* and the lists; the new process gets the arguments of the old one; and   *)
(* the client is safe for every number of slots and peers and every        *)
(* sequence of messages from the server.                                   *)
(***************************************************************************)
EXTENDS Client, Wire, Relaunch, FiniteSetTheorems, SequenceTheorems,
        NaturalsInduction, WellFoundedInduction, TLAPS

USE ClientAssumption

-----------------------------------------------------------------------------
(* The table. *)

Table ==
  /\ peers \in [Slots -> Slot]
  /\ expected \subseteq Vips
  /\ TableConsistent
  /\ ViewExact

\* Slots are finite in number, and so is any set of them.
LEMMA SlotsFinite ==
  /\ IsFiniteSet(Slots) /\ Cardinality(Slots) = MaxPeers
  /\ \A S \in SUBSET Slots :
       /\ IsFiniteSet(S)
       /\ Cardinality(S) \in Nat
       /\ Cardinality(S) <= MaxPeers
  <1>1. IsFiniteSet(Slots) /\ Cardinality(Slots) = MaxPeers
    <2>1. 0 \in Int /\ MaxPeers - 1 \in Int /\ MaxPeers - 1 >= 0
      BY ClientAssumption
    <2>2. /\ IsFiniteSet(0 .. MaxPeers - 1)
          /\ Cardinality(0 .. MaxPeers - 1) = (MaxPeers - 1) - 0 + 1
      BY <2>1, FS_Interval, SMTT(30)
    <2> QED
      BY <2>2, ClientAssumption DEF Slots
  <1> QED
    BY <1>1, FS_Subset, FS_CardinalityType

\* As long as no two slots hold the same address, an address that is in none
\* of them leaves a slot free: there are no more addresses than slots.
LEMMA RoomForAll ==
  ASSUME Table, NEW v \in Vips, SlotsByVip(v) = {}
  PROVE  FreeSlots # {}
  <1> SUFFICES ASSUME FreeSlots = {} PROVE FALSE
    OBVIOUS
  <1> DEFINE T == Vips \ {v}
             f == [i \in Slots |-> peers[i].vip]
  <1>1. Active = Slots
    BY DEF FreeSlots, Active, Table, Slot
  <1>2. f \in [Slots -> T]
    BY <1>1 DEF Table, TableConsistent, SlotsByVip
  <1>3. \A i, j \in Slots : i # j => f[i] # f[j]
    BY <1>1 DEF Table, TableConsistent
  <1>4. IsFiniteSet(T) /\ Cardinality(T) = Cardinality(Vips) - 1
    BY Zenon, FS_RemoveElement
  <1>5. Cardinality(Vips) \in Nat
    BY FS_CardinalityType
  <1>6. IsFiniteSet(Slots) /\ Cardinality(T) < Cardinality(Slots)
    BY <1>4, <1>5, SlotsFinite
  <1> HIDE DEF T, f
  <1>7. \E i, j \in Slots : i # j /\ f[i] = f[j]
    BY <1>2, <1>4, <1>6, FS_PigeonHole
  <1> QED
    BY <1>3, <1>7

\* A peer that joins: known already, or put into a free slot.
LEMMA AddKeepsTable ==
  ASSUME Table, NEW v \in Vips, AddPeer(v)
  PROVE  Table'
  <1>1. CASE UNCHANGED <<peers, peerCount>>
    <2>1. SlotsByVip(v) # {} \/ FreeSlots = {} \/ peerCount' = peerCount + 1
      BY DEF AddPeer
    <2>2. CASE SlotsByVip(v) # {}
      <3>1. v \in {peers[i].vip : i \in Active}
        BY <2>2 DEF SlotsByVip
      <3> QED
        BY <1>1, <3>1 DEF Table, TableConsistent, ViewExact, Active, AddPeer
    <2>3. CASE SlotsByVip(v) = {}
      <3>1. peerCount' = peerCount + 1
        BY <2>1, <2>3, RoomForAll
      <3>2. peerCount \in Int
        BY SlotsFinite DEF Table, TableConsistent, Active
      <3> QED
        BY <1>1, <3>1, <3>2
    <2> QED
      BY <2>2, <2>3
  <1>2. ASSUME NEW i \in Slots, SlotsByVip(v) = {}, IsFirst(i, FreeSlots),
               peers' = [peers EXCEPT ![i] = NewEntry(i, v)],
               peerCount' = peerCount + 1
        PROVE  Table'
    <2>1. i \notin Active
      BY <1>2 DEF IsFirst, FreeSlots, Active
    <2>2. NewEntry(i, v) \in Slot /\ NewEntry(i, v).active
            /\ NewEntry(i, v).vip = v
      BY DEF NewEntry, Slot
    <2>3. \A j \in Slots :
            peers'[j] = IF j = i THEN NewEntry(i, v) ELSE peers[j]
      BY <1>2 DEF Table
    <2>4. peers' \in [Slots -> Slot]
      BY <1>2, <2>2 DEF Table
    <2>5. Active' = Active \cup {i}
      BY Zenon, <2>2, <2>3 DEF Active
    <2>6. \A j \in Active : peers[j].vip # v /\ j # i /\ peers'[j] = peers[j]
      BY Zenon, <1>2, <2>1, <2>3 DEF SlotsByVip, Active
    <2>7. peers'[i].vip = v
      BY <2>2, <2>3
    <2>8. Cardinality(Active') = Cardinality(Active) + 1
      <3>1. IsFiniteSet(Active)
        BY SlotsFinite DEF Active
      <3> QED
        BY Zenon, <2>1, <2>5, <3>1, FS_AddElement
    <2>9. TableConsistent'
      <3>1. \A j, k \in Active' : j # k => peers'[j].vip # peers'[k].vip
        BY <2>5, <2>6, <2>7 DEF Table, TableConsistent
      <3>2. \A j \in Active' : peers'[j].vip \in Vips
        BY Zenon, <2>5, <2>6, <2>7 DEF Table, TableConsistent
      <3>3. peerCount' = Cardinality(Active')
        BY <1>2, <2>8 DEF Table, TableConsistent
      <3> QED
        BY Zenon, <3>1, <3>2, <3>3 DEF TableConsistent
    <2>10. ViewExact'
      <3>1. {peers'[j].vip : j \in Active'}
              = {peers[j].vip : j \in Active} \cup {v}
        BY <2>5, <2>6, <2>7
      <3> QED
        BY Zenon, <3>1 DEF Table, ViewExact, AddPeer
    <2> QED
      BY <2>4, <2>9, <2>10 DEF Table, AddPeer
  <1> QED
    BY <1>1, <1>2 DEF AddPeer

\* A peer that leaves: unknown, or taken out of its slot.
LEMMA RemoveKeepsTable ==
  ASSUME Table, NEW v \in Vips, RemovePeer(v)
  PROVE  Table'
  <1>1. CASE SlotsByVip(v) = {} /\ UNCHANGED <<peers, peerCount>>
    <2>1. v \notin {peers[i].vip : i \in Active}
      BY <1>1 DEF SlotsByVip
    <2> QED
      BY <1>1, <2>1 DEF Table, TableConsistent, ViewExact, Active, RemovePeer
  <1>2. ASSUME NEW i \in Slots, IsFirst(i, SlotsByVip(v)),
               peers' = [peers EXCEPT ![i] = [peers[i] EXCEPT !.active = FALSE]],
               peerCount' = peerCount - 1
        PROVE  Table'
    <2>1. i \in Active /\ peers[i].vip = v /\ peers[i] \in Slot
      BY <1>2 DEF IsFirst, SlotsByVip, Table
    <2> DEFINE r == [peers[i] EXCEPT !.active = FALSE]
    <2>2. r \in Slot /\ ~r.active
      BY Zenon, <2>1 DEF Slot
    <2> HIDE DEF r
    <2>3. \A j \in Slots : peers'[j] = IF j = i THEN r ELSE peers[j]
      BY <1>2 DEF Table, r
    <2>4. peers' \in [Slots -> Slot]
      BY <1>2, <2>2 DEF Table, r
    <2>5. Active' = Active \ {i}
      BY <2>2, <2>3 DEF Active
    <2>6. \A j \in Active' : peers'[j] = peers[j] /\ peers[j].vip # v
      BY <2>1, <2>3, <2>5 DEF Active, Table, TableConsistent
    <2>7. Cardinality(Active') = Cardinality(Active) - 1
      <3>1. IsFiniteSet(Active)
        BY SlotsFinite DEF Active
      <3> QED
        BY Zenon, <2>1, <2>5, <3>1, FS_RemoveElement
    <2>8. TableConsistent'
      <3>1. \A j, k \in Active' : j # k => peers'[j].vip # peers'[k].vip
        BY <2>5, <2>6 DEF Table, TableConsistent
      <3>2. \A j \in Active' : peers'[j].vip \in Vips
        BY <2>5, <2>6 DEF Table, TableConsistent
      <3>3. peerCount' = Cardinality(Active')
        BY <1>2, <2>7 DEF Table, TableConsistent
      <3> QED
        BY <3>1, <3>2, <3>3 DEF TableConsistent
    <2>9. ViewExact'
      <3>1. {peers'[j].vip : j \in Active'}
              = {peers[j].vip : j \in Active} \ {v}
        BY <2>1, <2>5, <2>6
      <3> QED
        BY <3>1 DEF Table, ViewExact, RemovePeer
    <2> QED
      BY <2>4, <2>8, <2>9 DEF Table, RemovePeer
  <1> QED
    BY <1>1, <1>2 DEF RemovePeer

\* Crediting a packet changes no slot but for its counter.
LEMMA CreditSlots ==
  ASSUME Table, TunCredit
  PROVE  /\ peers' \in [Slots -> Slot]
         /\ \A i \in Slots :
              /\ peers'[i].active = peers[i].active
              /\ peers'[i].vip = peers[i].vip
              /\ peers'[i].bytesOut =
                   IF i \in Credited THEN peers[i].bytesOut + 1
                                     ELSE peers[i].bytesOut
         /\ Active' = Active
  <1>1. ASSUME NEW r \in Slot
        PROVE  LET q == [r EXCEPT !.bytesOut = r.bytesOut + 1]
               IN  /\ q \in Slot
                   /\ q.active = r.active
                   /\ q.vip = r.vip
                   /\ q.bytesOut = r.bytesOut + 1
    BY DEF Slot
  <1>2. ASSUME NEW i \in Slots
        PROVE  /\ peers'[i] \in Slot
               /\ peers'[i].active = peers[i].active
               /\ peers'[i].vip = peers[i].vip
               /\ peers'[i].bytesOut = IF i \in Credited
                                       THEN peers[i].bytesOut + 1
                                       ELSE peers[i].bytesOut
    <2>1. peers[i] \in Slot
      BY DEF Table
    <2>2. peers'[i] = IF i \in Credited
                      THEN [peers[i] EXCEPT !.bytesOut = peers[i].bytesOut + 1]
                      ELSE peers[i]
      BY DEF TunCredit
    <2> QED
      BY <1>1, <2>1, <2>2
  <1>3. peers' = [i \in Slots |-> peers'[i]]
    BY DEF TunCredit
  <1>4. peers' \in [Slots -> Slot]
    BY <1>2, <1>3
  <1>5. Active' = Active
    BY <1>2 DEF Active
  <1> QED
    BY <1>2, <1>4, <1>5

\* ... and so it keeps the table.
LEMMA CreditKeepsTable ==
  ASSUME Table, TunCredit
  PROVE  Table'
  <1>1. /\ peers' \in [Slots -> Slot]
        /\ \A i \in Active : peers'[i].vip = peers[i].vip
        /\ Active' = Active
    BY CreditSlots DEF Active
  <1>2. peerCount' = peerCount /\ expected' = expected
    BY DEF TunCredit
  <1>3. {peers'[j].vip : j \in Active'} = {peers[j].vip : j \in Active}
    BY <1>1
  <1> QED
    BY <1>1, <1>2, <1>3 DEF Table, TableConsistent, ViewExact

\* Every step leaves the table alone, adds a peer, removes one or credits a
\* packet.
LEMMA TableStep ==
  ASSUME TypeOK, [Next]_vars
  PROVE  \/ UNCHANGED tableVars
         \/ /\ UNCHANGED tunVars
            /\ \E v \in Vips : AddPeer(v) \/ RemovePeer(v)
         \/ TunCredit
  <1>1. CASE Main
    <2>1. CASE ApplyEntry
      <3>1. Head(list) \in Entry
        BY <2>1 DEF ApplyEntry, TypeOK
      <3> QED
        BY <2>1, <3>1 DEF ApplyEntry, UpdatePeer, Entry
    <2>2. ASSUME NEW seq \in SeqNums, NEW v \in Vips,
                 HandlePeerJoin(v, seq) \/ HandlePeerLeave(v, seq)
          PROVE  UNCHANGED tunVars /\ (AddPeer(v) \/ RemovePeer(v))
      BY <2>2 DEF HandlePeerJoin, HandlePeerLeave, HandleServerPacket
    <2>3. CASE RegisterSend \/ NoAnswer \/ RegisterError \/ LoopTest \/ LoopNothing
      BY <2>3 DEF RegisterSend, NoAnswer, TryAgain, RegisterError, LoopTest,
                  LoopNothing
    <2>4. ASSUME NEW seq \in SeqNums,
                 \/ Registered(seq) \/ OtherAnswer(seq)
                 \/ \E entries \in Lists : HandlePeerList(entries, seq)
                 \/ HandleDisconnect(seq) \/ HandleOther(seq)
          PROVE  UNCHANGED tableVars
      BY <2>4 DEF Registered, OtherAnswer, TryAgain, HandlePeerList,
                  HandleDisconnect, HandleOther
    <2> QED
      BY <1>1, <2>1, <2>2, <2>3, <2>4 DEF Main
  <1>2. CASE \/ KeepaliveWake \/ KeepaliveLoad \/ KeepaliveStop \/ RequestStop \/ Tick
             \/ \E d \in Destinations : TunRead(d)
    BY <1>2 DEF KeepaliveWake, KeepaliveLoad, KeepaliveStop, RequestStop, Tick, TunRead
  <1>3. CASE UNCHANGED vars
    BY Zenon, <1>3 DEF vars
  <1> QED
    BY <1>1, <1>2, <1>3 DEF Next

\* The table stays consistent and exact.
LEMMA TableInductive ==
  ASSUME TypeOK, Table, [Next]_vars
  PROVE  Table'
  <1>1. CASE UNCHANGED tableVars
    BY Zenon, <1>1 DEF tableVars, Table, TableConsistent, ViewExact, Active
  <1> QED
    BY Zenon, <1>1, TableStep, AddKeepsTable, RemoveKeepsTable, CreditKeepsTable

-----------------------------------------------------------------------------
(* Types. *)

\* The operations on windows yield windows.
LEMMA WindowTypes ==
  /\ ReplayReset \in WindowType
  /\ \A w \in WindowType, seq \in Nat :
       ReplayAccepts(w, seq) => ReplayUpdate(w, seq) \in WindowType
  BY WindowAssumption
     DEF WindowType, ReplayReset, ReplayAccepts, ReplayUpdate, ShiftIn, Bits

\* The lists that arrive are sequences of entries.
LEMMA ListType ==
  ASSUME NEW l \in Lists
  PROVE  l \in Seq(Entry)
  <1>1. PICK n \in 0 .. ListLength : l \in [1 .. n -> Entry]
    BY DEF Lists
  <1>2. n \in Nat
    OBVIOUS
  <1> QED
    BY <1>1, <1>2

MainType ==
  /\ pc \in {"register", "await", "loop", "poll", "list", "stopped", "failed"}
  /\ attempt \in 0 .. RegisterRetries
  /\ pc \in {"register", "await"} => attempt < RegisterRetries
  /\ replay \in WindowType
  /\ list \in Seq(Entry)
  /\ pc = "list" => list # <<>>

KeepaliveType ==
  /\ silence \in 0 .. ServerTimeout + 1
  /\ slept \in 0 .. KeepaliveInterval
  /\ ka \in {"sleep", "load", "stop", "ended"}
  /\ age \in -1 .. ServerTimeout + 1 \cup {None}
  /\ ka = "load" <=> age # None
  /\ age # None => age <= silence

TunType ==
  /\ credit \in Destinations \cup {None}
  /\ sent \in [Destinations -> Nat]
  /\ credit # None => sent[credit] > 0

\* Every step of the main thread leaves its own variables well formed; no
\* other thread touches them.
LEMMA MainTypeStep ==
  ASSUME TypeOK, [Next]_vars
  PROVE  MainType'
  <1>1. MainType
    BY DEF TypeOK, MainType
  <1>2. ASSUME NEW seq \in SeqNums, ReplayAccepts(replay, seq)
        PROVE  ReplayUpdate(replay, seq) \in WindowType
    BY Zenon, <1>1, <1>2, WindowTypes DEF MainType
  <1>3. CASE UNCHANGED mainVars
    BY <1>1, <1>3 DEF mainVars, MainType
  <1>4. CASE RegisterSend \/ RegisterError \/ LoopTest \/ LoopNothing
    BY Zenon, <1>1, <1>4 DEF RegisterSend, RegisterError, LoopTest, LoopNothing, MainType
  <1>5. CASE NoAnswer
    BY <1>1, <1>5 DEF NoAnswer, TryAgain, MainType
  <1>6. ASSUME NEW seq \in SeqNums, OtherAnswer(seq) PROVE MainType'
    BY <1>1, <1>2, <1>6 DEF OtherAnswer, TryAgain, MainType
  <1>7. ASSUME NEW seq \in SeqNums, Registered(seq) PROVE MainType'
    BY Zenon, <1>1, <1>2, <1>7 DEF Registered, MainType
  <1>8. ASSUME NEW seq \in SeqNums, NEW l \in Lists, HandlePeerList(l, seq)
        PROVE  MainType'
    BY Zenon, <1>1, <1>2, <1>8, ListType DEF HandlePeerList, HandleServerPacket, MainType
  <1>9. ASSUME NEW seq \in SeqNums, HandleServerPacket(seq), pc' = "loop", list' = list
        PROVE  MainType'
    BY Zenon, <1>1, <1>2, <1>9 DEF HandleServerPacket, MainType
  <1>10. CASE ApplyEntry
    <2>1. Tail(list) \in Seq(Entry)
      BY <1>1, <1>10 DEF ApplyEntry, MainType
    <2> QED
      BY <1>1, <1>10, <2>1 DEF ApplyEntry, MainType
  <1>11. ASSUME NEW seq \in SeqNums, NEW v \in Vips,
                HandlePeerJoin(v, seq) \/ HandlePeerLeave(v, seq)
         PROVE  MainType'
    BY Zenon, <1>9, <1>11 DEF HandlePeerJoin, HandlePeerLeave
  <1>12. ASSUME NEW seq \in SeqNums, HandleDisconnect(seq) \/ HandleOther(seq)
         PROVE  MainType'
    BY Zenon, <1>9, <1>12 DEF HandleDisconnect, HandleOther
  <1>13. CASE Main
    BY Zenon, <1>4, <1>5, <1>6, <1>7, <1>8, <1>10, <1>11, <1>12, <1>13 DEF Main
  <1> QED
    BY Zenon, <1>3, <1>13 DEF Next, KeepaliveWake, KeepaliveLoad, KeepaliveStop, TunRead, TunCredit,
                       RequestStop, Tick, vars

\* The keepalive thread's idea of the silence is never longer than the silence.
LEMMA KeepaliveTypeStep ==
  ASSUME TypeOK, KeepaliveType, [Next]_vars
  PROVE  KeepaliveType'
  <1>1. CASE UNCHANGED keepaliveVars
    BY <1>1 DEF keepaliveVars, KeepaliveType
  <1>2. CASE MarkServerSeen
    BY <1>2 DEF MarkServerSeen, KeepaliveType
  <1>3. CASE KeepaliveWake
    BY <1>3 DEF KeepaliveWake, KeepaliveType
  <1>4. CASE KeepaliveLoad \/ KeepaliveStop
    BY <1>4 DEF KeepaliveLoad, KeepaliveStop, KeepaliveType
  <1>5. CASE Tick
    BY SMTT(60), <1>5 DEF Tick, KeepaliveType
  <1>6. CASE Main
    BY Zenon, <1>1, <1>2, <1>6
       DEF Main, RegisterSend, NoAnswer, TryAgain, RegisterError, LoopTest,
           LoopNothing, Registered, OtherAnswer, HandlePeerList, HandlePeerJoin,
           HandlePeerLeave, HandleDisconnect, HandleOther, HandleServerPacket,
           ApplyEntry
  <1> QED
    BY Zenon, <1>1, <1>3, <1>4, <1>5, <1>6
       DEF Next, TunRead, TunCredit, RequestStop, vars

\* Only the TUN thread touches its variables.
LEMMA MainKeepsTun ==
  ASSUME Main
  PROVE  UNCHANGED tunVars
  BY Zenon  DEF Main, RegisterSend, NoAnswer, TryAgain, RegisterError, LoopTest,
         LoopNothing, Registered, OtherAnswer, HandlePeerList, HandlePeerJoin,
         HandlePeerLeave, HandleDisconnect, HandleOther, HandleServerPacket,
         ApplyEntry

\* A packet is credited after it was sent.
LEMMA TunTypeStep ==
  ASSUME TunType, [Next]_vars
  PROVE  TunType'
  <1>1. CASE UNCHANGED tunVars
    BY <1>1 DEF tunVars, TunType
  <1>2. ASSUME NEW d \in Destinations, TunRead(d) PROVE TunType'
    <2>1. sent' = [sent EXCEPT ![d] = sent[d] + 1] /\ credit' = d
      BY <1>2 DEF TunRead
    <2> QED
      BY <2>1 DEF TunType
  <1>3. CASE TunCredit
    BY Zenon, <1>3 DEF TunCredit, TunType
  <1> QED
    BY Zenon, <1>1, <1>2, <1>3, MainKeepsTun
       DEF Next, KeepaliveWake, KeepaliveLoad, KeepaliveStop, RequestStop, Tick, vars

-----------------------------------------------------------------------------
(* The counters. *)

\* What is still owed to an address is 0 or 1, and 1 only if it was sent.
LEMMA OwedWasSent ==
  ASSUME TunType, NEW v \in Vips
  PROVE  /\ Owed(v) \in 0 .. 1
         /\ Owed(v) <= sent[v] + sent[BroadcastIp]
         /\ sent[v] \in Nat /\ sent[BroadcastIp] \in Nat
  BY DEF TunType, Owed, Destinations

\* Joins start a counter at zero, leaves drop one, and every credit uses up a
\* packet that was sent.
LEMMA CreditedStep ==
  ASSUME TypeOK, Table, TunType, CreditedOnce, [Next]_vars
  PROVE  CreditedOnce'
  <1>1. CASE UNCHANGED <<tableVars, tunVars>>
    BY Zenon, <1>1 DEF tableVars, tunVars, CreditedOnce, Owed, Active
  <1>2. ASSUME NEW v \in Vips, AddPeer(v), UNCHANGED tunVars
        PROVE  CreditedOnce'
    <2>1. CASE UNCHANGED peers
      BY Zenon, <1>2, <2>1 DEF tunVars, CreditedOnce, Owed, Active
    <2>2. ASSUME NEW i \in Slots, peers' = [peers EXCEPT ![i] = NewEntry(i, v)]
          PROVE  CreditedOnce'
      <3>1. peers'[i].vip = v /\ peers'[i].bytesOut = 0
        BY <2>2 DEF NewEntry, Table
      <3>2. \A j \in Slots \ {i} : peers'[j] = peers[j]
        BY <2>2 DEF Table
      <3>3. credit' = credit /\ sent' = sent
        BY Zenon, <1>2 DEF tunVars
      <3>4. SUFFICES ASSUME NEW j \in Active'
                     PROVE  peers'[j].bytesOut + Owed(peers'[j].vip)
                              <= sent[peers'[j].vip] + sent[BroadcastIp]
        BY Zenon, <3>3 DEF CreditedOnce, Owed
      <3>5. CASE j = i
        BY SMTT(60), <3>1, <3>5, OwedWasSent
      <3>6. CASE j # i
        <4>1. j \in Active /\ peers'[j] = peers[j]
          BY <3>2, <3>6 DEF Active
        <4> QED
          BY <4>1 DEF CreditedOnce
      <3> QED
        BY Zenon, <3>5, <3>6
    <2> QED
      BY Zenon, <1>2, <2>1, <2>2 DEF AddPeer
  <1>3. ASSUME NEW v \in Vips, RemovePeer(v), UNCHANGED tunVars
        PROVE  CreditedOnce'
    <2>1. CASE UNCHANGED peers
      BY Zenon, <1>3, <2>1 DEF tunVars, CreditedOnce, Owed, Active
    <2>2. ASSUME NEW i \in Slots,
                 peers' = [peers EXCEPT ![i] = [peers[i] EXCEPT !.active = FALSE]]
          PROVE  CreditedOnce'
      <3> DEFINE r == [peers[i] EXCEPT !.active = FALSE]
      <3>1. ~r.active
        BY DEF Table, Slot
      <3> HIDE DEF r
      <3>2. \A j \in Slots : peers'[j] = IF j = i THEN r ELSE peers[j]
        BY Zenon, <2>2 DEF Table, r
      <3>3. \A j \in Active' : j \in Active /\ peers'[j] = peers[j]
        BY Zenon, <3>1, <3>2 DEF Active
      <3>4. credit' = credit /\ sent' = sent
        BY Zenon, <1>3 DEF tunVars
      <3> QED
        BY <3>3, <3>4 DEF CreditedOnce, Owed
    <2> QED
      BY Zenon, <1>3, <2>1, <2>2 DEF RemovePeer
  <1>4. CASE TunCredit
    <2> SUFFICES ASSUME NEW i \in Active'
                 PROVE  (peers[i].bytesOut + Owed(peers[i].vip)
                          <= sent[peers[i].vip] + sent[BroadcastIp])'
      BY Zenon DEF CreditedOnce
    <2>1. i \in Active /\ i \in Slots /\ peers'[i].vip = peers[i].vip
      BY <1>4, CreditSlots DEF Active
    <2>2. peers'[i].bytesOut = IF i \in Credited THEN peers[i].bytesOut + 1
                                                 ELSE peers[i].bytesOut
      BY Zenon, <1>4, <2>1, CreditSlots
    <2>3. PICK v \in Vips : v = peers[i].vip
      BY <2>1 DEF Table, TableConsistent
    <2>4. i \in Credited => Owed(v) = 1
      BY <2>3 DEF Credited, IsFirst, SlotsByVip, Owed
    <2>5. credit' = None /\ sent' = sent
      BY Zenon, <1>4 DEF TunCredit
    <2>6. Owed(peers[i].vip)' = 0
      BY Zenon, <2>1, <2>3, <2>5 DEF Owed
    <2>7. peers[i].bytesOut \in Nat
      BY Zenon, <2>1 DEF Table, Slot
    <2>8. peers[i].bytesOut + Owed(v) <= sent[v] + sent[BroadcastIp]
      BY Zenon, <2>1, <2>3 DEF CreditedOnce
    <2>9. peers'[i].bytesOut <= sent[v] + sent[BroadcastIp]
            /\ peers'[i].bytesOut \in Nat
      BY SMTT(60), <2>2, <2>4, <2>7, <2>8, OwedWasSent
    <2> QED
      BY SMTT(60), <2>1, <2>3, <2>5, <2>6, <2>9
  <1>5. ASSUME NEW d \in Destinations, TunRead(d)
        PROVE  CreditedOnce'
    <2> SUFFICES ASSUME NEW i \in Active'
                 PROVE  (peers[i].bytesOut + Owed(peers[i].vip)
                          <= sent[peers[i].vip] + sent[BroadcastIp])'
      BY Zenon  DEF CreditedOnce
    <2>1. peers' = peers /\ credit = None /\ credit' = d
            /\ sent' = [sent EXCEPT ![d] = sent[d] + 1]
      BY Zenon, <1>5 DEF TunRead, tableVars
    <2>2. i \in Active /\ peers[i] \in Slot
      BY Zenon, <2>1 DEF Active, Table
    <2>3. PICK v \in Vips : v = peers[i].vip
      BY Zenon, <2>2 DEF Table, TableConsistent
    <2>4. peers[i].bytesOut \in Nat /\ peers[i].bytesOut + Owed(v) <= sent[v] + sent[BroadcastIp]
      BY Zenon, <2>2, <2>3 DEF CreditedOnce, Slot
    <2>5. Owed(v) = 0
      BY Zenon, <2>1 DEF Owed
    <2>6. Owed(peers[i].vip)' = IF d \in {v, BroadcastIp} THEN 1 ELSE 0
      BY Zenon, <2>1, <2>3 DEF Owed
    <2>7. /\ sent'[v] = IF d = v THEN sent[v] + 1 ELSE sent[v]
          /\ sent'[BroadcastIp] = IF d = BroadcastIp THEN sent[BroadcastIp] + 1
                                                     ELSE sent[BroadcastIp]
          /\ v # BroadcastIp
      BY Zenon, <2>1 DEF TunType, Destinations
    <2>8. sent[v] \in Nat /\ sent[BroadcastIp] \in Nat
      BY Zenon, OwedWasSent
    <2> QED
      BY SMTT(60), <2>1, <2>3, <2>4, <2>5, <2>6, <2>7, <2>8
  <1>6. UNCHANGED tunVars \/ TunCredit \/ \E d \in Destinations : TunRead(d)
    BY Zenon, MainKeepsTun DEF Next, KeepaliveWake, KeepaliveLoad, KeepaliveStop, RequestStop, Tick, vars
  <1> QED
    BY Zenon, <1>1, <1>2, <1>3, <1>4, <1>5, <1>6, TableStep
-----------------------------------------------------------------------------
(* The theorems. *)

\* The parts of the inductive invariant.
LEMMA InvariantParts ==
  IInv <=> /\ MainType
           /\ Table
           /\ KeepaliveType
           /\ TunType
           /\ running \in BOOLEAN
           /\ CreditedOnce
  <1>1. TableConsistent => peerCount \in 0 .. MaxPeers
    BY SlotsFinite DEF TableConsistent, Active
  <1> QED
    BY Zenon, <1>1 DEF IInv, TypeOK, MainType, Table, KeepaliveType, TunType

\* A client starts with the invariant ...
LEMMA InitIInv == Init => IInv
  <1> SUFFICES ASSUME Init PROVE IInv
    OBVIOUS
  <1>1. Active = {}
    BY DEF Init, Active
  <1>2. Table
    <2>1. peers \in [Slots -> Slot]
      BY DEF Init, Slot
    <2>2. TableConsistent
      BY Zenon, <1>1, FS_EmptySet DEF Init, TableConsistent
    <2>3. ViewExact
      BY Zenon, <1>1 DEF Init, ViewExact
    <2> QED
      BY Zenon, <2>1, <2>2, <2>3 DEF Init, Table
  <1>3. MainType
    BY WindowTypes DEF Init, MainType
  <1>4. KeepaliveType
    BY DEF Init, KeepaliveType
  <1>5. TunType
    BY Zenon DEF Init, TunType
  <1>6. CreditedOnce
    BY Zenon, <1>1 DEF CreditedOnce
  <1> QED
    BY Zenon, <1>2, <1>3, <1>4, <1>5, <1>6, InvariantParts DEF Init

\* ... and every step preserves it.
LEMMA StepIInv == IInv /\ [Next]_vars => IInv'
  <1> SUFFICES ASSUME IInv, [Next]_vars PROVE IInv'
    OBVIOUS
  <1>1. TypeOK /\ Table /\ KeepaliveType /\ TunType /\ CreditedOnce
    BY Zenon, InvariantParts DEF IInv
  <1>2. Table' /\ MainType' /\ KeepaliveType' /\ TunType' /\ CreditedOnce'
    BY Zenon, <1>1, TableInductive, MainTypeStep, KeepaliveTypeStep, TunTypeStep,
       CreditedStep
  <1>3. running' \in BOOLEAN
    <2>1. running \in BOOLEAN
      BY DEF IInv, TypeOK
    <2> QED
      BY Zenon, <2>1
         DEF Next, Main, RegisterSend, NoAnswer, TryAgain, RegisterError,
             LoopTest, LoopNothing, Registered, OtherAnswer, HandlePeerList,
             HandlePeerJoin, HandlePeerLeave, HandleDisconnect, HandleOther,
             ApplyEntry, KeepaliveWake, KeepaliveLoad, KeepaliveStop, TunRead, TunCredit,
             RequestStop, Tick, vars
  <1>4. (/\ MainType
         /\ Table
         /\ KeepaliveType
         /\ TunType
         /\ running \in BOOLEAN
         /\ CreditedOnce)' => IInv'
    BY InvariantParts, PTL
  <1> QED
    BY <1>2, <1>3, <1>4

\* The inductive invariant holds throughout, whatever the server sends and
\* however the client's threads interleave.
THEOREM ClientInvariant == Spec => []IInv
  BY InitIInv, StepIInv, PTL DEF Spec

\* The state of the client is well formed, peer_count included.
THEOREM ClientTypes == Spec => []TypeOK
  <1>1. IInv => TypeOK
    BY Zenon DEF IInv
  <1> QED
    BY <1>1, ClientInvariant, PTL

\* No two slots of the client's table hold the same address.
THEOREM ClientTableIsConsistent == Spec => []TableConsistent
  <1>1. IInv => TableConsistent
    BY Zenon DEF IInv
  <1> QED
    BY <1>1, ClientInvariant, PTL

\* The client's table is exactly what the messages it has handled add up to:
\* no peer is turned away.
THEOREM ClientViewIsExact == Spec => []ViewExact
  <1>1. IInv => ViewExact
    BY DEF IInv
  <1> QED
    BY <1>1, ClientInvariant, PTL

\* No peer is credited with a packet that was not sent to it, or twice.
THEOREM ClientCreditsOnce == Spec => []CreditedOnce
  <1>1. IInv => CreditedOnce
    BY DEF IInv
  <1> QED
    BY <1>1, ClientInvariant, PTL

\* The keepalive thread decides to stop the client only when the server is
\* silent, whatever arrives between its two reads.
THEOREM ClientStopsOnSilence == Spec => StopsOnlyOnSilence
  <1> DEFINE A == ka # "stop" /\ ka' = "stop" => silence > ServerTimeout
  <1>1. IInv /\ [Next]_vars => [A]_vars
    <2> SUFFICES ASSUME IInv, Next, ka # "stop", ka' = "stop"
                 PROVE  silence > ServerTimeout
      OBVIOUS
    <2>1. ~UNCHANGED ka /\ ~MarkServerSeen
      BY DEF MarkServerSeen
    <2>2. ~KeepaliveWake /\ ~KeepaliveStop
      BY DEF KeepaliveWake, KeepaliveStop
    <2>3. KeepaliveLoad
      BY Zenon, <2>1, <2>2
         DEF Next, Main, RegisterSend, NoAnswer, TryAgain, RegisterError,
             LoopTest, LoopNothing, Registered, OtherAnswer, HandlePeerList,
             HandlePeerJoin, HandlePeerLeave, HandleDisconnect, HandleOther,
             HandleServerPacket, ApplyEntry, TunRead, TunCredit,
             RequestStop, Tick, keepaliveVars
    <2>4. age > 0 /\ Unsigned(age) > ServerTimeout
      BY <2>3 DEF KeepaliveLoad, ServerTimedOut
    <2>5. age <= silence /\ age \in Int /\ silence \in Int
      BY <2>3 DEF IInv, TypeOK, KeepaliveLoad
    <2> QED
      BY <2>4, <2>5 DEF Unsigned
  <1> QED
    BY <1>1, ClientInvariant, PTL DEF Spec, StopsOnlyOnSilence

HIDE ClientAssumption
-----------------------------------------------------------------------------
(* Induction. *)

\* Every nonempty set of natural numbers has a least element.
LEMMA NatMin ==
  ASSUME NEW T \in SUBSET Nat, T # {}
  PROVE  \E n \in T : \A m \in T : n <= m
  <1>1. IsWellFoundedOn(OpToRel(<, Nat), Nat)
    BY NatLessThanWellFounded, Zenon
  <1>2. PICK x \in T : \A y \in T : ~(<<y, x>> \in OpToRel(<, Nat))
    BY <1>1, WFMin, Zenon
  <1>3. \A y \in T : ~(<<y, x>> \in {ss \in Nat \X Nat : ss[1] < ss[2]})
    BY <1>2, Zenon DEF OpToRel
  <1>4. \A y \in T : ~(y < x)
    <2> SUFFICES ASSUME NEW y \in T, y < x PROVE FALSE
      BY Zenon
    <2>1. /\ <<y, x>>[1] = y
          /\ <<y, x>>[2] = x
          /\ <<y, x>> \in Nat \X Nat
      BY SMT
    <2> QED
      BY <2>1, <1>3, Zenon
  <1> QED
    BY <1>4, SMT

\* Induction over the natural numbers, stated with a set.
LEMMA SetInduction ==
  ASSUME NEW S, 0 \in S, \A n \in Nat : n \in S => n + 1 \in S
  PROVE  \A n \in Nat : n \in S
  <1> SUFFICES ASSUME NEW k \in Nat, k \notin S PROVE FALSE
    BY Zenon
  <1> DEFINE T == Nat \ S
  <1>1. PICK n \in T : \A m \in T : n <= m
    <2>1. T \in SUBSET Nat /\ T # {}
      BY Zenon
    <2> QED
      BY <2>1, NatMin, Zenon
  <1>2. n \in Nat \ {0}
    BY <1>1, Zenon
  <1>3. n - 1 \in Nat /\ (n - 1) + 1 = n /\ ~(n <= n - 1)
    BY <1>2, SMT
  <1>4. n - 1 \in S
    BY <1>1, <1>3, Zenon
  <1> QED
    BY <1>1, <1>3, <1>4, Zenon
-----------------------------------------------------------------------------
(* The messages: where the fields of a payload are. *)

\* Each field ends where the one before it does, and its size further.
LEMMA EndUnfolds ==
  ASSUME NEW body, Len(body) \in Nat
  PROVE  /\ EndOf(body)[0] = 0
         /\ \A i \in 1 .. Len(body) : EndOf(body)[i] = EndOf(body)[i - 1] + body[i].size
  <1> DEFINE f == EndOf(body)
  <1>1. FiniteNatInductiveDefHypothesis(f, 0, LAMBDA e, i : e + body[i].size, 0, Len(body))
    BY Zenon DEF FiniteNatInductiveDefHypothesis, EndOf
  <1>2. FiniteNatInductiveDefConclusion(f, 0, LAMBDA e, i : e + body[i].size, 0, Len(body))
    BY <1>1, FiniteNatInductiveDef, Zenon
  <1>3. f = [i \in 0 .. Len(body) |-> IF i = 0 THEN 0 ELSE f[i - 1] + body[i].size]
    BY <1>2, Zenon DEF FiniteNatInductiveDefConclusion
  <1> HIDE DEF f
  <1>4. f[0] = 0 /\ \A i \in 1 .. Len(body) : f[i] = f[i - 1] + body[i].size
    BY <1>3
  <1> QED
    BY <1>4 DEF f

\* The j-th field is the only one of that size at that offset.
Alone(body, offset, size, j) ==
  \A i \in 1 .. Len(body) : (EndOf(body)[i - 1] = offset /\ body[i].size = size) <=> i = j

\* A field that is alone at its place is what is found there.
LEMMA FoundAt ==
  ASSUME NEW body, NEW offset, NEW size, NEW j \in 1 .. Len(body), Alone(body, offset, size, j)
  PROVE  At(body, offset, size) = body[j].val
  <1> DEFINE I == {i \in 1 .. Len(body) : EndOf(body)[i - 1] = offset /\ body[i].size = size}
  <1>1. I = {j}
    BY DEF Alone
  <1> HIDE DEF I
  <1>2. I # {} /\ (CHOOSE i \in I : TRUE) = j
    BY <1>1
  <1> QED
    BY <1>2, Zenon DEF At, I

\* A field is what it was made of.
LEMMA FieldParts ==
  ASSUME NEW size, NEW val
  PROVE  Field(size, val).size = size /\ Field(size, val).val = val
  BY Zenon DEF Field

\* A payload of one field: its size, and what is found in it
LEMMA OneField ==
  ASSUME NEW x, NEW k \in Nat
  PROVE  LET body == <<Field(k, x)>> IN SizeOf(body) = k /\ At(body, 0, k) = x
  <1> DEFINE f == Field(k, x)
             body == <<f>>
             e == EndOf(body)
  <1>a. f.size = k /\ f.val = x
    BY FieldParts, Zenon
  <1> HIDE DEF f
  <1>1. Len(body) = 1 /\ body[1] = f
    OBVIOUS
  <1>2. e[0] = 0 /\ \A i \in 1 .. 1 : e[i] = e[i - 1] + body[i].size
    BY <1>1, EndUnfolds
  <1> HIDE DEF body, e
  <1>3. e[1] = k
    BY <1>a, <1>1, <1>2
  <1>4. Alone(body, 0, k, 1)
    BY <1>a, <1>1, <1>2 DEF Alone, e
  <1>5. At(body, 0, k) = body[1].val
    BY <1>1, <1>4, FoundAt
  <1> QED
    BY <1>a, <1>1, <1>3, <1>5, Zenon DEF SizeOf, body, e, f

\* A payload of two fields
LEMMA TwoFields ==
  ASSUME NEW x, NEW y, NEW k \in Nat \ {0}, NEW l \in Nat
  PROVE  LET body == <<Field(k, x), Field(l, y)>> IN
         /\ SizeOf(body) = k + l
         /\ At(body, 0, k) = x /\ At(body, k, l) = y
  <1> DEFINE f == Field(k, x)
             g == Field(l, y)
             body == <<f, g>>
             e == EndOf(body)
  <1>a. f.size = k /\ f.val = x /\ g.size = l /\ g.val = y
    BY FieldParts, Zenon
  <1> HIDE DEF f, g
  <1>1. Len(body) = 2 /\ body[1] = f /\ body[2] = g
    OBVIOUS
  <1>2. e[0] = 0 /\ \A i \in 1 .. 2 : e[i] = e[i - 1] + body[i].size
    BY <1>1, EndUnfolds
  <1> HIDE DEF body, e
  <1>3. e[1] = k /\ e[2] = k + l
    BY <1>a, <1>1, <1>2
  <1>4. /\ \A i \in 1 .. 2 : i = 1 \/ i = 2
        /\ 1 \in 1 .. 2 /\ 2 \in 1 .. 2 /\ 1 # 2 /\ 1 - 1 = 0 /\ 2 - 1 = 1 /\ k # 0
    OBVIOUS
  <1>0. 1 \in 1 .. Len(body) /\ 2 \in 1 .. Len(body)
    BY <1>1
  <1>5. Alone(body, 0, k, 1)
    BY <1>a, <1>1, <1>2, <1>3, <1>4, Zenon DEF Alone, e
  <1>6. Alone(body, k, l, 2)
    BY <1>a, <1>1, <1>2, <1>3, <1>4, Zenon DEF Alone, e
  <1>7. At(body, 0, k) = body[1].val
    BY <1>0, <1>5, FoundAt, Zenon
  <1>8. At(body, k, l) = body[2].val
    BY <1>0, <1>6, FoundAt, Zenon
  <1> QED
    BY <1>a, <1>1, <1>3, <1>7, <1>8, Zenon DEF SizeOf, body, e, f, g

\* A payload of three fields
LEMMA ThreeFields ==
  ASSUME NEW x, NEW y, NEW z, NEW k \in Nat \ {0}, NEW l \in Nat \ {0}, NEW m \in Nat
  PROVE  LET body == <<Field(k, x), Field(l, y), Field(m, z)>> IN
         /\ SizeOf(body) = k + l + m
         /\ At(body, 0, k) = x /\ At(body, k, l) = y
         /\ At(body, k + l, m) = z
  <1> DEFINE f == Field(k, x)
             g == Field(l, y)
             h == Field(m, z)
             body == <<f, g, h>>
             e == EndOf(body)
  <1>a. f.size = k /\ f.val = x /\ g.size = l /\ g.val = y /\ h.size = m /\ h.val = z
    BY FieldParts, Zenon
  <1> HIDE DEF f, g, h
  <1>1. Len(body) = 3 /\ body[1] = f /\ body[2] = g /\ body[3] = h
    OBVIOUS
  <1>2. e[0] = 0 /\ \A i \in 1 .. 3 : e[i] = e[i - 1] + body[i].size
    BY <1>1, EndUnfolds
  <1> HIDE DEF body, e
  <1>3. e[1] = k /\ e[2] = k + l /\ e[3] = k + l + m
    BY <1>a, <1>1, <1>2
  <1>4. /\ \A i \in 1 .. 3 : i = 1 \/ i = 2 \/ i = 3
        /\ 1 \in 1 .. 3 /\ 2 \in 1 .. 3 /\ 3 \in 1 .. 3 /\ 1 # 2 /\ 1 # 3 /\ 2 # 3
        /\ 1 - 1 = 0 /\ 2 - 1 = 1 /\ 3 - 1 = 2
        /\ k # 0 /\ k + l # 0 /\ k + l # k
    OBVIOUS
  <1>0. 1 \in 1 .. Len(body) /\ 2 \in 1 .. Len(body) /\ 3 \in 1 .. Len(body)
    BY <1>1
  <1>5. Alone(body, 0, k, 1)
    BY <1>a, <1>1, <1>2, <1>3, <1>4, Zenon DEF Alone, e
  <1>6. Alone(body, k, l, 2)
    BY <1>a, <1>1, <1>2, <1>3, <1>4, Zenon DEF Alone, e
  <1>7. Alone(body, k + l, m, 3)
    BY <1>a, <1>1, <1>2, <1>3, <1>4, ZenonT(60) DEF Alone, e
  <1>8. At(body, 0, k) = body[1].val
    BY <1>0, <1>5, FoundAt, Zenon
  <1>9. At(body, k, l) = body[2].val
    BY <1>0, <1>6, FoundAt, Zenon
  <1>10. At(body, k + l, m) = body[3].val
    BY <1>0, <1>7, FoundAt, Zenon
  <1> QED
    BY <1>a, <1>1, <1>3, <1>8, <1>9, <1>10, Zenon DEF SizeOf, body, e, f, g, h

\* All fields are of that size.
AllOf(body, z) == \A i \in 1 .. Len(body) : body[i].size = z

\* The payload of a list: entry after entry, all of the same size
LEMMA EqualFields ==
  ASSUME NEW body, Len(body) \in Nat, NEW z \in Nat \ {0}, AllOf(body, z)
  PROVE  /\ SizeOf(body) = Len(body) * z
         /\ \A j \in 1 .. Len(body) : At(body, (j - 1) * z, z) = body[j].val
  <1> DEFINE n == Len(body)
             e == EndOf(body)
             S == {i \in Nat : i <= n => e[i] = i * z}
  <1>1. e[0] = 0 /\ \A i \in 1 .. n : e[i] = e[i - 1] + body[i].size
    BY EndUnfolds, Zenon
  <1> HIDE DEF e
  <1>2. 0 \in S
    BY <1>1
  <1>3. ASSUME NEW i \in Nat, i \in S PROVE i + 1 \in S
    <2> SUFFICES ASSUME i + 1 <= n PROVE e[i + 1] = (i + 1) * z
      OBVIOUS
    <2>1. i + 1 \in 1 .. n /\ (i + 1) - 1 = i /\ i <= n
      OBVIOUS
    <2>2. e[i + 1] = e[i] + z /\ e[i] = i * z
      BY <1>1, <1>3, <2>1, Zenon DEF AllOf
    <2>3. i * z + z = (i + 1) * z
      OBVIOUS
    <2> QED
      BY <2>2, <2>3, Zenon
  <1>4. \A i \in Nat : i \in S
    <2> HIDE DEF S
    <2> QED
      BY <1>2, <1>3, SetInduction, Zenon
  <1>5. \A i \in 0 .. n : e[i] = i * z
    BY <1>4
  <1>6. ASSUME NEW j \in 1 .. n PROVE At(body, (j - 1) * z, z) = body[j].val
    <2>1. ASSUME NEW i \in 1 .. n PROVE (e[i - 1] = (j - 1) * z /\ body[i].size = z) <=> i = j
      <3>1. i - 1 \in Nat /\ j - 1 \in Nat /\ e[i - 1] = (i - 1) * z /\ body[i].size = z
        BY <1>5 DEF AllOf
      <3>2. (i - 1) * z = (j - 1) * z => i - 1 = j - 1
        <4>1. \A x, y \in Nat : x * z = y * z => x = y
          OBVIOUS
        <4> QED
          BY <3>1, <4>1, Zenon
      <3>3. i - 1 = j - 1 => i = j
        OBVIOUS
      <3> QED
        BY <3>1, <3>2, <3>3, Zenon
    <2>2. Alone(body, (j - 1) * z, z, j)
      BY <2>1, Zenon DEF Alone, e
    <2> QED
      BY <2>2, FoundAt, Zenon
  <1>7. SizeOf(body) = n * z
    <2>1. n \in 0 .. n
      OBVIOUS
    <2> QED
      BY <1>5, <2>1, Zenon DEF SizeOf, e
  <1> QED
    BY <1>6, <1>7, Zenon
-----------------------------------------------------------------------------
(* What a handler reads in what a builder wrote, message by message. *)

\* The payload of a message has a size, a list fits the buffer, and the handler
\* reads in the payload what the message says.
Carried(m, is) ==
  /\ SizeOf(BodyOf(m)) \in Nat
  /\ m.type = "PEER_LIST" => SizeOf(BodyOf(m)) <= MaxPlaintext
  /\ Read(m.type, BodyOf(m), SizeOf(BodyOf(m))) = is

\* A name of up to 32 bytes is sent as it is; server_handle_register cuts it to
\* 31, or makes one up when there is none.
LEMMA RegisterCarried ==
  ASSUME NEW m \in Inputs, m.type = "REGISTER"
  PROVE  Carried(m, [name |-> IF m.name = 0 THEN "peer-" ELSE Shown(m.name)])
  <1>1. m.name \in Nat
    BY WireAssumption, Zenon
  <1>2. BodyOf(m) = RegisterBody(m.name)
    BY Zenon DEF BodyOf
  <1>3. Read(m.type, BodyOf(m), SizeOf(BodyOf(m))) = ReadName(SizeOf(BodyOf(m)))
    BY Zenon DEF Read
  <1>4. SizeOf(RegisterBody(m.name)) = Least(m.name, NameLen)
    <2>1. CASE m.name = 0
      <3>1. RegisterBody(m.name) = <<>> /\ Least(m.name, NameLen) = 0
        BY <2>1 DEF RegisterBody, Least, NameLen
      <3>2. Len(<<>>) = 0
        OBVIOUS
      <3> QED
        BY <3>1, <3>2, EndUnfolds DEF SizeOf
    <2>2. CASE m.name # 0
      <3> DEFINE n == Least(m.name, NameLen)
      <3>1. n \in Nat /\ n # 0
        BY <1>1, <2>2 DEF Least, NameLen
      <3>2. RegisterBody(m.name) = <<Field(n, n)>>
        BY <3>1, Zenon DEF RegisterBody
      <3> HIDE DEF n
      <3>3. SizeOf(<<Field(n, n)>>) = n
        BY <3>1, OneField, Zenon
      <3> QED
        BY <3>2, <3>3 DEF n
    <2> QED
      BY <2>1, <2>2
  <1>5. Least(m.name, NameLen) \in Nat
    BY <1>1 DEF Least, NameLen
  <1>6. ReadName(Least(m.name, NameLen)) = [name |-> IF m.name = 0 THEN "peer-" ELSE Shown(m.name)]
    BY <1>1 DEF ReadName, Least, NameLen, Shown
  <1>7. m.type # "PEER_LIST"
    OBVIOUS
  <1> QED
    BY <1>2, <1>3, <1>4, <1>5, <1>6, <1>7, Zenon DEF Carried

\* The client reads the address, the mask and the MTU it was assigned.
LEMMA AssignCarried ==
  ASSUME NEW m \in Inputs, m.type = "ASSIGN"
  PROVE  Carried(m, [ip |-> m.ip, mask |-> m.mask, mtu |-> m.mtu])
  <1> DEFINE body == <<Field(4, m.ip), Field(4, m.mask), Field(2, m.mtu)>>
  <1>1. BodyOf(m) = body
    BY Zenon DEF BodyOf, AssignBody
  <1>2. Read(m.type, BodyOf(m), SizeOf(BodyOf(m))) = ReadAssign(BodyOf(m), SizeOf(BodyOf(m)))
    BY Zenon DEF Read
  <1>3. 4 \in Nat \ {0} /\ 2 \in Nat /\ 4 + 4 = 8 /\ 8 + 2 = 10 /\ 10 \in Nat /\ ~(10 < 10)
    OBVIOUS
  <1>4. /\ SizeOf(body) = 4 + 4 + 2
        /\ At(body, 0, 4) = m.ip /\ At(body, 4, 4) = m.mask /\ At(body, 4 + 4, 2) = m.mtu
    BY <1>3, ThreeFields
  <1> HIDE DEF body
  <1>5. ReadAssign(body, 10) = [ip |-> m.ip, mask |-> m.mask, mtu |-> m.mtu]
    BY <1>3, <1>4, Zenon DEF ReadAssign
  <1>6. m.type # "PEER_LIST"
    OBVIOUS
  <1> QED
    BY <1>1, <1>2, <1>3, <1>4, <1>5, <1>6, Zenon DEF Carried

\* The name of a peer that joins is sent in 32 bytes, the last of them zero.
LEMMA JoinCarried ==
  ASSUME NEW m \in Inputs, m.type = "PEER_JOIN"
  PROVE  Carried(m, [ip |-> m.ip, name |-> Shown(m.name)])
  <1> DEFINE body == <<Field(4, m.ip), Field(32, Shown(m.name))>>
  <1>1. BodyOf(m) = body
    BY Zenon DEF BodyOf, JoinBody, NameField, NameLen, Shown
  <1>2. Read(m.type, BodyOf(m), SizeOf(BodyOf(m))) = ReadJoin(BodyOf(m), SizeOf(BodyOf(m)))
    BY Zenon DEF Read
  <1>3. 4 \in Nat \ {0} /\ 32 \in Nat /\ 4 + 32 = 36 /\ 36 \in Nat /\ ~(36 < 36)
    OBVIOUS
  <1>4. SizeOf(body) = 4 + 32 /\ At(body, 0, 4) = m.ip /\ At(body, 4, 32) = Shown(m.name)
    BY <1>3, TwoFields
  <1> HIDE DEF body
  <1>5. ReadJoin(body, 36) = [ip |-> m.ip, name |-> Shown(m.name)]
    BY <1>3, <1>4, Zenon DEF ReadJoin, NameLen
  <1>6. m.type # "PEER_LIST"
    OBVIOUS
  <1> QED
    BY <1>1, <1>2, <1>3, <1>4, <1>5, <1>6, Zenon DEF Carried

\* The address of a peer that leaves
LEMMA LeaveCarried ==
  ASSUME NEW m \in Inputs, m.type = "PEER_LEAVE"
  PROVE  Carried(m, [ip |-> m.ip])
  <1> DEFINE body == <<Field(4, m.ip)>>
  <1>1. BodyOf(m) = body
    BY Zenon DEF BodyOf, LeaveBody
  <1>2. Read(m.type, BodyOf(m), SizeOf(BodyOf(m))) = ReadLeave(BodyOf(m), SizeOf(BodyOf(m)))
    BY Zenon DEF Read
  <1>3. 4 \in Nat /\ ~(4 < 4)
    OBVIOUS
  <1>4. SizeOf(body) = 4 /\ At(body, 0, 4) = m.ip
    BY <1>3, OneField, Zenon
  <1> HIDE DEF body
  <1>5. ReadLeave(body, 4) = [ip |-> m.ip]
    BY <1>3, <1>4, Zenon DEF ReadLeave
  <1>6. m.type # "PEER_LIST"
    OBVIOUS
  <1> QED
    BY <1>1, <1>2, <1>3, <1>4, <1>5, <1>6, Zenon DEF Carried

\* The time of a keepalive and of its answer
LEMMA TimestampCarried ==
  ASSUME NEW m \in Inputs, m.type \in {"KEEPALIVE", "KEEPALIVE_ACK"}
  PROVE  Carried(m, [time |-> m.time])
  <1> DEFINE body == <<Field(8, m.time)>>
  <1>1. BodyOf(m) = body
    BY DEF BodyOf, TimestampBody
  <1>2. Read(m.type, BodyOf(m), SizeOf(BodyOf(m))) = ReadTimestamp(BodyOf(m), SizeOf(BodyOf(m)))
    BY DEF Read
  <1>3. 8 \in Nat /\ ~(8 < 8)
    OBVIOUS
  <1>4. SizeOf(body) = 8 /\ At(body, 0, 8) = m.time
    BY <1>3, OneField, Zenon
  <1> HIDE DEF body
  <1>5. ReadTimestamp(body, 8) = [time |-> m.time]
    BY <1>3, <1>4, Zenon DEF ReadTimestamp
  <1>6. m.type # "PEER_LIST"
    OBVIOUS
  <1> QED
    BY <1>1, <1>2, <1>3, <1>4, <1>5, <1>6, Zenon DEF Carried

\* A packet is as long where it arrives as where it was sent.
LEMMA DataCarried ==
  ASSUME NEW m \in Inputs, m.type = "DATA"
  PROVE  Carried(m, [len |-> m.len])
  <1>1. m.len \in Nat
    BY WireAssumption, Zenon
  <1>2. BodyOf(m) = <<Field(m.len, m.len)>>
    BY Zenon DEF BodyOf, DataBody
  <1>3. Read(m.type, BodyOf(m), SizeOf(BodyOf(m))) = [len |-> SizeOf(BodyOf(m))]
    BY Zenon DEF Read
  <1>4. SizeOf(BodyOf(m)) = m.len
    BY <1>1, <1>2, OneField, Zenon
  <1>5. m.type # "PEER_LIST"
    OBVIOUS
  <1> QED
    BY <1>1, <1>3, <1>4, <1>5, Zenon DEF Carried

\* A DISCONNECT has no payload.
LEMMA DisconnectCarried ==
  ASSUME NEW m \in Inputs, m.type = "DISCONNECT"
  PROVE  Carried(m, <<>>)
  <1>1. BodyOf(m) = <<>>
    BY Zenon DEF BodyOf, DisconnectBody
  <1>2. Read(m.type, BodyOf(m), SizeOf(BodyOf(m))) = <<>>
    BY Zenon DEF Read
  <1>3. Len(<<>>) = 0 /\ 0 \in Nat /\ m.type # "PEER_LIST"
    OBVIOUS
  <1>4. SizeOf(<<>>) = 0
    BY <1>3, EndUnfolds DEF SizeOf
  <1> QED
    BY <1>1, <1>2, <1>3, <1>4, Zenon DEF Carried

\* As many entries as fit, each of which is read where it was written.
LEMMA ListCarried ==
  ASSUME NEW m \in Inputs, m.type = "PEER_LIST"
  PROVE  Carried(m, [entries |-> [i \in 1 .. Least(43, Len(m.entries)) |->
                       [ip |-> m.entries[i].ip, name |-> Shown(m.entries[i].name),
                        online |-> TRUE]]])
  <1> DEFINE n == Least(43, Len(m.entries))
             Item(i) == [ip |-> m.entries[i].ip, name |-> Shown(m.entries[i].name),
                          online |-> TRUE]
             body == [i \in 1 .. n |-> Field(37, Item(i))]
  <1>1. Len(m.entries) \in Nat
    BY WireAssumption, Zenon
  <1>2. 4 + 32 + 1 = 37 /\ 1600 \div 37 = 43
    OBVIOUS
  <1>3. Least(Len(m.entries), 43) = n /\ n \in Nat /\ n <= 43
    BY <1>1 DEF Least
  <1>4. BodyOf(m) = body
    <2>1. BodyOf(m) = ListBody(m.entries)
      BY Zenon DEF BodyOf
    <2>2. EntrySize = 37 /\ MaxPlaintext \div EntrySize = 43
      BY <1>2 DEF EntrySize, NameLen, MaxPlaintext
    <2>3. \A i : NameField(m.entries[i].name).val = Shown(m.entries[i].name)
      BY Zenon DEF NameField, Field, Shown
    <2> QED
      BY <1>3, <2>1, <2>2, <2>3, Zenon DEF ListBody
  <1>5. Read(m.type, BodyOf(m), SizeOf(BodyOf(m))) = ReadList(BodyOf(m), SizeOf(BodyOf(m)))
    BY Zenon DEF Read
  <1> HIDE DEF n, Item
  <1>6. Len(body) = n
    BY <1>3
  <1>12. \A i \in 1 .. n : body[i] = Field(37, Item(i))
    OBVIOUS
  <1> HIDE DEF body
  <1>13. \A i \in 1 .. n : body[i].size = 37 /\ body[i].val = Item(i)
    BY <1>12, FieldParts
  <1>7. AllOf(body, 37)
    BY <1>6, <1>13, Zenon DEF AllOf
  <1>8. 37 \in Nat \ {0}
    OBVIOUS
  <1>9. SizeOf(body) = n * 37 /\ \A j \in 1 .. n : At(body, (j - 1) * 37, 37) = body[j].val
    BY <1>3, <1>6, <1>7, <1>8, EqualFields, Zenon
  <1>10. n * 37 \in Nat /\ n * 37 <= 1600 /\ (n * 37) \div 37 = n
    BY <1>3
  <1> DEFINE all == [i \in 1 .. n |-> Item(i)]
             found == [i \in 1 .. n |-> At(body, (i - 1) * 37, 37)]
  <1>14. found = all
    BY <1>9, <1>13, Zenon
  <1>15. ReadList(body, n * 37) = [entries |-> found]
    <2>1. EntrySize = 37
      BY DEF EntrySize, NameLen
    <2> QED
      BY <1>10, <2>1 DEF ReadList
  <1> HIDE DEF all, found
  <1>11. ReadList(body, n * 37) = [entries |-> all]
    BY <1>14, <1>15, Zenon
  <1>16. Read(m.type, BodyOf(m), SizeOf(BodyOf(m))) = [entries |-> all]
    BY <1>4, <1>5, <1>9, <1>11, Zenon
  <1>17. SizeOf(BodyOf(m)) \in Nat /\ SizeOf(BodyOf(m)) <= MaxPlaintext
    BY <1>4, <1>9, <1>10 DEF MaxPlaintext
  <1>18. Carried(m, [entries |-> all])
    BY <1>16, <1>17, Zenon DEF Carried
  <1> QED
    BY <1>18, Zenon DEF all, n, Item

\* Every message is carried.
LEMMA AllCarried ==
  ASSUME NEW m \in Inputs
  PROVE  Carried(m, Said(m).is)
  <1>1. CASE m.type = "REGISTER"
    BY <1>1, RegisterCarried, Zenon DEF Said
  <1>2. CASE m.type = "ASSIGN"
    BY <1>2, AssignCarried, Zenon DEF Said
  <1>3. CASE m.type = "PEER_LIST"
    BY <1>3, ListCarried, Zenon DEF Said
  <1>4. CASE m.type = "PEER_JOIN"
    BY <1>4, JoinCarried, Zenon DEF Said
  <1>5. CASE m.type = "PEER_LEAVE"
    BY <1>5, LeaveCarried, Zenon DEF Said
  <1>6. CASE m.type = "DATA"
    BY <1>6, DataCarried, Zenon DEF Said
  <1>7. CASE m.type \in {"KEEPALIVE", "KEEPALIVE_ACK"}
    BY <1>7, TimestampCarried, Zenon DEF Said
  <1>8. CASE m.type = "DISCONNECT"
    BY <1>8, DisconnectCarried, Zenon DEF Said
  <1>9. m.type \in Types
    BY WireAssumption, Zenon
  <1> QED
    BY <1>1, <1>2, <1>3, <1>4, <1>5, <1>6, <1>7, <1>8, <1>9, Zenon DEF Types
-----------------------------------------------------------------------------
(* What decryption makes of a datagram. *)

\* What is locked tells headers and payloads apart.
LEMMA SealedTells ==
  ASSUME NEW g, NEW h, Sealed(g) = Sealed(h)
  PROVE  /\ g.version = h.version /\ g.type = h.type /\ g.length = h.length
         /\ g.number = h.number /\ g.body = h.body
  <1>1. /\ Sealed(g).version = Sealed(h).version /\ Sealed(g).type = Sealed(h).type
        /\ Sealed(g).length = Sealed(h).length /\ Sealed(g).number = Sealed(h).number
        /\ Sealed(g).body = Sealed(h).body
    BY Zenon
  <1> QED
    BY <1>1, Zenon DEF Sealed

\* The datagram proto_encrypt makes
LEMMA EncryptParts ==
  ASSUME NEW b, NEW n
  PROVE  LET d == Encrypt(b, n) IN
         /\ d = [hdr |-> d.hdr, sealed |-> Sealed(d.hdr), size |-> HdrSize + (b.length + TagSize)]
         /\ d.hdr = [version |-> Version, type |-> b.type, length |-> b.length + TagSize,
                     number |-> n, body |-> b.body]
  BY Zenon DEF Encrypt, Lock

\* What the network makes of a datagram
Changed(d, x) ==
  \/ x = [d EXCEPT !.hdr.version = @ + 1]
  \/ x = [d EXCEPT !.hdr.type = IF @ = "DATA" THEN "ASSIGN" ELSE "DATA"]
  \/ \E k \in {0, d.hdr.length - 1, d.hdr.length + 1} : x = [d EXCEPT !.hdr.length = k]
  \/ \E k \in {0, d.hdr.number + 1} : x = [d EXCEPT !.hdr.number = k]
  \/ x = [d EXCEPT !.hdr.body = Nothing]
  \/ \E k \in {0, HdrSize, d.size - 1} : x = [d EXCEPT !.size = k]

\* A change of the header, of the payload or of the size makes proto_decrypt
\* refuse the datagram.
LEMMA DamagedIsRefused ==
  ASSUME NEW b, NEW n \in Nat \ {0}, b.length \in Nat, b.body # Nothing,
         NEW d, d = Encrypt(b, n), NEW x, Changed(d, x)
  PROVE  ~Decrypts(x) /\ x.size <= d.size
  <1> DEFINE h == d.hdr
  <1>1. /\ d = [hdr |-> h, sealed |-> Sealed(h), size |-> 37 + (b.length + 16)]
        /\ h = [version |-> 4, type |-> b.type, length |-> b.length + 16, number |-> n,
                body |-> b.body]
    BY EncryptParts, ZenonT(60) DEF HdrSize, TagSize, Version
  <1>2. /\ h.version = 4 /\ h.type = b.type /\ h.length = b.length + 16
        /\ h.number = n /\ h.body = b.body
    BY <1>1
  <1>3. d.size = 37 + (b.length + 16) /\ d.size \in Nat /\ d.size >= 53
    BY <1>1
  <1> HIDE DEF h
  <1>4. CASE /\ x.size = d.size /\ x.sealed = Sealed(h)
             /\ \/ x.hdr.version # h.version \/ x.hdr.type # h.type \/ x.hdr.length # h.length
                \/ x.hdr.number # h.number \/ x.hdr.body # h.body
    <2>1. ASSUME Sealed(x.hdr) = Sealed(h) PROVE FALSE
      <3>1. /\ x.hdr.version = h.version /\ x.hdr.type = h.type /\ x.hdr.length = h.length
            /\ x.hdr.number = h.number /\ x.hdr.body = h.body
        BY <2>1, SealedTells, Zenon
      <3> QED
        BY <1>4, <3>1, Zenon
    <2>2. ~Decrypts(x)
      BY <1>4, <2>1, Zenon DEF Decrypts
    <2>3. x.size <= d.size
      BY <1>3, <1>4
    <2> QED
      BY <2>2, <2>3, Zenon
  <1>5. CASE x = [d EXCEPT !.hdr.version = @ + 1]
    <2>1. x.size = d.size /\ x.sealed = Sealed(h) /\ x.hdr.version = 5
      BY <1>1, <1>2, <1>5
    <2> QED
      BY <1>2, <1>4, <2>1
  <1>6. CASE x = [d EXCEPT !.hdr.type = IF @ = "DATA" THEN "ASSIGN" ELSE "DATA"]
    <2>1. x.size = d.size /\ x.sealed = Sealed(h) /\ x.hdr.type # h.type
      BY <1>1, <1>2, <1>6
    <2> QED
      BY <1>4, <2>1
  <1>7. ASSUME NEW k \in {0, h.length - 1, h.length + 1}, x = [d EXCEPT !.hdr.length = k]
        PROVE  ~Decrypts(x) /\ x.size <= d.size
    <2>1. x.size = d.size /\ x.sealed = Sealed(h) /\ x.hdr.length = k
      BY <1>1, <1>7
    <2>2. k # h.length
      BY <1>2, <1>7
    <2> QED
      BY <1>4, <2>1, <2>2
  <1>8. ASSUME NEW k \in {0, h.number + 1}, x = [d EXCEPT !.hdr.number = k]
        PROVE  ~Decrypts(x) /\ x.size <= d.size
    <2>1. x.size = d.size /\ x.sealed = Sealed(h) /\ x.hdr.number = k
      BY <1>1, <1>8
    <2>2. k # h.number
      BY <1>2, <1>8
    <2> QED
      BY <1>4, <2>1, <2>2
  <1>9. CASE x = [d EXCEPT !.hdr.body = Nothing]
    <2>1. x.size = d.size /\ x.sealed = Sealed(h) /\ x.hdr.body = Nothing
      BY <1>1, <1>9
    <2> QED
      BY <1>2, <1>4, <2>1
  <1>10. ASSUME NEW k \in {0, HdrSize, d.size - 1}, x = [d EXCEPT !.size = k]
         PROVE  ~Decrypts(x) /\ x.size <= d.size
    <2>1. x.hdr = h /\ x.size = k
      BY <1>1, <1>10
    <2>2. k <= d.size /\ k # 37 + h.length
      BY <1>2, <1>3, <1>10 DEF HdrSize
    <2> QED
      BY <2>1, <2>2 DEF Decrypts, HdrSize
  <1> QED
    BY <1>5, <1>6, <1>7, <1>8, <1>9, <1>10, Zenon DEF Changed, h

\* What proto_encrypt made of a payload that fits is decrypted.
LEMMA EncryptedIsRead ==
  ASSUME NEW b, NEW n \in Nat \ {0}, b.length \in Nat, b.length <= MaxPlaintext
  PROVE  LET d == Encrypt(b, n) IN
         /\ Decrypts(d) /\ d.hdr.number # 0 /\ d.size <= MaxPkt
         /\ d.hdr.type = b.type /\ d.hdr.body = b.body /\ d.hdr.length - TagSize = b.length
  <1> DEFINE d == Encrypt(b, n)
  <1>1. /\ d.size = 37 + (b.length + 16) /\ d.sealed = Sealed(d.hdr)
        /\ d.hdr.version = 4 /\ d.hdr.type = b.type /\ d.hdr.length = b.length + 16
        /\ d.hdr.number = n /\ d.hdr.body = b.body
    BY Zenon DEF Encrypt, Lock, HdrSize, TagSize, Version
  <1> HIDE DEF d
  <1>2. Decrypts(d)
    BY <1>1 DEF Decrypts, HdrSize, TagSize, Version, MaxPlaintext
  <1>3. d.size <= MaxPkt /\ d.hdr.length - TagSize = b.length /\ d.hdr.number # 0
    BY <1>1 DEF MaxPkt, HdrSize, TagSize, MaxPlaintext
  <1> QED
    BY <1>1, <1>2, <1>3, Zenon DEF d
-----------------------------------------------------------------------------
(* The steps. *)

\* What a builder leaves in the buffer
Built(m) ==
  [type |-> m.type, length |-> SizeOf(BodyOf(m)), number |-> 1, body |-> BodyOf(m)]

\* The inductive invariant: the buffer is that of the last builder, and fits; a
\* datagram is the buffer as proto_encrypt leaves it, or is refused.
WireIInv ==
  /\ number \in Nat /\ damaged \in BOOLEAN
  /\ buf # Nothing =>
       /\ input \in Inputs /\ buf = Built(input)
       /\ SizeOf(BodyOf(input)) <= MaxPlaintext
       /\ number >= 1
  /\ datagram # Nothing =>
       /\ buf # Nothing /\ number >= 2 /\ datagram.size <= MaxPkt
       /\ ~damaged => datagram = Encrypt(buf, number)
       /\ damaged => ~Decrypts(datagram)

\* The fields of what a builder leaves
LEMMA BuiltParts ==
  ASSUME NEW m
  PROVE  /\ Built(m).type = m.type /\ Built(m).length = SizeOf(BodyOf(m))
         /\ Built(m).body = BodyOf(m)
  BY Zenon DEF Built

\* Nothing is built or under way at first.
LEMMA InitWire == WireInit => WireIInv
  <1>1. 0 \in Nat
    OBVIOUS
  <1> QED
    BY <1>1, Zenon DEF WireInit, WireIInv

\* A builder either refuses or leaves what fits.
LEMMA BuildWire ==
  ASSUME WireIInv, NEW m \in Inputs, Build(m)
  PROVE  WireIInv'
  <1>1. SizeOf(BodyOf(m)) \in Nat /\ (m.type = "PEER_LIST" => SizeOf(BodyOf(m)) <= MaxPlaintext)
    BY AllCarried, Zenon DEF Carried
  <1>2. input' = m /\ number' = 1 /\ damaged' = damaged /\ datagram' = Nothing
    BY Zenon DEF Build
  <1>3. ASSUME buf' # Nothing
        PROVE  buf' = Built(m) /\ SizeOf(BodyOf(m)) <= MaxPlaintext
    <2>1. ~(SizeOf(BodyOf(m)) > MaxPlaintext /\ m.type # "PEER_LIST")
      BY <1>3, Zenon DEF Build
    <2>2. buf' = Built(m)
      BY <2>1, Zenon DEF Build, Built
    <2>3. SizeOf(BodyOf(m)) <= MaxPlaintext
      BY <1>1, <2>1 DEF MaxPlaintext
    <2> QED
      BY <2>2, <2>3, Zenon
  <1>4. 1 \in Nat /\ 1 >= 1
    OBVIOUS
  <1> QED
    BY <1>2, <1>3, <1>4, Zenon DEF WireIInv, Built

\* net_send sends the buffer, encrypted under a new number, or nothing.
LEMMA SendWire ==
  ASSUME WireIInv, NetSend
  PROVE  WireIInv'
  <1>1. /\ buf # Nothing /\ datagram = Nothing /\ number' = number + 1 /\ damaged' = FALSE
        /\ input' = input /\ buf' = buf
    BY Zenon DEF NetSend
  <1>2. /\ input \in Inputs /\ buf = Built(input) /\ SizeOf(BodyOf(input)) <= MaxPlaintext
        /\ number \in Nat /\ number >= 1
    BY <1>1, Zenon DEF WireIInv
  <1>3. number' \in Nat \ {0} /\ number' >= 2 /\ number' >= 1 /\ number' \in Nat
    BY <1>1, <1>2
  <1>4. buf.length = SizeOf(BodyOf(input)) /\ buf.length \in Nat /\ buf.length <= MaxPlaintext
    BY <1>2, AllCarried, BuiltParts, Zenon DEF Carried
  <1>5. datagram' # Nothing => datagram' = Encrypt(buf, number') /\ datagram'.size <= MaxPkt
    BY <1>1, <1>3, <1>4, EncryptedIsRead, Zenon DEF NetSend
  <1>6. damaged' \in BOOLEAN /\ ~damaged'
    BY <1>1, Zenon
  <1>7. Built(input)' = Built(input')
    BY Zenon DEF Built
  <1> QED
    BY <1>1, <1>2, <1>3, <1>5, <1>6, Zenon DEF WireIInv

\* What the network has changed is refused.
LEMMA DamageWire ==
  ASSUME WireIInv, Damage
  PROVE  WireIInv'
  <1>1. /\ datagram # Nothing /\ ~damaged /\ damaged' = TRUE
        /\ input' = input /\ buf' = buf /\ number' = number
    BY Zenon DEF Damage
  <1>2. /\ buf # Nothing /\ number >= 2 /\ datagram.size <= MaxPkt
        /\ datagram = Encrypt(buf, number)
    BY <1>1, Zenon DEF WireIInv
  <1>3. /\ input \in Inputs /\ buf = Built(input) /\ SizeOf(BodyOf(input)) <= MaxPlaintext
        /\ number \in Nat /\ number >= 1
    BY <1>2, Zenon DEF WireIInv
  <1>4. /\ buf.length \in Nat /\ buf.length <= MaxPlaintext /\ buf.body # Nothing
        /\ number \in Nat \ {0}
    <2>1. number \in Nat \ {0}
      BY <1>3
    <2> QED
      BY <1>3, <2>1, AllCarried, BuiltParts, WireAssumption, Zenon DEF Carried
  <1>5. datagram.size \in Nat /\ datagram.size = 37 + (buf.length + 16)
    <2>1. datagram.size = 37 + (buf.length + 16)
      BY <1>2, Zenon DEF Encrypt, Lock, HdrSize, TagSize
    <2> QED
      BY <1>4, <2>1
  <1>6. ~Decrypts(datagram') /\ datagram'.size <= datagram.size
    <2>1. Changed(datagram, datagram')
      BY Zenon DEF Damage, Changed
    <2> QED
      BY <1>2, <1>4, <2>1, DamagedIsRefused, Zenon
  <1>7. datagram'.size <= MaxPkt
    <2>1. datagram'.size \in {0, 37, datagram.size - 1, datagram.size}
      BY <1>2 DEF Damage, Encrypt, Lock, HdrSize
    <2> QED
      BY <1>4, <1>5, <2>1 DEF MaxPkt, HdrSize, MaxPlaintext, TagSize
  <1>8. damaged' \in BOOLEAN /\ damaged'
    BY <1>1, Zenon
  <1> QED
    BY <1>1, <1>2, <1>3, <1>6, <1>7, <1>8, Zenon DEF WireIInv

\* A datagram is received once.
LEMMA RecvWire ==
  ASSUME WireIInv, NetRecv
  PROVE  WireIInv'
  BY Zenon DEF WireIInv, NetRecv, Built

\* Every step preserves the invariant.
LEMMA StepWire == WireIInv /\ [WireNext]_wireVars => WireIInv'
  <1> SUFFICES ASSUME WireIInv, [WireNext]_wireVars PROVE WireIInv'
    OBVIOUS
  <1>1. ASSUME NEW m \in Inputs, Build(m) PROVE WireIInv'
    BY <1>1, BuildWire, Zenon
  <1>2. CASE NetSend
    BY <1>2, SendWire, Zenon
  <1>3. CASE Damage
    BY <1>3, DamageWire, Zenon
  <1>4. CASE NetRecv
    BY <1>4, RecvWire, Zenon
  <1>5. CASE UNCHANGED wireVars
    BY <1>5, Zenon DEF wireVars, WireIInv, Built
  <1> QED
    BY <1>1, <1>2, <1>3, <1>4, <1>5, Zenon DEF WireNext

\* The invariant holds throughout.
LEMMA WireInvariant == WireSpec => []WireIInv
  BY InitWire, StepWire, PTL DEF WireSpec

\* What is built and sent fits the buffers, whatever the names and however long
\* the table: the payload TUND_MAX_PLAINTEXT, the datagram TUND_MAX_PKT.
THEOREM MessagesFit == WireSpec => []WireFits
  <1>1. WireIInv => WireFits
    <2> SUFFICES ASSUME WireIInv PROVE WireFits
      OBVIOUS
    <2>1. ASSUME buf # Nothing
          PROVE  SizeOf(buf.body) <= MaxPlaintext /\ buf.length = SizeOf(buf.body)
      <3>1. buf = Built(input) /\ SizeOf(BodyOf(input)) <= MaxPlaintext
        BY <2>1, Zenon DEF WireIInv
      <3> QED
        BY <3>1, BuiltParts, Zenon
    <2> QED
      BY <2>1, Zenon DEF WireFits, WireIInv
  <1> QED
    BY <1>1, WireInvariant, PTL

\* What a handler reads is what the builder at the other end was given, and what
\* the network has changed in any part is not read at all.
THEOREM MessagesArrive == WireSpec => WireFaithful
  <1>1. WireIInv /\ NetRecv => got' = IF damaged THEN Nothing ELSE Said(input)
    <2> SUFFICES ASSUME WireIInv, NetRecv
                 PROVE  got' = IF damaged THEN Nothing ELSE Said(input)
      OBVIOUS
    <2>1. datagram # Nothing /\ buf # Nothing /\ number >= 2
      BY Zenon DEF NetRecv, WireIInv
    <2>2. /\ input \in Inputs /\ buf = Built(input) /\ SizeOf(BodyOf(input)) <= MaxPlaintext
          /\ number \in Nat
      BY <2>1, Zenon DEF WireIInv
    <2>3. CASE damaged
      <3>1. ~Decrypts(datagram)
        BY <2>1, <2>3, Zenon DEF WireIInv
      <3> QED
        BY <2>3, <3>1, Zenon DEF NetRecv
    <2>4. CASE ~damaged
      <3>1. datagram = Encrypt(buf, number)
        BY <2>1, <2>4, Zenon DEF WireIInv
      <3>2. number \in Nat \ {0}
        BY <2>1, <2>2
      <3>3. buf.length = SizeOf(BodyOf(input)) /\ buf.type = input.type /\ buf.body = BodyOf(input)
        BY <2>2, BuiltParts, Zenon
      <3>4. /\ SizeOf(BodyOf(input)) \in Nat
            /\ Read(input.type, BodyOf(input), SizeOf(BodyOf(input))) = Said(input).is
        BY <2>2, AllCarried, Zenon DEF Carried
      <3>5. /\ Decrypts(datagram) /\ datagram.hdr.number # 0
            /\ datagram.hdr.type = input.type /\ datagram.hdr.body = BodyOf(input)
            /\ datagram.hdr.length - TagSize = SizeOf(BodyOf(input))
        BY <2>2, <3>1, <3>2, <3>3, <3>4, EncryptedIsRead, Zenon
      <3>6. got' = [type |-> input.type, is |-> Said(input).is]
        BY <3>4, <3>5, Zenon DEF NetRecv
      <3>7. Said(input) = [type |-> input.type, is |-> Said(input).is]
        BY Zenon DEF Said
      <3> QED
        BY <2>4, <3>6, <3>7, Zenon
    <2> QED
      BY <2>3, <2>4, Zenon
  <1> QED
    BY <1>1, WireInvariant, PTL DEF WireFaithful
-----------------------------------------------------------------------------
(* The command line: the three loops, unfolded. *)

\* The loop of append_quoted_arg, one character at a time
QuoteStep(s, c) ==
  IF c = "slash" THEN [buf |-> s.buf, slashes |-> s.slashes + 1]
  ELSE [buf |-> append_text(s.buf,
                  IF c = "quote" THEN Slashes(2 * s.slashes) \o <<"slash", "quote">>
                                 ELSE Slashes(s.slashes) \o <<c>>),
        slashes |-> 0]

\* append_quoted_arg opens a quote and then takes one character after the other.
LEMMA QuotingUnfolds ==
  ASSUME NEW b, NEW arg, Len(arg) \in Nat
  PROVE  /\ Quoting(b, arg)[0] = [buf |-> append_text(b, <<"quote">>), slashes |-> 0]
         /\ \A i \in 1 .. Len(arg) : Quoting(b, arg)[i] = QuoteStep(Quoting(b, arg)[i - 1], arg[i])
  <1> DEFINE f == Quoting(b, arg)
             c == [buf |-> append_text(b, <<"quote">>), slashes |-> 0]
  <1>1. FiniteNatInductiveDefHypothesis(f, c, LAMBDA s, i : QuoteStep(s, arg[i]), 0, Len(arg))
    BY Zenon DEF FiniteNatInductiveDefHypothesis, Quoting, QuoteStep
  <1>2. FiniteNatInductiveDefConclusion(f, c, LAMBDA s, i : QuoteStep(s, arg[i]), 0, Len(arg))
    BY <1>1, FiniteNatInductiveDef, Zenon
  <1>3. f = [i \in 0 .. Len(arg) |-> IF i = 0 THEN c ELSE QuoteStep(f[i - 1], arg[i])]
    BY <1>2, Zenon DEF FiniteNatInductiveDefConclusion
  <1> HIDE DEF f, c
  <1>4. f[0] = c /\ \A i \in 1 .. Len(arg) : f[i] = QuoteStep(f[i - 1], arg[i])
    BY <1>3
  <1> QED
    BY <1>4 DEF f, c

\* build_relaunch_params, one argument at a time
LineStep(l, arg, first) ==
  append_quoted_arg(IF first THEN l ELSE append_text(l, <<"blank">>), arg)

\* build_relaunch_params takes one argument after the other.
LEMMA LinesUnfold ==
  ASSUME NEW argv, Len(argv) \in Nat
  PROVE  /\ Lines(argv)[0] = <<>>
         /\ \A i \in 1 .. Len(argv) : Lines(argv)[i] = LineStep(Lines(argv)[i - 1], argv[i], i = 1)
  <1> DEFINE f == Lines(argv)
             Def(l, i) == append_quoted_arg(IF i > 1 THEN append_text(l, <<"blank">>) ELSE l, argv[i])
  <1>1. FiniteNatInductiveDefHypothesis(f, <<>>, Def, 0, Len(argv))
    BY Zenon DEF FiniteNatInductiveDefHypothesis, Lines
  <1>2. FiniteNatInductiveDefConclusion(f, <<>>, Def, 0, Len(argv))
    BY <1>1, FiniteNatInductiveDef, Zenon
  <1>3. f = [i \in 0 .. Len(argv) |-> IF i = 0 THEN <<>> ELSE Def(f[i - 1], i)]
    BY <1>2, Zenon DEF FiniteNatInductiveDefConclusion
  <1> HIDE DEF f, Def
  <1>4. f[0] = <<>> /\ \A i \in 1 .. Len(argv) : f[i] = Def(f[i - 1], i)
    BY <1>3
  <1>5. \A i \in 1 .. Len(argv) : Def(f[i - 1], i) = LineStep(f[i - 1], argv[i], i = 1)
    BY DEF Def, LineStep
  <1> QED
    BY <1>4, <1>5, Zenon DEF f

\* The reader, one character at a time
LEMMA ReadingUnfolds ==
  ASSUME NEW line, Len(line) \in Nat
  PROVE  /\ Reading(line)[0] = Begin
         /\ \A i \in 1 .. Len(line) : Reading(line)[i] = Took(Reading(line)[i - 1], line[i])
  <1> DEFINE f == Reading(line)
  <1>1. FiniteNatInductiveDefHypothesis(f, Begin, LAMBDA s, i : Took(s, line[i]), 0, Len(line))
    BY Zenon DEF FiniteNatInductiveDefHypothesis, Reading
  <1>2. FiniteNatInductiveDefConclusion(f, Begin, LAMBDA s, i : Took(s, line[i]), 0, Len(line))
    BY <1>1, FiniteNatInductiveDef, Zenon
  <1>3. f = [i \in 0 .. Len(line) |-> IF i = 0 THEN Begin ELSE Took(f[i - 1], line[i])]
    BY <1>2, Zenon DEF FiniteNatInductiveDefConclusion
  <1> HIDE DEF f
  <1>4. f[0] = Begin /\ \A i \in 1 .. Len(line) : f[i] = Took(f[i - 1], line[i])
    BY <1>3
  <1> QED
    BY <1>4 DEF f
-----------------------------------------------------------------------------
(* What the reader makes of a line that grows. *)

Line == Seq(Chars)

\* The reader at the end of a line
State(line) == Reading(line)[Len(line)]

\* What follows a line does not change what was read.
LEMMA ReadPrefix ==
  ASSUME NEW l \in Line, NEW m \in Line, Len(l) <= Len(m),
         \A i \in 1 .. Len(l) : m[i] = l[i]
  PROVE  Reading(m)[Len(l)] = State(l)
  <1> DEFINE S == {n \in Nat : n <= Len(l) => Reading(m)[n] = Reading(l)[n]}
  <1>0. Len(l) \in Nat /\ Len(m) \in Nat
    BY DEF Line
  <1>1. 0 \in S
    BY <1>0, ReadingUnfolds, Zenon
  <1>2. ASSUME NEW n \in Nat, n \in S PROVE n + 1 \in S
    <2> SUFFICES ASSUME n + 1 <= Len(l) PROVE Reading(m)[n + 1] = Reading(l)[n + 1]
      OBVIOUS
    <2>1. n + 1 \in 1 .. Len(l) /\ n + 1 \in 1 .. Len(m) /\ (n + 1) - 1 = n /\ n <= Len(l)
      BY <1>0
    <2>2. Reading(m)[n + 1] = Took(Reading(m)[n], m[n + 1])
      BY <1>0, <2>1, ReadingUnfolds, Zenon
    <2>3. Reading(l)[n + 1] = Took(Reading(l)[n], l[n + 1])
      BY <1>0, <2>1, ReadingUnfolds, Zenon
    <2> QED
      BY <1>2, <2>1, <2>2, <2>3, Zenon
  <1>3. \A n \in Nat : n \in S
    <2> HIDE DEF S
    <2> QED
      BY <1>1, <1>2, SetInduction, Zenon
  <1> QED
    BY <1>0, <1>3 DEF State

\* The reader inside quotes, after a closing quote, and between two arguments
Within(args, arg, slashes) == Reader(args, arg, TRUE, TRUE, slashes)
Closed(args, arg) == Reader(args, arg, TRUE, FALSE, 0)
Outside(args) == Reader(args, <<>>, FALSE, FALSE, 0)

Reads(line, s) == line \in Line /\ State(line) = s

\* One more character
LEMMA ReadOne ==
  ASSUME NEW l, NEW s, Reads(l, s), NEW c \in Chars
  PROVE  Reads(Append(l, c), Took(s, c))
  <1> DEFINE m == Append(l, c)
  <1>0. l \in Line /\ State(l) = s
    BY Zenon DEF Reads
  <1>1. /\ m \in Line /\ Len(m) = Len(l) + 1 /\ Len(l) \in Nat /\ m[Len(l) + 1] = c
        /\ \A i \in 1 .. Len(l) : m[i] = l[i]
    BY <1>0 DEF Line
  <1> HIDE DEF m
  <1>2. Len(m) \in Nat /\ Len(m) \in 1 .. Len(m) /\ Len(m) - 1 = Len(l) /\ Len(l) <= Len(m)
    BY <1>1
  <1>3. Reading(m)[Len(m)] = Took(Reading(m)[Len(l)], c)
    BY <1>1, <1>2, ReadingUnfolds, Zenon
  <1>4. Reading(m)[Len(l)] = State(l)
    BY <1>0, <1>1, <1>2, ReadPrefix, Zenon
  <1> QED
    BY <1>0, <1>1, <1>3, <1>4, Zenon DEF State, Reads, m

\* Backslashes: there are n of them, and one more after n.
LEMMA SlashesAre ==
  /\ \A n \in Nat : Slashes(n) \in Line /\ Len(Slashes(n)) = n
  /\ \A l \in Line : l \o Slashes(0) = l
  /\ \A l \in Line : \A n \in Nat : l \o Slashes(n + 1) = Append(l \o Slashes(n), "slash")
  <1>1. ASSUME NEW n \in Nat
        PROVE  Slashes(n) \in Line /\ Len(Slashes(n)) = n /\ \A i \in 1 .. n : Slashes(n)[i] = "slash"
    <2>1. \A i \in 1 .. n : Slashes(n)[i] = "slash"
      BY DEF Slashes
    <2>2. Slashes(n) \in [1 .. n -> Chars]
      BY DEF Slashes, Chars
    <2> QED
      BY <2>1, <2>2 DEF Line
  <1>2. ASSUME NEW l \in Line PROVE l \o Slashes(0) = l
    <2>1. Slashes(0) = <<>>
      BY <1>1 DEF Line
    <2> QED
      BY <2>1 DEF Line
  <1>3. ASSUME NEW l \in Line, NEW n \in Nat
        PROVE  l \o Slashes(n + 1) = Append(l \o Slashes(n), "slash")
    <2> DEFINE a == Slashes(n + 1)
               b == Slashes(n)
               x == l \o a
               y == Append(l \o b, "slash")
    <2>1. /\ a \in Line /\ Len(a) = n + 1 /\ \A i \in 1 .. n + 1 : a[i] = "slash"
          /\ b \in Line /\ Len(b) = n /\ \A i \in 1 .. n : b[i] = "slash"
      BY <1>1
    <2> HIDE DEF a, b
    <2>2. /\ x \in Line /\ Len(x) = Len(l) + (n + 1) /\ Len(l) \in Nat
          /\ \A i \in 1 .. Len(l) + (n + 1) : x[i] = IF i <= Len(l) THEN l[i] ELSE "slash"
      BY <2>1 DEF Line
    <2>3. /\ y \in Line /\ Len(y) = Len(l) + (n + 1)
          /\ \A i \in 1 .. Len(l) + (n + 1) : y[i] = IF i <= Len(l) THEN l[i] ELSE "slash"
      BY <2>1 DEF Line, Chars
    <2> HIDE DEF x, y
    <2>4. x = y
      BY <2>2, <2>3, SeqEqual DEF Line
    <2> QED
      BY <2>4 DEF x, y, a, b
  <1> QED
    BY <1>1, <1>2, <1>3, Zenon

\* The reader counts backslashes.
LEMMA ReadSlashes ==
  ASSUME NEW l, NEW A, NEW a, NEW k \in Nat, Reads(l, Within(A, a, k)), NEW n \in Nat
  PROVE  Reads(l \o Slashes(n), Within(A, a, k + n))
  <1> DEFINE S == {i \in Nat : Reads(l \o Slashes(i), Within(A, a, k + i))}
  <1>0. l \in Line
    BY Zenon DEF Reads
  <1>1. 0 \in S
    <2>1. k + 0 = k /\ 0 \in Nat
      OBVIOUS
    <2>2. l \o Slashes(0) = l
      BY <1>0, SlashesAre, Zenon
    <2> QED
      BY <2>1, <2>2, Zenon
  <1>2. ASSUME NEW i \in Nat, i \in S PROVE i + 1 \in S
    <2> DEFINE m == l \o Slashes(i)
    <2>1. Reads(m, Within(A, a, k + i))
      BY <1>2, Zenon
    <2>2. l \o Slashes(i + 1) = Append(m, "slash")
      BY <1>0, SlashesAre, Zenon
    <2> HIDE DEF m
    <2>3. "slash" \in Chars /\ i + 1 \in Nat /\ (k + i) + 1 = k + (i + 1)
      BY DEF Chars
    <2>4. Reads(Append(m, "slash"), Took(Within(A, a, k + i), "slash"))
      BY <2>1, <2>3, ReadOne, Zenon
    <2>5. Took(Within(A, a, k + i), "slash") = Within(A, a, (k + i) + 1)
      BY Zenon DEF Took, Within, Reader
    <2> QED
      BY <2>2, <2>3, <2>4, <2>5, Zenon
  <1>3. \A i \in Nat : i \in S
    <2> HIDE DEF S
    <2> QED
      BY <1>1, <1>2, SetInduction, Zenon
  <1> QED
    BY <1>3, Zenon
-----------------------------------------------------------------------------
(* What the writer writes is read back. *)

\* append_text writes all of a text, or the line is full and stays so.
LEMMA TextIsWritten ==
  ASSUME NEW b, b = Full \/ b \in Line, NEW t \in Line
  PROVE  append_text(b, t) = Full \/ (b \in Line /\ append_text(b, t) = b \o t /\ b \o t \in Line)
  <1>1. CASE b = Full \/ Len(b) + Len(t) >= LineSize
    BY <1>1, Zenon DEF append_text
  <1>2. CASE b # Full /\ ~(Len(b) + Len(t) >= LineSize)
    <2>1. b \in Line /\ append_text(b, t) = b \o t
      BY <1>2, Zenon DEF append_text
    <2>2. b \o t \in Line
      BY <2>1 DEF Line
    <2> QED
      BY <2>1, <2>2, Zenon
  <1> QED
    BY <1>1, <1>2, Zenon

\* The last character of a text, or the last two, one at a time
LEMMA LastOne ==
  ASSUME NEW b \in Line, NEW c \in Chars
  PROVE  b \o <<c>> \in Line /\ b \o <<c>> = Append(b, c) /\ Append(b, c) \in Line
  BY AppendIsConcat, AppendProperties DEF Line

\* ... when it is appended to a line
LEMMA LastOfText ==
  ASSUME NEW b \in Line, NEW t \in Line, NEW c \in Chars
  PROVE  b \o (t \o <<c>>) = Append(b \o t, c)
  <1>1. <<c>> \in Line /\ b \o t \in Line
    BY DEF Line
  <1>2. b \o (t \o <<c>>) = (b \o t) \o <<c>>
    BY <1>1, ConcatAssociative DEF Line
  <1> QED
    BY <1>1, <1>2, LastOne, Zenon

\* ... and when there are two of them
LEMMA LastTwo ==
  ASSUME NEW b \in Line, NEW t \in Line, NEW c \in Chars, NEW d \in Chars
  PROVE  t \o <<c, d>> \in Line /\ b \o (t \o <<c, d>>) = Append(Append(b \o t, c), d)
  <1>1. <<c>> \in Line /\ <<c, d>> \in Line /\ b \o t \in Line /\ <<c, d>> = Append(<<c>>, d)
    BY DEF Line
  <1>2. t \o <<c, d>> \in Line
    BY <1>1 DEF Line
  <1>3. PICK m \in Line : m = t \o <<c>> /\ m \o <<d>> = Append(m, d)
    <2>1. t \o <<c>> \in Line
      BY LastOne, Zenon
    <2> QED
      BY <2>1, LastOne, Zenon
  <1>4. <<c>> \o <<d>> = Append(<<c>>, d)
    BY <1>1, LastOne, Zenon
  <1>5. t \o (<<c>> \o <<d>>) = Append(m, d)
    BY <1>1, <1>3, LastOfText, Zenon
  <1>6. b \o (m \o <<d>>) = Append(b \o m, d)
    BY <1>3, LastOfText, Zenon
  <1>7. b \o m = Append(b \o t, c)
    BY <1>3, LastOfText, Zenon
  <1>8. t \o <<c, d>> = m \o <<d>>
    BY <1>1, <1>3, <1>4, <1>5
  <1> QED
    BY <1>2, <1>6, <1>7, <1>8, Zenon

\* What the reader does with a quote after backslashes
LEMMA ReaderQuotes ==
  ASSUME NEW A, NEW a, NEW k \in Nat
  PROVE  /\ Took(Within(A, a, 2 * k + 1), "quote") = Within(A, Append(a \o Slashes(k), "quote"), 0)
         /\ Took(Within(A, a, 2 * k), "quote") = Closed(A, a \o Slashes(k))
  <1>1. /\ (2 * k + 1) % 2 = 1 /\ (2 * k + 1) \div 2 = k /\ (2 * k) % 2 = 0 /\ (2 * k) \div 2 = k
        /\ 0 # 1 /\ "quote" # "slash"
    OBVIOUS
  <1>2. Took(Within(A, a, 2 * k + 1), "quote") = Within(A, Append(a \o Slashes(k), "quote"), 0)
    BY <1>1, Zenon DEF Took, Within, Closed, Flushed, Reader
  <1>3. Took(Within(A, a, 2 * k), "quote") = Closed(A, a \o Slashes(k))
    <2>1. ~TRUE = FALSE
      OBVIOUS
    <2> QED
      BY <1>1, <2>1, Zenon DEF Took, Within, Closed, Flushed, Reader
  <1> QED
    BY <1>2, <1>3, Zenon

\* What it does before and after an argument
LEMMA ReaderEnds ==
  ASSUME NEW A, NEW a
  PROVE  /\ Took(Outside(A), "quote") = Within(A, <<>>, 0)
         /\ Took(Closed(A, a), "blank") = Outside(Append(A, a))
         /\ Ended(Closed(A, a)).args = Append(A, a)
         /\ Ended(Outside(A)).args = A
  <1>1. 0 # 1 /\ 0 % 2 = 0 /\ 0 \div 2 = 0 /\ "quote" # "slash" /\ "blank" # "slash" /\ "blank" # "quote"
    OBVIOUS
  <1>2. Took(Outside(A), "quote") = Within(A, <<>> \o Slashes(0), 0)
    <2>1. ~FALSE = TRUE
      OBVIOUS
    <2> QED
      BY <1>1, <2>1, Zenon DEF Took, Within, Flushed, Reader, Outside
  <1>3. <<>> \o Slashes(0) = <<>>
    <2>1. <<>> \in Line
      BY DEF Line
    <2> QED
      BY <2>1, SlashesAre, Zenon
  <1>4. Ended(Closed(A, a)) = Outside(Append(A, a)) /\ Ended(Outside(A)) = Outside(A)
    BY Zenon DEF Ended, Closed, Outside, Reader
  <1>5. Took(Closed(A, a), "blank") = Ended(Closed(A, a))
    BY <1>1, Zenon DEF Took, Closed, Reader
  <1>6. \A x : Outside(x).args = x
    BY Zenon DEF Outside, Reader
  <1> QED
    BY <1>2, <1>3, <1>4, <1>5, <1>6, Zenon

\* Backslashes inside quotes are read as so many.
LEMMA SlashesAreRead ==
  ASSUME NEW b, NEW A, NEW a, Reads(b, Within(A, a, 0)), NEW n \in Nat
  PROVE  b \in Line /\ Slashes(n) \in Line /\ Reads(b \o Slashes(n), Within(A, a, n))
  <1>1. 0 \in Nat /\ 0 + n = n
    OBVIOUS
  <1>2. Reads(b \o Slashes(n), Within(A, a, 0 + n))
    BY <1>1, ReadSlashes, Zenon
  <1> QED
    BY <1>1, <1>2, SlashesAre, Zenon DEF Reads

\* Backslashes that are followed by something else than a quote
LEMMA PlainIsRead ==
  ASSUME NEW b, NEW A, NEW a, Reads(b, Within(A, a, 0)), NEW k \in Nat,
         NEW c \in {"blank", "other"}
  PROVE  Reads(b \o (Slashes(k) \o <<c>>), Within(A, Append(a \o Slashes(k), c), 0))
  <1>1. c \in Chars /\ c # "slash" /\ c # "quote"
    BY DEF Chars
  <1>2. b \in Line /\ Slashes(k) \in Line /\ Reads(b \o Slashes(k), Within(A, a, k))
    BY SlashesAreRead, Zenon
  <1>3. b \o (Slashes(k) \o <<c>>) = Append(b \o Slashes(k), c)
    BY <1>1, <1>2, LastOfText, Zenon
  <1>4. Reads(Append(b \o Slashes(k), c), Took(Within(A, a, k), c))
    BY <1>1, <1>2, ReadOne, Zenon
  <1>5. Took(Within(A, a, k), c) = Within(A, Append(a \o Slashes(k), c), 0)
    BY <1>1, Zenon DEF Took, Within, Flushed, Reader
  <1> QED
    BY <1>3, <1>4, <1>5, Zenon

\* A quote is written with one backslash, and those before it are doubled.
LEMMA QuoteIsRead ==
  ASSUME NEW b, NEW A, NEW a, Reads(b, Within(A, a, 0)), NEW k \in Nat
  PROVE  Reads(b \o (Slashes(2 * k) \o <<"slash", "quote">>), Within(A, Append(a \o Slashes(k), "quote"), 0))
  <1> DEFINE m == b \o Slashes(2 * k)
  <1>1. "slash" \in Chars /\ "quote" \in Chars /\ 2 * k \in Nat
    BY DEF Chars
  <1>2. b \in Line /\ Slashes(2 * k) \in Line /\ Reads(m, Within(A, a, 2 * k))
    BY <1>1, SlashesAreRead, Zenon
  <1>3. b \o (Slashes(2 * k) \o <<"slash", "quote">>) = Append(Append(m, "slash"), "quote")
    BY <1>1, <1>2, LastTwo, Zenon
  <1> HIDE DEF m
  <1>4. Reads(Append(m, "slash"), Took(Within(A, a, 2 * k), "slash"))
    BY <1>1, <1>2, ReadOne, Zenon
  <1>5. Took(Within(A, a, 2 * k), "slash") = Within(A, a, 2 * k + 1)
    BY Zenon DEF Took, Within, Reader
  <1>6. Reads(Append(Append(m, "slash"), "quote"), Took(Within(A, a, 2 * k + 1), "quote"))
    BY <1>1, <1>4, <1>5, ReadOne, Zenon
  <1>7. Took(Within(A, a, 2 * k + 1), "quote") = Within(A, Append(a \o Slashes(k), "quote"), 0)
    BY ReaderQuotes, Zenon
  <1> QED
    BY <1>3, <1>6, <1>7, Zenon

\* The closing quote: the backslashes before it are doubled.
LEMMA EndIsRead ==
  ASSUME NEW b, NEW A, NEW a, Reads(b, Within(A, a, 0)), NEW k \in Nat
  PROVE  Reads(b \o (Slashes(2 * k) \o <<"quote">>), Closed(A, a \o Slashes(k)))
  <1>1. "quote" \in Chars /\ 2 * k \in Nat
    BY DEF Chars
  <1>2. b \in Line /\ Slashes(2 * k) \in Line /\ Reads(b \o Slashes(2 * k), Within(A, a, 2 * k))
    BY <1>1, SlashesAreRead, Zenon
  <1>3. b \o (Slashes(2 * k) \o <<"quote">>) = Append(b \o Slashes(2 * k), "quote")
    BY <1>1, <1>2, LastOfText, Zenon
  <1>4. Reads(Append(b \o Slashes(2 * k), "quote"), Took(Within(A, a, 2 * k), "quote"))
    BY <1>1, <1>2, ReadOne, Zenon
  <1>5. Took(Within(A, a, 2 * k), "quote") = Closed(A, a \o Slashes(k))
    BY ReaderQuotes, Zenon
  <1> QED
    BY <1>3, <1>4, <1>5, Zenon

\* append_quoted_arg after i characters: the line is full, or the reader is inside
\* the quotes of the argument and has these characters, but for the
\* backslashes that are held back.
Written(A, arg, i, s) ==
  /\ s.slashes \in Nat
  /\ \/ s.buf = Full
     \/ \E a \in Line : /\ Reads(s.buf, Within(A, a, 0))
                        /\ a \o Slashes(s.slashes) = SubSeq(arg, 1, i)

\* One more character of an argument
LEMMA NextCharacter ==
  ASSUME NEW arg \in Line, NEW i \in 1 .. Len(arg)
  PROVE  /\ arg[i] \in Chars
         /\ SubSeq(arg, 1, i) = Append(SubSeq(arg, 1, i - 1), arg[i])
         /\ SubSeq(arg, 1, i - 1) \in Line
  <1>1. arg[i] \in Chars /\ Len(arg) \in Nat /\ 1 \in 1 .. Len(arg) /\ i \in 1 .. Len(arg) /\ i - 1 \in Int
        /\ 1 \in Int
    BY DEF Line
  <1>2. SubSeq(arg, 1, i - 1) \in Line
    BY <1>1, SubSeqProperties, ElementOfSeq DEF Line
  <1>3. SubSeq(arg, 1, i) = SubSeq(arg, 1, i - 1) \o <<arg[i]>>
    BY <1>1, SubSeqRecursiveSecond DEF Line
  <1>4. SubSeq(arg, 1, i - 1) \o <<arg[i]>> = Append(SubSeq(arg, 1, i - 1), arg[i])
    BY <1>1, <1>2, AppendIsConcat DEF Line
  <1> QED
    BY <1>1, <1>2, <1>3, <1>4, Zenon

\* A character is written so that it is read as itself.
LEMMA CharacterIsWritten ==
  ASSUME NEW A, NEW arg \in Line, NEW i \in 1 .. Len(arg), NEW s, Written(A, arg, i - 1, s)
  PROVE  Written(A, arg, i, QuoteStep(s, arg[i]))
  <1>1. PICK c \in Chars, k \in Nat, b \in {s.buf} :
          /\ c = arg[i] /\ k = s.slashes /\ b = s.buf
          /\ SubSeq(arg, 1, i) = Append(SubSeq(arg, 1, i - 1), c)
    BY NextCharacter, Zenon DEF Written
  <1>2. k + 1 \in Nat /\ 2 * k \in Nat /\ 0 \in Nat /\ "slash" \in Chars /\ "quote" \in Chars
    BY DEF Chars
  <1> DEFINE r == QuoteStep(s, c)
  <1>3. CASE c = "slash"
    <2>1. r.buf = b /\ r.slashes = k + 1
      BY <1>1, <1>3, Zenon DEF QuoteStep
    <2>2. \A a \in Line : a \o Slashes(k + 1) = Append(a \o Slashes(k), "slash")
      BY <1>1, SlashesAre, Zenon
    <2> HIDE DEF r
    <2>3. ASSUME b # Full
          PROVE  \E a \in Line : /\ Reads(b, Within(A, a, 0))
                                 /\ a \o Slashes(k + 1) = SubSeq(arg, 1, i)
      BY <1>1, <1>3, <2>2, <2>3, Zenon DEF Written
    <2>4. Written(A, arg, i, r)
      BY <1>2, <2>1, <2>3, Zenon DEF Written
    <2> QED
      BY <1>1, <2>4, Zenon DEF r
  <1>4. CASE c # "slash"
    <2> DEFINE t == IF c = "quote" THEN Slashes(2 * k) \o <<"slash", "quote">> ELSE Slashes(k) \o <<c>>
    <2>1. r.slashes = 0 /\ r.buf = append_text(b, t)
      BY <1>1, <1>4, Zenon DEF QuoteStep
    <2>2. t \in Line
      <3>1. Slashes(2 * k) \in Line /\ Slashes(k) \in Line
        BY <1>2, SlashesAre, Zenon
      <3>2. Slashes(2 * k) \o <<"slash", "quote">> \in Line
        BY <1>2, <3>1, LastTwo, Zenon
      <3>3. Slashes(k) \o <<c>> \in Line
        BY <3>1, LastOne, Zenon
      <3> QED
        BY <3>2, <3>3, Zenon
    <2>3. b = Full \/ b \in Line
      BY <1>1, Zenon DEF Written, Reads
    <2> HIDE DEF t, r
    <2>4. r.buf = Full \/ r.buf = b \o t
      BY <2>1, <2>2, <2>3, TextIsWritten, Zenon
    <2>5. CASE r.buf = Full
      <3>1. Written(A, arg, i, r)
        BY <1>2, <2>1, <2>5, Zenon DEF Written
      <3> QED
        BY <1>1, <3>1, Zenon DEF r
    <2>6. CASE r.buf # Full
      <3>1. r.buf = b \o t
        BY <2>4, <2>6, Zenon
      <3>2. b # Full
        BY <2>1, <2>6, Zenon DEF append_text
      <3>3. PICK a \in Line : Reads(b, Within(A, a, 0)) /\ a \o Slashes(k) = SubSeq(arg, 1, i - 1)
        BY <1>1, <3>2, Zenon DEF Written
      <3>4. Reads(r.buf, Within(A, Append(a \o Slashes(k), c), 0))
        <4>1. CASE c = "quote"
          <5>1. Reads(b \o (Slashes(2 * k) \o <<"slash", "quote">>), Within(A, Append(a \o Slashes(k), "quote"), 0))
            BY <3>3, QuoteIsRead, Zenon
          <5> QED
            BY <3>1, <4>1, <5>1, Zenon DEF t
        <4>2. CASE c # "quote"
          <5>1. c \in {"blank", "other"}
            BY <1>1, <1>4, <4>2, Zenon DEF Chars
          <5>2. Reads(b \o (Slashes(k) \o <<c>>), Within(A, Append(a \o Slashes(k), c), 0))
            BY <3>3, <5>1, PlainIsRead, Zenon
          <5> QED
            BY <3>1, <4>2, <5>2, Zenon DEF t
        <4> QED
          BY <4>1, <4>2, Zenon
      <3>5. Append(a \o Slashes(k), c) = SubSeq(arg, 1, i)
        BY <1>1, <3>3, Zenon
      <3>6. SubSeq(arg, 1, i) \in Line /\ SubSeq(arg, 1, i) \o Slashes(0) = SubSeq(arg, 1, i)
        <4>1. SubSeq(arg, 1, i - 1) \in Line
          BY NextCharacter, Zenon
        <4>2. SubSeq(arg, 1, i) \in Line
          BY <1>1, <4>1, LastOne, Zenon
        <4> QED
          BY <4>2, SlashesAre, Zenon
      <3>7. Written(A, arg, i, r)
        BY <1>2, <2>1, <3>4, <3>5, <3>6, Zenon DEF Written
      <3> QED
        BY <1>1, <3>7, Zenon DEF r
    <2> QED
      BY <2>5, <2>6, Zenon
  <1> QED
    BY <1>3, <1>4, Zenon

\* An argument is read as it was, if the line has room for it.
LEMMA ArgumentIsWritten ==
  ASSUME NEW A, NEW b, b = Full \/ Reads(b, Outside(A)), NEW arg \in Line
  PROVE  append_quoted_arg(b, arg) = Full \/ Reads(append_quoted_arg(b, arg), Closed(A, arg))
  <1> DEFINE f == Quoting(b, arg)
             S == {n \in Nat : n <= Len(arg) => Written(A, arg, n, f[n])}
  <1>1. Len(arg) \in Nat /\ <<"quote">> \in Line /\ "quote" \in Chars /\ 0 \in Nat /\ <<>> \in Line
    BY DEF Line, Chars
  <1>2. /\ f[0] = [buf |-> append_text(b, <<"quote">>), slashes |-> 0]
        /\ \A i \in 1 .. Len(arg) : f[i] = QuoteStep(f[i - 1], arg[i])
    BY <1>1, QuotingUnfolds, Zenon
  <1> HIDE DEF f
  <1>3. Written(A, arg, 0, f[0])
    <2> DEFINE l == append_text(b, <<"quote">>)
    <2>1. f[0].buf = l /\ f[0].slashes = 0
      BY <1>2
    <2>2. l = Full \/ (b \in Line /\ l = b \o <<"quote">>)
      BY <1>1, TextIsWritten, Zenon DEF Reads
    <2>3. ASSUME l # Full PROVE Reads(l, Within(A, <<>>, 0))
      <3>1. b # Full
        BY <2>3, Zenon DEF append_text
      <3>2. b \in Line /\ l = b \o <<"quote">> /\ Reads(b, Outside(A))
        BY <2>2, <2>3, <3>1, Zenon
      <3> HIDE DEF l
      <3>3. l = Append(b, "quote")
        BY <1>1, <3>2, LastOne, Zenon
      <3>4. Reads(Append(b, "quote"), Took(Outside(A), "quote"))
        BY <1>1, <3>2, ReadOne, Zenon
      <3> QED
        BY <3>3, <3>4, ReaderEnds, Zenon
    <2>4. <<>> \o Slashes(0) = SubSeq(arg, 1, 0)
      <3>1. SubSeq(arg, 1, 0) = <<>>
        BY SubSeqEmpty
      <3> QED
        BY <1>1, <3>1, SlashesAre, Zenon
    <2> HIDE DEF l
    <2> QED
      BY <1>1, <2>1, <2>3, <2>4, Zenon DEF Written
  <1>4. 0 \in S
    BY <1>1, <1>3, Zenon
  <1>5. ASSUME NEW n \in Nat, n \in S PROVE n + 1 \in S
    <2> SUFFICES ASSUME n + 1 <= Len(arg) PROVE Written(A, arg, n + 1, f[n + 1])
      OBVIOUS
    <2>1. n + 1 \in 1 .. Len(arg) /\ (n + 1) - 1 = n /\ n <= Len(arg)
      BY <1>1
    <2>2. Written(A, arg, n, f[n])
      BY <1>5, <2>1, Zenon
    <2>3. f[n + 1] = QuoteStep(f[n], arg[n + 1])
      BY <1>2, <2>1, Zenon
    <2> QED
      BY <2>1, <2>2, <2>3, CharacterIsWritten, Zenon
  <1>6. \A n \in Nat : n \in S
    <2> HIDE DEF S
    <2> QED
      BY <1>4, <1>5, SetInduction, Zenon
  <1>7. PICK s \in {f[Len(arg)]} : Written(A, arg, Len(arg), s)
    <2>1. Len(arg) <= Len(arg)
      BY <1>1
    <2> QED
      BY <1>1, <1>6, <2>1, Zenon
  <1>8. PICK k \in Nat, m \in {s.buf} : k = s.slashes /\ m = s.buf
    BY <1>7, Zenon DEF Written
  <1> DEFINE l == append_text(m, Slashes(2 * k) \o <<"quote">>)
  <1>9. append_quoted_arg(b, arg) = l
    BY <1>7, <1>8, Zenon DEF append_quoted_arg, f
  <1>10. l = Full \/ l = m \o (Slashes(2 * k) \o <<"quote">>)
    <2>1. 2 * k \in Nat
      OBVIOUS
    <2>2. Slashes(2 * k) \in Line
      BY <2>1, SlashesAre, Zenon
    <2>3. Slashes(2 * k) \o <<"quote">> \in Line
      BY <1>1, <2>2, LastOne, Zenon
    <2>4. m = Full \/ m \in Line
      BY <1>7, <1>8, Zenon DEF Written, Reads
    <2> QED
      BY <2>3, <2>4, TextIsWritten, Zenon
  <1>11. ASSUME l # Full PROVE Reads(l, Closed(A, arg))
    <2>1. m # Full
      BY <1>11, Zenon DEF append_text
    <2>2. PICK a \in Line : Reads(m, Within(A, a, 0)) /\ a \o Slashes(k) = SubSeq(arg, 1, Len(arg))
      BY <1>7, <1>8, <2>1, Zenon DEF Written
    <2>3. SubSeq(arg, 1, Len(arg)) = arg
      BY SubSeqFull DEF Line
    <2>4. Reads(m \o (Slashes(2 * k) \o <<"quote">>), Closed(A, a \o Slashes(k)))
      BY <2>2, EndIsRead, Zenon
    <2> QED
      BY <1>10, <1>11, <2>2, <2>3, <2>4, Zenon
  <1> QED
    BY <1>9, <1>11, Zenon

\* The line after i arguments: the reader has all of them, the last one not yet ended.
Collected(argv, i, l) ==
  \/ l = Full
  \/ i = 0 /\ Reads(l, Outside(<<>>))
  \/ i # 0 /\ Reads(l, Closed(SubSeq(argv, 1, i - 1), argv[i]))

\* One more argument of a line
LEMMA NextArgument ==
  ASSUME NEW argv \in Seq(Line), NEW i \in 1 .. Len(argv)
  PROVE  argv[i] \in Line /\ SubSeq(argv, 1, i) = Append(SubSeq(argv, 1, i - 1), argv[i])
  <1>1. argv[i] \in Line /\ Len(argv) \in Nat /\ 1 \in 1 .. Len(argv) /\ i - 1 \in Int /\ 1 \in Int
    BY ElementOfSeq
  <1>2. SubSeq(argv, 1, i - 1) \in Seq(Line)
    <2>1. \A j \in 1 .. i - 1 : argv[j] \in Line
      BY ElementOfSeq
    <2> QED
      BY <1>1, <2>1, SubSeqProperties
  <1>3. SubSeq(argv, 1, i) = SubSeq(argv, 1, i - 1) \o <<argv[i]>>
    BY <1>1, SubSeqRecursiveSecond
  <1>4. SubSeq(argv, 1, i - 1) \o <<argv[i]>> = Append(SubSeq(argv, 1, i - 1), argv[i])
    BY <1>1, <1>2, AppendIsConcat
  <1> QED
    BY <1>1, <1>3, <1>4, Zenon

\* The arguments up to one more are read, or the line is full.
LEMMA ArgumentIsCollected ==
  ASSUME NEW argv \in Seq(Line), NEW i \in 1 .. Len(argv), NEW l, Collected(argv, i - 1, l)
  PROVE  Collected(argv, i, LineStep(l, argv[i], i = 1))
  <1> DEFINE A == SubSeq(argv, 1, i - 1)
             b == IF i = 1 THEN l ELSE append_text(l, <<"blank">>)
  <1>1. argv[i] \in Line /\ i # 0 /\ "blank" \in Chars /\ <<"blank">> \in Line
    BY NextArgument DEF Chars, Line
  <1>2. CASE i = 1
    <2>1. i - 1 = 0 /\ SubSeq(argv, 1, 0) = <<>>
      BY <1>2, SubSeqEmpty
    <2>2. b = Full \/ Reads(b, Outside(A))
      BY <1>2, <2>1, Zenon DEF Collected
    <2> QED
      BY <1>1, <2>2, ArgumentIsWritten, Zenon DEF LineStep, Collected
  <1>3. CASE i # 1
    <2>1. i - 1 # 0 /\ i - 1 \in 1 .. Len(argv)
      BY <1>3
    <2> DEFINE B == SubSeq(argv, 1, (i - 1) - 1)
               a == argv[i - 1]
    <2>2. A = Append(B, a)
      BY <2>1, NextArgument, Zenon
    <2>3. l = Full \/ Reads(l, Closed(B, a))
      BY <2>1, Zenon DEF Collected
    <2>4. b = Full \/ (l \in Line /\ b = l \o <<"blank">>)
      BY <1>1, <1>3, <2>3, TextIsWritten, Zenon DEF Reads
    <2> HIDE DEF A, B, a
    <2>5. ASSUME b # Full PROVE Reads(b, Outside(A))
      <3>1. l # Full
        BY <1>3, <2>5, Zenon DEF append_text
      <3>2. l \in Line /\ b = l \o <<"blank">> /\ Reads(l, Closed(B, a))
        BY <2>3, <2>4, <2>5, <3>1, Zenon
      <3>3. b = Append(l, "blank")
        BY <1>1, <3>2, LastOne, Zenon
      <3>4. Reads(Append(l, "blank"), Took(Closed(B, a), "blank"))
        BY <1>1, <3>2, ReadOne, Zenon
      <3>5. Took(Closed(B, a), "blank") = Outside(Append(B, a))
        BY ReaderEnds, Zenon
      <3> HIDE DEF b
      <3> QED
        BY <2>2, <3>3, <3>4, <3>5, Zenon
    <2> HIDE DEF b
    <2>6. append_quoted_arg(b, argv[i]) = Full \/ Reads(append_quoted_arg(b, argv[i]), Closed(A, argv[i]))
      BY <1>1, <2>5, ArgumentIsWritten, Zenon
    <2> QED
      BY <1>1, <2>6, Zenon DEF LineStep, Collected, A, b
  <1> QED
    BY <1>2, <1>3, Zenon

\* The new process has the arguments of this one, unless the line is full.
LEMMA LineIsRead ==
  ASSUME NEW argv \in Seq(Line), build_relaunch_params(argv) # Full
  PROVE  CommandLineToArgv(build_relaunch_params(argv)) = argv
  <1> DEFINE f == Lines(argv)
             n == Len(argv)
             S == {i \in Nat : i <= n => Collected(argv, i, f[i])}
  <1>1. n \in Nat /\ 0 \in Nat /\ n <= n
    OBVIOUS
  <1>2. f[0] = <<>> /\ \A i \in 1 .. n : f[i] = LineStep(f[i - 1], argv[i], i = 1)
    BY <1>1, LinesUnfold, Zenon
  <1> HIDE DEF f
  <1>3. Reads(<<>>, Outside(<<>>))
    <2>1. <<>> \in Line /\ Len(<<>>) = 0
      BY DEF Line
    <2>2. Reading(<<>>)[0] = Begin
      BY <1>1, <2>1, ReadingUnfolds, Zenon
    <2> QED
      BY <2>1, <2>2, Zenon DEF Reads, State, Begin, Outside
  <1>4. 0 \in S
    BY <1>1, <1>2, <1>3, Zenon DEF Collected
  <1>5. ASSUME NEW i \in Nat, i \in S PROVE i + 1 \in S
    <2> SUFFICES ASSUME i + 1 <= n PROVE Collected(argv, i + 1, f[i + 1])
      <3>1. i + 1 \in Nat
        OBVIOUS
      <3> QED
        BY <3>1, Zenon
    <2>1. i + 1 \in 1 .. n /\ (i + 1) - 1 = i /\ i <= n
      BY <1>1
    <2>2. Collected(argv, i, f[i])
      BY <1>5, <2>1, Zenon
    <2>3. f[i + 1] = LineStep(f[i], argv[i + 1], i + 1 = 1)
      BY <1>2, <2>1, Zenon
    <2> QED
      BY <2>1, <2>2, <2>3, ArgumentIsCollected, ZenonT(60)
  <1>6. \A i \in Nat : i \in S
    <2> HIDE DEF S
    <2> QED
      BY <1>4, <1>5, SetInduction, Zenon
  <1>7. Collected(argv, n, f[n])
    BY <1>1, <1>6, Zenon
  <1>8. PICK l \in {f[n]} : l = build_relaunch_params(argv) /\ Collected(argv, n, l) /\ l # Full
    BY <1>7, Zenon DEF build_relaunch_params, f
  <1>9. CASE n = 0
    <2>1. argv = <<>>
      BY <1>9
    <2>2. State(l) = Outside(<<>>)
      BY <1>8, <1>9, Zenon DEF Collected, Reads
    <2> QED
      BY <1>8, <2>1, <2>2, ReaderEnds, Zenon DEF CommandLineToArgv, State
  <1>10. CASE n # 0
    <2>1. State(l) = Closed(SubSeq(argv, 1, n - 1), argv[n])
      BY <1>8, <1>10, Zenon DEF Collected, Reads
    <2>2. n \in 1 .. Len(argv)
      BY <1>1, <1>10
    <2>3. SubSeq(argv, 1, n) = Append(SubSeq(argv, 1, n - 1), argv[n])
      BY <2>2, NextArgument, Zenon
    <2>4. SubSeq(argv, 1, n) = argv
      BY SubSeqFull
    <2>5. Ended(Closed(SubSeq(argv, 1, n - 1), argv[n])).args = Append(SubSeq(argv, 1, n - 1), argv[n])
      BY ReaderEnds, ZenonT(60)
    <2>6. Ended(State(l)).args = argv
      BY <2>1, <2>3, <2>4, <2>5
    <2> QED
      BY <1>8, <2>6, Zenon DEF CommandLineToArgv, State
  <1> QED
    BY <1>9, <1>10, Zenon

\* RelaunchFaithful: the process that is started with more rights has the
\* arguments of the one that starts it, for every list of arguments and every
\* size of the line (win_runtime.c:26-83).
THEOREM ArgumentsArrive == RelaunchSpec => []RelaunchFaithful
  <1>1. RelaunchInit => RelaunchFaithful
    BY DEF RelaunchInit, Idle, RelaunchFaithful
  <1>2. RelaunchFaithful /\ [RelaunchNext]_relaunch => RelaunchFaithful'
    <2> SUFFICES ASSUME RelaunchFaithful, [RelaunchNext]_relaunch PROVE RelaunchFaithful'
      OBVIOUS
    <2>1. CASE win_runtime_relaunch_as_admin
      <3>1. PICK argv \in Argvs :
              \/ relaunch' = [argv |-> argv, result |-> "failed", got |-> <<>>]
              \/ /\ build_relaunch_params(argv) # Full
                 /\ relaunch' = [argv |-> argv, result |-> "started",
                                 got |-> CommandLineToArgv(build_relaunch_params(argv))]
        BY <2>1, Zenon DEF win_runtime_relaunch_as_admin
      <3>2. argv \in Seq(Line)
        BY RelaunchAssumption, Zenon DEF Line
      <3>3. CASE relaunch' = [argv |-> argv, result |-> "failed", got |-> <<>>]
        BY <3>3 DEF RelaunchFaithful
      <3>4. CASE /\ build_relaunch_params(argv) # Full
                 /\ relaunch' = [argv |-> argv, result |-> "started",
                                 got |-> CommandLineToArgv(build_relaunch_params(argv))]
        <4>1. CommandLineToArgv(build_relaunch_params(argv)) = argv
          BY <3>2, <3>4, LineIsRead, Zenon
        <4> QED
          BY <3>4, <4>1 DEF RelaunchFaithful
      <3> QED
        BY <3>1, <3>3, <3>4, Zenon
    <2>2. CASE Again
      BY <2>2 DEF Again, Idle, RelaunchFaithful
    <2>3. CASE UNCHANGED relaunch
      BY <2>3 DEF RelaunchFaithful
    <2> QED
      BY <2>1, <2>2, <2>3, Zenon DEF RelaunchNext
  <1> QED
    BY <1>1, <1>2, PTL DEF RelaunchSpec
=============================================================================
