------------------------------- MODULE Client -------------------------------
(***************************************************************************)
(* A TunD client (src/core/client): registration, the receive loop with    *)
(* its handlers and its table of peers, the keepalive thread that notices  *)
(* a dead server and the thread that forwards what the TUN device emits.   *)
(* How the threads are started and joined is the subject of Lifecycle.     *)
(*                                                                         *)
(* Time enters the code only as the difference between `now' and           *)
(* last_server_seen, so that difference is the state: `silence', which     *)
(* stops counting once it exceeds ServerTimeout.  Names, the bytes         *)
(* received and the round-trip time are left out: no step depends on them. *)
(***************************************************************************)
EXTENDS ReplayWindow, Sequences, FiniteSets

CONSTANTS
  Vips,                 \* virtual addresses of the other peers
  BroadcastIp,          \* the broadcast address of the virtual subnet
  None,
  MaxPeers,             \* TUND_MAX_PEERS: slots of the client's table
  RegisterRetries,      \* TUND_REGISTER_RETRIES
  KeepaliveInterval,    \* TUND_KEEPALIVE_INTERVAL
  ServerTimeout,        \* TUND_SERVER_TIMEOUT
  TimeRange,            \* how many values a uint_fast64_t has
  ListLength,           \* bound: entries of a PEER_LIST
  MaxData               \* bound: packets sent to one destination

\* The server hands out as many addresses as the table has slots (tund.h).
ASSUME ClientAssumption ==
  /\ MaxPeers \in Nat \ {0}
  /\ IsFiniteSet(Vips) /\ Cardinality(Vips) <= MaxPeers
  /\ BroadcastIp \notin Vips /\ None \notin Vips \cup {BroadcastIp}
  /\ None \notin Int
  /\ RegisterRetries \in Nat \ {0}
  /\ KeepaliveInterval \in Nat \ {0} /\ ServerTimeout \in Nat
  /\ TimeRange \in Nat /\ TimeRange > ServerTimeout + 1
  /\ SeqNums \subseteq Nat \ {0}    \* proto_read_sequence refuses 0
  /\ ListLength \in Nat /\ MaxData \in Nat

Slots == 0 .. MaxPeers - 1
Destinations == Vips \cup {BroadcastIp}
Entry == [vip : Vips, online : BOOLEAN]
Lists == UNION {[1 .. n -> Entry] : n \in 0 .. ListLength}

VARIABLES
  pc,                   \* where the main thread is
  attempt,              \* `attempt' of client_register
  replay,               \* client_t.server_replay
  list,                 \* entries of a PEER_LIST not applied yet
  peers,                \* client_t.peers
  peerCount,            \* client_t.peer_count
  silence,              \* time since client_t.last_server_seen
  slept,                \* `slept' of the keepalive thread
  ka,                   \* where the keepalive thread is
  age,                  \* its `now', less last_server_seen, or None
  credit,               \* TUN thread: destination to be credited, or None
  running,              \* g_running
  expected,             \* history: what the handled messages add up to
  sent                  \* history: packets sent to each destination

mainVars == <<pc, attempt, replay, list>>
tableVars == <<peers, peerCount, expected>>
keepaliveVars == <<silence, slept, ka, age>>
tunVars == <<credit, sent>>
vars == <<mainVars, tableVars, keepaliveVars, tunVars, running>>
-----------------------------------------------------------------------------
(* The table.  An inactive slot keeps its contents until it is reused. *)

Slot == [active : BOOLEAN, vip : Vips \cup {None}, bytesOut : Nat]
Active == {i \in Slots : peers[i].active}

\* Faulty variant: the search stops one slot early.
FaultyFreeSlots == {i \in Slots \ {MaxPeers - 1} : ~peers[i].active}

SlotsByVip(v) == {i \in Active : peers[i].vip = v}
FreeSlots == {i \in Slots : ~peers[i].active}
IsFirst(i, S) == i \in S /\ \A j \in S : i <= j

\* Faulty variant: the counter of the former occupant is kept.
FaultyNewEntry(i, v) == [active |-> TRUE, vip |-> v, bytesOut |-> peers[i].bytesOut]

NewEntry(i, v) == [active |-> TRUE, vip |-> v, bytesOut |-> 0]

\* client_update_peer with `online': a known peer is refreshed, an unknown one
\* gets the first free slot, if there is any.
AddPeer(v) ==
  /\ expected' = expected \cup {v}
  /\ \/ /\ SlotsByVip(v) # {} \/ FreeSlots = {}
        /\ UNCHANGED <<peers, peerCount>>
     \/ /\ SlotsByVip(v) = {}
        /\ \E i \in Slots :
             /\ IsFirst(i, FreeSlots)
             /\ peers' = [peers EXCEPT ![i] = NewEntry(i, v)]
        /\ peerCount' = peerCount + 1

\* client_update_peer without `online', and client_handle_peer_leave
RemovePeer(v) ==
  /\ expected' = expected \ {v}
  /\ \/ /\ SlotsByVip(v) = {}
        /\ UNCHANGED <<peers, peerCount>>
     \/ /\ \E i \in Slots :
             /\ IsFirst(i, SlotsByVip(v))
             /\ peers' = [peers EXCEPT ![i] = [peers[i] EXCEPT !.active = FALSE]]
        /\ peerCount' = peerCount - 1

UpdatePeer(v, online) == IF online THEN AddPeer(v) ELSE RemovePeer(v)
-----------------------------------------------------------------------------
Init ==
  /\ pc = "register"
  /\ attempt = 0
  /\ replay = ReplayReset
  /\ list = <<>>
  /\ peers = [i \in Slots |-> [active |-> FALSE, vip |-> None, bytesOut |-> 0]]
  /\ peerCount = 0
  /\ silence = 0
  /\ slept = 0
  /\ ka = "sleep"
  /\ age = None
  /\ credit = None
  /\ running = TRUE
  /\ expected = {}
  /\ sent = [d \in Destinations |-> 0]

\* client_register, the send of one attempt; when it fails so does client_init.
RegisterSend ==
  /\ pc = "register"
  /\ pc' \in {"await", "failed"}
  /\ UNCHANGED <<attempt, replay, list, tableVars, keepaliveVars, tunVars, running>>

\* client_mark_server_seen: `now' of the keepalive thread, if it has read the
\* time already, is then not later than last_server_seen, and may be earlier.
MarkServerSeen ==
  /\ silence' = 0
  /\ IF age = None THEN age' = None ELSE age' \in {0, -1}
  /\ UNCHANGED <<slept, ka>>

\* client_register: MSG_ASSIGN arrives.  The threads start.
Registered(seq) ==
  /\ pc = "await"
  /\ ReplayAccepts(replay, seq)
  /\ replay' = ReplayUpdate(replay, seq)
  /\ pc' = "loop"
  /\ MarkServerSeen
  /\ UNCHANGED <<attempt, list, tableVars, tunVars, running>>

\* client_register: one turn that does not succeed.  Nothing arrives in time,
\* or what arrives is not the answer: whatever it is, it uses up the turn, and
\* its number if it is an authentic datagram of the server.
TryAgain ==
  /\ attempt' = attempt + 1
  /\ pc' = IF attempt + 1 = RegisterRetries THEN "failed" ELSE "register"
  /\ UNCHANGED <<list, tableVars, keepaliveVars, tunVars, running>>

NoAnswer ==
  /\ pc = "await"
  /\ TryAgain
  /\ UNCHANGED replay

OtherAnswer(seq) ==
  /\ pc = "await"
  /\ ReplayAccepts(replay, seq)
  /\ replay' = ReplayUpdate(replay, seq)
  /\ TryAgain

\* client_register: poll fails.
RegisterError ==
  /\ pc = "await"
  /\ pc' = "failed"
  /\ UNCHANGED <<attempt, replay, list, tableVars, keepaliveVars, tunVars, running>>
-----------------------------------------------------------------------------
\* client_run: the test of the receive loop, before it polls
LoopTest ==
  /\ pc = "loop"
  /\ pc' = IF running THEN "poll" ELSE "stopped"
  /\ UNCHANGED <<attempt, replay, list, tableVars, keepaliveVars, tunVars, running>>

\* client_run: nothing to read, or a datagram that is dropped (undecryptable,
\* not from the server, malformed, replayed); or poll fails, which ends it.
LoopNothing ==
  /\ pc = "poll"
  /\ pc' \in {"loop", "stopped"}
  /\ UNCHANGED <<attempt, replay, list, tableVars, keepaliveVars, tunVars, running>>

\* client_handle_server_packet up to its switch
HandleServerPacket(seq) ==
  /\ pc = "poll"
  /\ ReplayAccepts(replay, seq)
  /\ replay' = ReplayUpdate(replay, seq)
  /\ MarkServerSeen
  /\ UNCHANGED <<attempt, tunVars>>

\* client_handle_peer_list: the entries are applied one by one.
HandlePeerList(entries, seq) ==
  /\ HandleServerPacket(seq)
  /\ list' = entries
  /\ pc' = IF entries = <<>> THEN "loop" ELSE "list"
  /\ UNCHANGED <<tableVars, running>>

ApplyEntry ==
  /\ pc = "list"
  /\ UpdatePeer(Head(list).vip, Head(list).online)
  /\ list' = Tail(list)
  /\ pc' = IF Tail(list) = <<>> THEN "loop" ELSE "list"
  /\ UNCHANGED <<attempt, replay, keepaliveVars, tunVars, running>>

HandlePeerJoin(v, seq) ==
  /\ HandleServerPacket(seq)
  /\ AddPeer(v)
  /\ pc' = "loop"
  /\ UNCHANGED <<list, running>>

HandlePeerLeave(v, seq) ==
  /\ HandleServerPacket(seq)
  /\ RemovePeer(v)
  /\ pc' = "loop"
  /\ UNCHANGED <<list, running>>

HandleDisconnect(seq) ==
  /\ HandleServerPacket(seq)
  /\ running' = FALSE
  /\ pc' = "loop"
  /\ UNCHANGED <<list, tableVars>>

\* DATA, KEEPALIVE, KEEPALIVE_ACK, an unknown type, or a payload that its
\* handler rejects
HandleOther(seq) ==
  /\ HandleServerPacket(seq)
  /\ pc' = "loop"
  /\ UNCHANGED <<list, tableVars, running>>
-----------------------------------------------------------------------------
Started == pc \in {"loop", "poll", "list", "stopped"}

\* client_keepalive_thread: the interval has passed and `now' is read.
KeepaliveWake ==
  /\ Started /\ running
  /\ ka = "sleep" /\ slept = KeepaliveInterval
  /\ slept' = 0
  /\ ka' = "load"
  /\ age' = silence
  /\ UNCHANGED <<mainVars, tableVars, tunVars, running, silence>>

\* The unsigned difference of two times
Unsigned(n) == IF n < 0 THEN n + TimeRange ELSE n

\* Faulty variant: the times are not compared before they are subtracted.
FaultyServerTimedOut == Unsigned(age) > ServerTimeout

\* client_server_timed_out, after it has loaded last_server_seen
ServerTimedOut == age > 0 /\ Unsigned(age) > ServerTimeout

\* client_keepalive_thread: last_server_seen is loaded, and with it the thread
\* has decided to stop the client, or it sends a KEEPALIVE.
KeepaliveLoad ==
  /\ ka = "load"
  /\ ka' = IF ServerTimedOut THEN "stop" ELSE "sleep"
  /\ age' = None
  /\ UNCHANGED <<mainVars, tableVars, tunVars, running, silence, slept>>

\* Faulty variant: the thread ends without stopping the client.
FaultyKeepaliveStop ==
  /\ ka = "stop"
  /\ ka' = "ended"
  /\ UNCHANGED <<mainVars, tableVars, tunVars, running, silence, slept, age>>

\* client_keepalive_thread: after the message to the log, tund_request_stop;
\* what has arrived from the server meanwhile makes no difference.
KeepaliveStop ==
  /\ ka = "stop"
  /\ ka' = "ended"
  /\ running' = FALSE
  /\ UNCHANGED <<mainVars, tableVars, tunVars, silence, slept, age>>

\* A second passes.
Tick ==
  /\ Started
  /\ silence' = IF silence > ServerTimeout THEN silence ELSE silence + 1
  /\ slept' = IF ka = "sleep" /\ slept < KeepaliveInterval THEN slept + 1 ELSE slept
  /\ UNCHANGED <<mainVars, tableVars, tunVars, ka, age, running>>

\* client_tun_thread: a packet for d is read and sent.
TunRead(d) ==
  /\ Started
  /\ credit = None
  /\ sent[d] < MaxData
  /\ credit' = d
  /\ sent' = [sent EXCEPT ![d] = @ + 1]
  /\ UNCHANGED <<mainVars, tableVars, keepaliveVars, running>>

\* The slots that client_add_broadcast_traffic or client_add_peer_traffic
\* credits
Credited ==
  IF credit = BroadcastIp THEN Active
  ELSE {i \in Slots : IsFirst(i, SlotsByVip(credit))}

TunCredit ==
  /\ credit # None
  /\ peers' = [i \in Slots |->
                 IF i \in Credited
                 THEN [peers[i] EXCEPT !.bytesOut = peers[i].bytesOut + 1]
                 ELSE peers[i]]
  /\ credit' = None
  /\ UNCHANGED <<mainVars, keepaliveVars, peerCount, expected, sent, running>>

\* signal_handler, stdin_control_thread: tund_request_stop
RequestStop ==
  /\ running
  /\ running' = FALSE
  /\ UNCHANGED <<mainVars, tableVars, keepaliveVars, tunVars>>

Main ==
  \/ RegisterSend \/ NoAnswer \/ RegisterError \/ LoopTest \/ LoopNothing
  \/ \E seq \in SeqNums :
       \/ Registered(seq)
       \/ OtherAnswer(seq)
       \/ \E entries \in Lists : HandlePeerList(entries, seq)
       \/ \E v \in Vips : HandlePeerJoin(v, seq) \/ HandlePeerLeave(v, seq)
       \/ HandleDisconnect(seq)
       \/ HandleOther(seq)
  \/ ApplyEntry

Next ==
  \/ Main
  \/ KeepaliveWake \/ KeepaliveLoad \/ KeepaliveStop
  \/ \E d \in Destinations : TunRead(d)
  \/ TunCredit
  \/ RequestStop
  \/ Tick

\* The keepalive thread takes no lock and is scheduled; time passes.
Fairness ==
  /\ WF_vars(KeepaliveWake) /\ WF_vars(KeepaliveLoad) /\ WF_vars(KeepaliveStop)
  /\ WF_vars(Tick)

Spec == Init /\ [][Next]_vars
FairSpec == Spec /\ Fairness
-----------------------------------------------------------------------------
TypeOK ==
  /\ pc \in {"register", "await", "loop", "poll", "list", "stopped", "failed"}
  /\ attempt \in 0 .. RegisterRetries
  /\ pc \in {"register", "await"} => attempt < RegisterRetries
  /\ replay \in WindowType
  /\ list \in Seq(Entry)
  /\ pc = "list" => list # <<>>
  /\ peers \in [Slots -> Slot]
  /\ peerCount \in 0 .. MaxPeers
  /\ silence \in 0 .. ServerTimeout + 1
  /\ slept \in 0 .. KeepaliveInterval
  /\ ka \in {"sleep", "load", "stop", "ended"}
  /\ age \in -1 .. ServerTimeout + 1 \cup {None}
  /\ ka = "load" <=> age # None
  /\ credit \in Destinations \cup {None}
  /\ running \in BOOLEAN
  /\ expected \subseteq Vips
  /\ sent \in [Destinations -> Nat]

\* client_update_peer never has two slots for one address, whatever sequence
\* of lists, joins and leaves arrives, and peer_count is the number of peers.
TableConsistent ==
  /\ \A i, j \in Active : i # j => peers[i].vip # peers[j].vip
  /\ \A i \in Active : peers[i].vip \in Vips
  /\ peerCount = Cardinality(Active)

\* The table holds exactly the peers that the handled messages add up to: no
\* slot is lost to a former peer and no newcomer is turned away for want of a
\* slot ("return" in client_update_peer when free_idx < 0).
ViewExact == {peers[i].vip : i \in Active} = expected

\* A peer is credited with a packet only if it was sent to its address (or to
\* all), and once, although the packet is sent without the lock and credited
\* later, when the slots may have changed hands.
Owed(v) == IF credit \in {v, BroadcastIp} THEN 1 ELSE 0

CreditedOnce ==
  \A i \in Active :
    peers[i].bytesOut + Owed(peers[i].vip)
      <= sent[peers[i].vip] + sent[BroadcastIp]

\* The keepalive thread decides to stop the client only if the server is silent
\* for too long at the moment of the decision, although it has read the time
\* before last_server_seen and may find that later than its own time (the test
\* `current > last' of client_server_timed_out).  From the decision to
\* tund_request_stop the server may still be heard, to no avail.
StopsOnlyOnSilence == [][ka # "stop" /\ ka' = "stop" => silence > ServerTimeout]_vars

\* A client whose server has gone silent does not stay up for ever: again and
\* again it hears from the server, unless it has stopped or never registered.
NoticesSilence == []<>(~running \/ silence = 0 \/ pc = "failed")

IInv ==
  /\ TypeOK
  /\ TableConsistent
  /\ ViewExact
  /\ age # None => age <= silence
  /\ credit # None => sent[credit] > 0
  /\ CreditedOnce
=============================================================================
