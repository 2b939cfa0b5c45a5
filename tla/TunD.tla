-------------------------------- MODULE TunD --------------------------------
(***************************************************************************)
(* The server and its clients over UDP: registration with retries, the     *)
(* keepalives of both sides, eviction, departure, crashes and restarts,    *)
(* with datagrams that are lost, delayed, reordered and duplicated.        *)
(*                                                                         *)
(* The parts are coarser here than in their own modules.  What the main    *)
(* thread of the server sends after it has unlocked the table is in flight *)
(* at once: a send that is late is a datagram that is late.  What the      *)
(* timeout thread sends is not, since a registration may come in between.  *)
(* A replay window is what ReplayChannel promises: a datagram is `stale'   *)
(* once the window it is meant for would refuse its number.  DATA and      *)
(* round-trip times are left out: they change no membership.               *)
(*                                                                         *)
(* A tick is TUND_KEEPALIVE_INTERVAL: at every tick the periodic threads   *)
(* do their work.  They are not in phase: what last happened n ticks ago   *)
(* happened between n-1 and n+1 intervals ago, so a limit of n intervals   *)
(* may or may not have passed; after n+1 ticks it has.  A KEEPALIVE and    *)
(* its ACK arrive within an interval or not at all.                        *)
(***************************************************************************)
EXTENDS Naturals, FiniteSets

CONSTANTS
  Clients,              \* the clients' endpoints (address and port)
  Hub,                  \* the server's endpoint
  Vips,                 \* the addresses the server hands out, as numbers
  None,
  RegisterRetries,      \* TUND_REGISTER_RETRIES
  PeerTicks,            \* TUND_PEER_TIMEOUT / TUND_KEEPALIVE_INTERVAL
  ServerTicks,          \* TUND_SERVER_TIMEOUT / TUND_KEEPALIVE_INTERVAL
  Lifetime,             \* ticks that a datagram may see in flight
  Faulty,               \* bound: clients that meet delays, faults, restarts
  MaxStarts,            \* bound: processes started on a faulty endpoint
  MaxFaults             \* bound: crashes, failing links, duplicated datagrams,
                        \* restarts of the server, departures of the others

ASSUME TunDAssumption ==
  /\ IsFiniteSet(Clients) /\ Hub \notin Clients /\ Faulty \subseteq Clients
  /\ Vips \subseteq Nat /\ None \notin Vips
  /\ RegisterRetries \in Nat \ {0}
  /\ PeerTicks \in Nat /\ ServerTicks \in Nat
  /\ Lifetime \in Nat /\ MaxStarts \in Nat /\ MaxFaults \in Nat

\* A peer timeout of three keepalive intervals leaves room for a registration,
\* which takes less than two of them, and for a datagram that is late both ways.
ASSUME TimingAssumption ==
  3 <= PeerTicks /\ 2 * Lifetime < PeerTicks /\ 1 <= ServerTicks

VARIABLES
  peers,                \* the server's table: the address of an endpoint
  quiet,                \* ticks since peer_t.last_seen
  leaves,               \* what server_timeout_thread has still to send
  state,                \* of the client process at an endpoint
  virtIp,               \* client_t.virt_ip
  attempt,              \* `attempt' of client_register
  silence,              \* ticks since client_t.last_server_seen
  view,                 \* client_t.peers: addresses of the others
  low,                  \* the process counts from below the server's window
  deaf,                 \* the server counts from below the client's window
  net,                  \* datagrams in flight
  cut,                  \* endpoints whose link is down
  starts,               \* processes started so far on an endpoint
  faults,               \* bound: faults so far
  unsure,               \* history: a client missed news, or may have
  adrift                \* history: ticks that the sides have disagreed

serverVars == <<peers, quiet, leaves>>
clientVars == <<state, virtIp, attempt, silence, view, deaf>>
vars == <<serverVars, clientVars, low, net, cut, starts, faults, unsure, adrift>>

Members == {c \in Clients : peers[c] # None}
AddressesOf(S) == {peers[c] : c \in S}
-----------------------------------------------------------------------------
(* Datagrams. *)

News == {"PEER_LIST", "PEER_JOIN", "PEER_LEAVE"}
Types == News \cup {"REGISTER", "ASSIGN", "DISCONNECT"}

\* Clients do not talk to each other, nor the server to itself.
Datagram ==
  {d \in [from : Clients \cup {Hub}, to : Clients \cup {Hub}, type : Types,
          about : SUBSET Vips, stale : BOOLEAN, age : 0 .. Lifetime] :
     (d.from = Hub) # (d.to = Hub)}

Message(from, to, type, about) ==
  [from |-> from, to |-> to, type |-> type, about |-> about,
   stale |-> IF from = Hub THEN deaf[to] ELSE low[from], age |-> 0]

EndpointOf(d) == IF d.from = Hub THEN d.to ELSE d.from
Travels(M) == {m \in M : EndpointOf(m) \notin cut}

\* A new window knows none of the numbers that are on their way to it.
NewWindow(from, to, N) ==
  {IF m.from = from /\ m.to = to THEN [m EXCEPT !.stale = FALSE] ELSE m : m \in N}

\* News that c loses, or that may overtake news of the opposite kind
Missed(c, M) ==
  \E m \in M : m.to = c /\ m.type \in News /\
    \/ c \in cut
    \/ \E n \in net : /\ n.to = c /\ n.type \in News
                      /\ (n.type = "PEER_LEAVE") # (m.type = "PEER_LEAVE")
                      /\ n.about \cap m.about # {}

\* The processes at S can no longer be sure of their news.
Unsure(S) ==
  unsure' = [c \in Clients |-> state'[c] # "down" /\ (unsure[c] \/ c \in S)]

\* M is sent while N stays in flight.
Sends(M, N) ==
  /\ net' = N \cup Travels(M)
  /\ Unsure({c \in Clients : Missed(c, M)})
-----------------------------------------------------------------------------
Init ==
  /\ peers = [c \in Clients |-> None]
  /\ quiet = [c \in Clients |-> 0]
  /\ leaves = {}
  /\ state = [c \in Clients |-> "down"]
  /\ virtIp = [c \in Clients |-> None]
  /\ attempt = [c \in Clients |-> 0]
  /\ silence = [c \in Clients |-> 0]
  /\ view = [c \in Clients |-> {}]
  /\ low = [c \in Clients |-> FALSE]
  /\ deaf = [c \in Clients |-> FALSE]
  /\ net = {}
  /\ cut = {}
  /\ starts = [e \in Clients \cup {Hub} |-> IF e = Hub THEN 1 ELSE 0]
  /\ faults = 0
  /\ unsure = [c \in Clients |-> FALSE]
  /\ adrift = [c \in Clients |-> 0]
-----------------------------------------------------------------------------
(* The server.  When d arrives, `copy' is what the network keeps of it. *)

FreeVips == Vips \ AddressesOf(Members)
IsLowest(v, S) == v \in S /\ \A w \in S : v <= w

\* Wrong: a known endpoint is given another address.
FaultyRegisterKnown(d, copy) ==
  /\ d.type = "REGISTER" /\ d.from \in Members /\ ~d.stale
  /\ \E v \in Vips :
       /\ IsLowest(v, FreeVips)
       /\ peers' = [peers EXCEPT ![d.from] = v]
       /\ Sends({Message(Hub, d.from, "ASSIGN", {v})}, (net \ {d}) \cup copy)
  /\ quiet' = [quiet EXCEPT ![d.from] = 0]
  /\ UNCHANGED <<leaves, low>>

\* server_handle_register, known endpoint: the answer is repeated.
RegisterKnown(d, copy) ==
  /\ d.type = "REGISTER" /\ d.from \in Members /\ ~d.stale
  /\ quiet' = [quiet EXCEPT ![d.from] = 0]
  /\ Sends({Message(Hub, d.from, "ASSIGN", {peers[d.from]})}, (net \ {d}) \cup copy)
  /\ UNCHANGED <<peers, leaves, low>>

\* server_handle_register, unknown endpoint: the first free address and a new
\* window; the newcomer is told of the others and the others of the newcomer.
RegisterNew(d, copy) ==
  /\ d.type = "REGISTER" /\ d.from \notin Members
  /\ \E v \in Vips :
       /\ IsLowest(v, FreeVips)
       /\ peers' = [peers EXCEPT ![d.from] = v]
       /\ Sends({Message(Hub, d.from, "ASSIGN", {v}),
                 Message(Hub, d.from, "PEER_LIST", AddressesOf(Members))}
                  \cup {Message(Hub, c, "PEER_JOIN", {v}) : c \in Members},
                NewWindow(d.from, Hub, net \ {d}) \cup copy)
  /\ quiet' = [quiet EXCEPT ![d.from] = 0]
  /\ UNCHANGED <<leaves, low>>

\* Faulty variant: nobody is told.
FaultyParting(S) == {}

\* The others are to be told that the members of S have left.
Parting(S) == {[to |-> c, vip |-> peers[x]] : c \in Members \ S, x \in S}
Farewell(l) == Message(Hub, l.to, "PEER_LEAVE", {l.vip})
Farewells(S) == {Farewell(l) : l \in Parting(S)}

\* server_handle_disconnect
HandleDisconnect(d, copy) ==
  /\ d.type = "DISCONNECT" /\ d.from \in Members /\ ~d.stale
  /\ peers' = [peers EXCEPT ![d.from] = None]
  /\ quiet' = [quiet EXCEPT ![d.from] = 0]
  /\ low' = [low EXCEPT ![d.from] = FALSE]
  /\ net' = (net \ {d}) \cup copy \cup Travels(Farewells({d.from}))
  /\ Unsure({d.from} \cup {c \in Clients : Missed(c, Farewells({d.from}))})
  /\ UNCHANGED leaves

\* A replayed number, an endpoint that is not registered, or no free address
ServerDrops(d, copy) ==
  /\ IF d.from \in Members THEN d.stale ELSE d.type # "REGISTER" \/ FreeVips = {}
  /\ Sends({}, (net \ {d}) \cup copy)
  /\ UNCHANGED <<serverVars, low>>

ServerHandles(d, copy) ==
  /\ d.to = Hub
  /\ UNCHANGED clientVars
  /\ \/ RegisterKnown(d, copy) \/ RegisterNew(d, copy)
     \/ HandleDisconnect(d, copy) \/ ServerDrops(d, copy)

\* The address that has become free belongs to a member again: who hears of the
\* departure only now forgets that member.
GivenAway(c, l) == c = l.to /\ l.vip \in AddressesOf(Members \ {c})

\* server_timeout_thread, after it has unlocked the table: one PEER_LEAVE.
SendLeave(l) ==
  /\ leaves' = leaves \ {l}
  /\ net' = net \cup Travels({Farewell(l)})
  /\ UNCHANGED <<peers, quiet, clientVars, low, cut, starts, faults>>
  /\ Unsure({c \in Clients : Missed(c, {Farewell(l)}) \/ GivenAway(c, l)})
-----------------------------------------------------------------------------
(* A client.  "down" is no process. *)

\* The processes of S end, and their memory with them.
Forget(S) ==
  /\ state' = [c \in Clients |-> IF c \in S THEN "down" ELSE state[c]]
  /\ virtIp' = [c \in Clients |-> IF c \in S THEN None ELSE virtIp[c]]
  /\ attempt' = [c \in Clients |-> IF c \in S THEN 0 ELSE attempt[c]]
  /\ view' = [c \in Clients |-> IF c \in S THEN {} ELSE view[c]]
  /\ deaf' = [c \in Clients |-> deaf[c] /\ c \notin S]

End(c) == Forget({c}) /\ silence' = [silence EXCEPT ![c] = 0]

\* main, client_init: a process starts.  Its first number is random
\* (proto_initial_sequence): if the server still has an entry for the endpoint,
\* the number may be below the window of that entry.
Start(c) ==
  /\ state[c] = "down"
  /\ starts[c] < IF c \in Faulty THEN MaxStarts ELSE 1
  /\ starts' = [starts EXCEPT ![c] = @ + 1]
  /\ \E below \in BOOLEAN :
       /\ below => c \in Members
       /\ low' = [low EXCEPT ![c] = below]
       /\ net' = NewWindow(Hub, c, net)
            \cup Travels({[Message(c, Hub, "REGISTER", {}) EXCEPT !.stale = below]})
  /\ state' = [state EXCEPT ![c] = "register"]
  /\ silence' = [silence EXCEPT ![c] = 0]
  /\ unsure' = [unsure EXCEPT ![c] = \/ c \in Members \/ \E l \in leaves : l.to = c
                                    \/ \E n \in net : n.to = c /\ n.type \in News]
  /\ UNCHANGED <<serverVars, virtIp, attempt, view, deaf, cut, faults>>

\* client_register: the turn is used up.  The next one sends again; after the
\* last one client_init fails, and nobody tells the server.
NextTurn(c, N) ==
  \/ /\ attempt[c] + 1 < RegisterRetries
     /\ attempt' = [attempt EXCEPT ![c] = @ + 1]
     /\ net' = N \cup Travels({Message(c, Hub, "REGISTER", {})})
     /\ UNCHANGED <<state, virtIp, silence, view, deaf>>
  \/ /\ attempt[c] + 1 = RegisterRetries
     /\ End(c)
     /\ net' = N

\* client_register: nothing arrives in time.
RegisterTimeout(c) ==
  /\ state[c] = "register"
  /\ c \in Faulty \/ FreeVips = {}
  /\ NextTurn(c, net)
  /\ Unsure({})
  /\ UNCHANGED <<serverVars, low, cut, starts, faults>>

\* client_register: ASSIGN.  client_init goes on with tun_open, tun_set_ip and
\* tun_set_mtu; when one of them fails the client exits without a DISCONNECT.
\* The socket is not read meanwhile, so that what arrives just waits.
HandleAssign(d, copy) ==
  /\ state[d.to] = "register" /\ d.type = "ASSIGN" /\ ~d.stale
  /\ \/ /\ state' = [state EXCEPT ![d.to] = "up"]
        /\ \E v \in d.about : virtIp' = [virtIp EXCEPT ![d.to] = v]
        /\ attempt' = [attempt EXCEPT ![d.to] = 0]
        /\ silence' = [silence EXCEPT ![d.to] = 0]
        /\ UNCHANGED <<view, deaf>>
     \/ d.to \in Faulty /\ End(d.to)
  /\ Sends({}, (net \ {d}) \cup copy)

\* client_register: another message, or a replay, uses up the turn.  News is
\* gone for good.
RegisterOther(d, copy) ==
  /\ state[d.to] = "register" /\ (d.type # "ASSIGN" \/ d.stale)
  /\ NextTurn(d.to, (net \ {d}) \cup copy)
  /\ Unsure(IF d.type \in News THEN {d.to} ELSE {})

\* client_handle_server_packet: any accepted number shows that the server is
\* alive; the list and the joins add peers, a leave removes one.
HandleNews(d, copy) ==
  /\ state[d.to] = "up" /\ ~d.stale /\ d.type \in News
  /\ silence' = [silence EXCEPT ![d.to] = 0]
  /\ view' = [view EXCEPT ![d.to] = IF d.type = "PEER_LEAVE" THEN @ \ d.about
                                                             ELSE @ \cup d.about]
  /\ UNCHANGED <<state, virtIp, attempt, deaf>>
  /\ Sends({}, (net \ {d}) \cup copy)

\* The server has stopped: the client does too, and says so.
HandleStop(d, copy) ==
  /\ state[d.to] = "up" /\ ~d.stale /\ d.type = "DISCONNECT"
  /\ End(d.to)
  /\ Sends({Message(d.to, Hub, "DISCONNECT", {})}, (net \ {d}) \cup copy)

\* A late ASSIGN is not a message of the receive loop.
HandleUnknown(d, copy) ==
  /\ state[d.to] = "up" /\ ~d.stale /\ d.type = "ASSIGN"
  /\ silence' = [silence EXCEPT ![d.to] = 0]
  /\ UNCHANGED <<state, virtIp, attempt, view, deaf>>
  /\ Sends({}, (net \ {d}) \cup copy)

ClientDrops(d, copy) ==
  /\ state[d.to] = "down" \/ (state[d.to] = "up" /\ d.stale)
  /\ UNCHANGED clientVars
  /\ Sends({}, (net \ {d}) \cup copy)

ClientHandles(d, copy) ==
  /\ d.to # Hub
  /\ \/ HandleAssign(d, copy) \/ RegisterOther(d, copy)
     \/ HandleNews(d, copy) \/ HandleStop(d, copy) \/ HandleUnknown(d, copy) \/ ClientDrops(d, copy)
  /\ UNCHANGED <<serverVars, low>>

Fault == faults < MaxFaults /\ faults' = faults + 1

\* Ctrl+C, the GUI's stop: client_shutdown tells the server, once.
Quit(c) ==
  /\ state[c] = "up"
  /\ IF c \in Faulty THEN UNCHANGED faults ELSE Fault
  /\ End(c)
  /\ Sends({Message(c, Hub, "DISCONNECT", {})}, net)
  /\ UNCHANGED <<serverVars, low, cut, starts>>

Crash(c) ==
  /\ state[c] # "down"
  /\ Fault
  /\ End(c)
  /\ Unsure({})
  /\ UNCHANGED <<serverVars, low, net, cut, starts>>

\* The server stops, in which case server_shutdown tells the members and waits
\* for the timeout thread, or dies; it is started again with an empty table.
\* Its new first number may be below the windows of the clients that have
\* accepted a number.
ServerRestart ==
  /\ starts[Hub] < MaxStarts
  /\ Fault
  /\ starts' = [starts EXCEPT ![Hub] = @ + 1]
  /\ peers' = [c \in Clients |-> None]
  /\ quiet' = [c \in Clients |-> 0]
  /\ low' = [c \in Clients |-> FALSE]
  /\ \E S \in SUBSET {c \in Faulty : state[c] = "up" \/ attempt[c] > 0} :
       deaf' = [c \in Clients |-> c \in S]
  /\ leaves' = {}
  /\ \/ net' = net \cup Travels({Message(Hub, c, "DISCONNECT", {}) : c \in Members}
                               \cup {Farewell(l) : l \in leaves})
     \/ UNCHANGED net
  /\ UNCHANGED <<state, virtIp, attempt, silence, view, cut>>
  /\ Unsure(Clients)
-----------------------------------------------------------------------------
(* The network, and the threads that act as time passes. *)

Copies(d) == {{}, {[d EXCEPT !.stale = TRUE]}}

Deliver(d) ==
  \E copy \in Copies(d) :
    /\ IF copy = {} THEN UNCHANGED faults ELSE EndpointOf(d) \in Faulty /\ Fault
    /\ ServerHandles(d, copy) \/ ClientHandles(d, copy)
    /\ UNCHANGED <<cut, starts>>

\* What is sent over a link that is down is lost.
Cut(c) ==
  /\ c \notin cut
  /\ Fault
  /\ cut' = cut \cup {c}
  /\ UNCHANGED <<serverVars, clientVars, low, net, starts, unsure>>

Heal(c) ==
  /\ c \in cut
  /\ cut' = cut \ {c}
  /\ UNCHANGED <<serverVars, clientVars, low, net, starts, faults, unsure>>

Older(n, limit) == IF n > limit THEN n ELSE n + 1
Overdue(S, age, limit) ==
  {T \in SUBSET {c \in S : age[c] + 1 >= limit} :
     {c \in S : age[c] + 1 > limit} \subseteq T}

\* KEEPALIVE and KEEPALIVE_ACK are exchanged over these links; each side takes
\* only the numbers that are not below its window.
Up == {c \in Clients : state[c] = "up"}
Linked == (Up \cap Members) \ cut
FaultyHeard == Linked
Heard == {c \in Linked : ~low[c]}
Hears == {c \in Linked : ~deaf[c]}

\* An interval passes: registration takes less than two of them, and what the
\* timeout thread has to send less than one.  server_timeout_thread removes the
\* peers that have been quiet; each client_keepalive_thread stops its client if
\* the server has been silent.  The others exchange KEEPALIVE and KEEPALIVE_ACK.
Tick ==
  /\ \A d \in net : d.age < Lifetime
  /\ \A c \in Clients : state[c] = "register" => silence[c] < 2
  /\ leaves = {}
  /\ \E evicted \in Overdue(Members, quiet, PeerTicks),
        stopped \in Overdue(Up, silence, ServerTicks) :
       /\ peers' = [c \in Clients |-> IF c \in evicted THEN None ELSE peers[c]]
       /\ low' = [c \in Clients |-> low[c] /\ c \notin evicted]
       /\ quiet' = [c \in Clients |-> IF c \in Members \ (evicted \cup (Heard \ stopped))
                                      THEN Older(quiet[c], PeerTicks) ELSE 0]
       /\ Forget(stopped)
       /\ silence' = [c \in Clients |->
                        IF state[c] = "down" \/ c \in stopped \cup (Hears \ evicted)
                        THEN 0 ELSE Older(silence[c], ServerTicks)]
       /\ leaves' = Parting(evicted)
       /\ net' = {[d EXCEPT !.age = @ + 1] : d \in net}
                   \cup Travels({Message(c, Hub, "DISCONNECT", {}) : c \in stopped})
       /\ Unsure(evicted)
  /\ UNCHANGED <<cut, starts, faults>>

\* The clients that meet no fault are served at once; the rest waits for them.
Prompt == {d \in net : EndpointOf(d) \notin Faulty}

\* The server has an entry that no client answers for, or a client is up that
\* the server does not know.
Adrift(c) == IF c \in Members THEN state[c] = "down" \/ low[c] \/ deaf[c] ELSE state[c] = "up"

Step ==
  \/ \E d \in net : (Prompt = {} \/ d \in Prompt) /\ Deliver(d)
  \/ /\ Prompt = {}
     /\ \/ \E c \in Clients : Start(c) \/ RegisterTimeout(c) \/ Quit(c)
        \/ \E c \in Faulty : Crash(c) \/ Cut(c) \/ Heal(c)
        \/ \E l \in leaves : SendLeave(l)
        \/ ServerRestart

Next ==
  \/ Step /\ adrift' = [c \in Clients |-> IF Adrift(c)' /\ faults' = faults THEN adrift[c] ELSE 0]
  \/ /\ Prompt = {} /\ Tick
     /\ adrift' = [c \in Clients |-> IF Adrift(c)' THEN adrift[c] + 1 ELSE 0]

Spec == Init /\ [][Next]_vars
-----------------------------------------------------------------------------
\* The types: of the table, of the clients' memory and of what is in flight.
TypeOK ==
  /\ peers \in [Clients -> Vips \cup {None}]
  /\ quiet \in [Clients -> 0 .. PeerTicks + 1]
  /\ leaves \subseteq [to : Clients, vip : Vips]
  /\ state \in [Clients -> {"down", "register", "up"}]
  /\ virtIp \in [Clients -> Vips \cup {None}]
  /\ attempt \in [Clients -> 0 .. RegisterRetries - 1]
  /\ silence \in [Clients -> 0 .. ServerTicks + 1]
  /\ view \in [Clients -> SUBSET Vips]
  /\ low \in [Clients -> BOOLEAN] /\ deaf \in [Clients -> BOOLEAN]
  /\ net \subseteq Datagram
  /\ cut \subseteq Clients
  /\ unsure \in [Clients -> BOOLEAN]

\* A client that is up and the server that knows it agree on the client's
\* address, whatever was lost, repeated or delayed, even if it was evicted or
\* asked several times (handlers.c:40, register.c:95).  For the first process on
\* an endpoint and of the server: a datagram of a predecessor can give a later
\* one another address.
AddressAgreement ==
  \A c \in Members : state[c] = "up" /\ starts[c] = 1 /\ starts[Hub] = 1 => peers[c] = virtIp[c]

\* A client that has heard all its news knows exactly the other members.  The
\* exceptions are in `unsure': a PEER_LIST that arrived before the ASSIGN
\* (register.c:96), news lost or overtaken on the way, a PEER_LEAVE that the
\* timeout thread sends when its address belongs to a new member (threads.c:42),
\* and an eviction or an old DISCONNECT, which no message repairs (handlers.c:40
\* sends no list).
SettledView ==
  \A c \in Members :
    \/ state[c] # "up" \/ unsure[c]
    \/ \E d \in net : d.to = c /\ d.type \in News
    \/ \E l \in leaves : l.to = c
    \/ view[c] = AddressesOf(Members \ {c})

\* The two sides do not disagree for ever.  A peer whose process is gone or
\* whose numbers are refused is evicted, and a client that the server has
\* forgotten stops by itself, whatever mix of crash, restart, late datagram and
\* broken link led there (threads.c:30, session.c:14).  That takes no longer
\* than both timeouts, a registration and a datagram that is late both ways.
Reconciled == \A c \in Clients : adrift[c] <= PeerTicks + ServerTicks + 2 * Lifetime + 2
=============================================================================
