----------------------------- MODULE TunDProofs -----------------------------
(***************************************************************************)
(* The types of the composition, and that a client and the server agree on *)
(* the client's address, for any number of clients, addresses, faults,     *)
(* crashes and restarts.                                                   *)
(***************************************************************************)
EXTENDS TunD, TLAPS
\* The server has been started at least once.
StartTypes == starts \in [Clients \cup {Hub} -> Nat] /\ starts[Hub] # 0

\* The fields of a message
LEMMA MessageFields ==
  ASSUME NEW from, NEW to, NEW type, NEW about
  PROVE  LET m == Message(from, to, type, about) IN
         /\ m.from = from /\ m.to = to /\ m.type = type /\ m.about = about /\ m.age = 0
         /\ m.stale = IF from = Hub THEN deaf[to] ELSE low[from]
  BY DEF Message

\* No datagram is older than the network keeps one, before and after a step.
LEMMA Ages ==
  ASSUME TypeOK, NEW m \in net
  PROVE  m.age \in Nat /\ m.age <= Lifetime
  BY TunDAssumption DEF TypeOK, Datagram

\* The same after a step.
LEMMA AgesNext ==
  ASSUME TypeOK', NEW m \in net'
  PROVE  m.age \in Nat /\ m.age <= Lifetime
  BY TunDAssumption DEF TypeOK, Datagram

\* What either side sends is a datagram.
LEMMA MessageType ==
  ASSUME TypeOK, NEW from, NEW to, NEW type \in Types, NEW about \in SUBSET Vips,
         \/ from = Hub /\ to \in Clients
         \/ from \in Clients /\ to = Hub
  PROVE  Message(from, to, type, about) \in Datagram
  <1>1. (IF from = Hub THEN deaf[to] ELSE low[from]) \in BOOLEAN
    BY TunDAssumption DEF TypeOK
  <1>2. (from = Hub) # (to = Hub)
    BY TunDAssumption
  <1> QED
    BY <1>1, <1>2, TunDAssumption DEF Message, Datagram

\* The network changes no datagram but for its staleness.
LEMMA NewWindowType ==
  ASSUME NEW from, NEW to, NEW N \in SUBSET Datagram
  PROVE  NewWindow(from, to, N) \subseteq Datagram
  BY ZenonT(60) DEF NewWindow, Datagram

\* A duplicate of a datagram is one.
LEMMA CopiesType ==
  ASSUME NEW d \in Datagram, NEW copy \in Copies(d)
  PROVE  copy \subseteq Datagram
  <1>1. [d EXCEPT !.stale = TRUE] \in Datagram
    BY Zenon DEF Datagram
  <1> QED
    BY Zenon, <1>1 DEF Copies

\* The history of missed news is a truth value per client.
LEMMA UnsureType ==
  ASSUME NEW S, Unsure(S)
  PROVE  unsure' \in [Clients -> BOOLEAN]
  BY DEF Unsure

\* The addresses of members are addresses.
LEMMA AddressesType ==
  ASSUME TypeOK, NEW S \in SUBSET Members
  PROVE  AddressesOf(S) \subseteq Vips
  BY DEF TypeOK, AddressesOf, Members

\* The memory of the clients
ClientTypes ==
  /\ state \in [Clients -> {"down", "register", "up"}]
  /\ virtIp \in [Clients -> Vips \cup {None}]
  /\ attempt \in [Clients -> 0 .. RegisterRetries - 1]
  /\ silence \in [Clients -> 0 .. ServerTicks + 1]
  /\ view \in [Clients -> SUBSET Vips]
  /\ deaf \in [Clients -> BOOLEAN]

\* The table, with the numbers it has seen
ServerTypes ==
  /\ peers \in [Clients -> Vips \cup {None}]
  /\ quiet \in [Clients -> 0 .. PeerTicks + 1]
  /\ leaves \subseteq [to : Clients, vip : Vips]
  /\ low \in [Clients -> BOOLEAN]

\* The memory of a process that ends has the values of none.
LEMMA ForgetType ==
  ASSUME TypeOK, NEW S, Forget(S)
  PROVE  /\ state' \in [Clients -> {"down", "register", "up"}]
         /\ virtIp' \in [Clients -> Vips \cup {None}]
         /\ attempt' \in [Clients -> 0 .. RegisterRetries - 1]
         /\ view' \in [Clients -> SUBSET Vips]
         /\ deaf' \in [Clients -> BOOLEAN]
  BY TunDAssumption DEF TypeOK, Forget

\* ... and so has the memory of a single one.
LEMMA EndType ==
  ASSUME TypeOK, NEW c \in Clients, End(c)
  PROVE  ClientTypes'
  BY ForgetType, TunDAssumption DEF TypeOK, End, ClientTypes

\* client_register goes on to its next turn, or gives up.
LEMMA NextTurnType ==
  ASSUME TypeOK, NEW c \in Clients, NEW N \in SUBSET Datagram, NextTurn(c, N)
  PROVE  ClientTypes' /\ net' \subseteq Datagram
  <1>1. CASE End(c) /\ net' = N
    BY <1>1, EndType
  <1>2. CASE /\ attempt[c] + 1 < RegisterRetries
             /\ attempt' = [attempt EXCEPT ![c] = @ + 1]
             /\ net' = N \cup Travels({Message(c, Hub, "REGISTER", {})})
             /\ UNCHANGED <<state, virtIp, silence, view, deaf>>
    <2>1. Message(c, Hub, "REGISTER", {}) \in Datagram
      BY MessageType DEF Types
    <2>2. net' \subseteq Datagram
      BY <1>2, <2>1 DEF Travels
    <2>3. ClientTypes'
      BY <1>2, TunDAssumption DEF TypeOK, ClientTypes
    <2> QED
      BY <2>2, <2>3
  <1> QED
    BY <1>1, <1>2 DEF NextTurn

\* What is in flight after a send are datagrams.
LEMMA SendsType ==
  ASSUME TypeOK, NEW M \in SUBSET Datagram, NEW N \in SUBSET Datagram, Sends(M, N)
  PROVE  net' \subseteq Datagram /\ unsure' \in [Clients -> BOOLEAN]
  <1>1. unsure' \in [Clients -> BOOLEAN]
    BY UnsureType DEF Sends
  <1> QED
    BY <1>1 DEF Sends, Travels

\* The PEER_LEAVEs that are to be sent name clients and addresses.
LEMMA PartingType ==
  ASSUME TypeOK, NEW S \in SUBSET Members
  PROVE  Parting(S) \subseteq [to : Clients, vip : Vips]
  <1> SUFFICES ASSUME NEW c \in Members \ S, NEW x \in S
               PROVE  [to |-> c, vip |-> peers[x]] \in [to : Clients, vip : Vips]
    BY DEF Parting
  <1>1. c \in Clients /\ peers[x] \in Vips
    BY DEF Members, TypeOK
  <1> QED
    BY <1>1

\* A PEER_LEAVE that the server sends is a datagram.
LEMMA FarewellType ==
  ASSUME TypeOK, NEW l \in [to : Clients, vip : Vips]
  PROVE  Farewell(l) \in Datagram
  <1>1. l.to \in Clients /\ {l.vip} \in SUBSET Vips
    OBVIOUS
  <1> QED
    BY <1>1, MessageType DEF Types, News, Farewell

\* Farewells are datagrams of the server.
LEMMA FarewellsType ==
  ASSUME TypeOK, NEW S \in SUBSET Members
  PROVE  Farewells(S) \subseteq Datagram
  BY PartingType, FarewellType DEF Farewells

\* The handlers of the server keep the types.
LEMMA ServerHandlesType ==
  ASSUME TypeOK, NEW d \in net, NEW copy \in Copies(d), ServerHandles(d, copy)
  PROVE  ServerTypes' /\ net' \subseteq Datagram /\ unsure' \in [Clients -> BOOLEAN]
  <1>1. d \in Datagram /\ net \subseteq Datagram /\ copy \subseteq Datagram
    BY CopiesType DEF TypeOK
  <1>0. d.from \in Clients
    BY <1>1, TunDAssumption DEF ServerHandles, Datagram
  <1> DEFINE N == (net \ {d}) \cup copy
  <1>2. N \in SUBSET Datagram
    BY <1>1
  <1> HIDE DEF N
  <1>3. CASE RegisterKnown(d, copy)
    <2>1. d.from \in Clients /\ {peers[d.from]} \in SUBSET Vips
      BY <1>3 DEF RegisterKnown, Members, TypeOK
    <2>2. Message(Hub, d.from, "ASSIGN", {peers[d.from]}) \in Datagram
      BY Zenon, <2>1, MessageType DEF Types
    <2>3. net' \subseteq Datagram /\ unsure' \in [Clients -> BOOLEAN]
      BY ZenonT(60), <1>2, <1>3, <2>2, SendsType DEF RegisterKnown, N
    <2>4. ServerTypes'
      BY <1>3, <2>1, TunDAssumption DEF RegisterKnown, TypeOK, ServerTypes
    <2> QED
      BY <2>3, <2>4
  <1>4. CASE RegisterNew(d, copy)
    <2> DEFINE W == NewWindow(d.from, Hub, net \ {d}) \cup copy
    <2>1. PICK v \in Vips :
            /\ peers' = [peers EXCEPT ![d.from] = v]
            /\ Sends({Message(Hub, d.from, "ASSIGN", {v}),
                      Message(Hub, d.from, "PEER_LIST", AddressesOf(Members))}
                       \cup {Message(Hub, c, "PEER_JOIN", {v}) : c \in Members}, W)
      BY Zenon, <1>4 DEF RegisterNew
    <2>2. W \in SUBSET Datagram
      BY <1>1, NewWindowType
    <2> HIDE DEF W
    <2> DEFINE J == {Message(Hub, c, "PEER_JOIN", {v}) : c \in Members}
    <2>3. ServerTypes' /\ net' \subseteq Datagram /\ unsure' \in [Clients -> BOOLEAN]
      <3>1. Message(Hub, d.from, "ASSIGN", {v}) \in Datagram
        BY Zenon, <1>0, MessageType DEF Types
      <3>2. Message(Hub, d.from, "PEER_LIST", AddressesOf(Members)) \in Datagram
        BY <1>0, AddressesType, MessageType DEF Types, News
      <3>3. J \subseteq Datagram
        <4> SUFFICES ASSUME NEW c \in Members
                     PROVE  Message(Hub, c, "PEER_JOIN", {v}) \in Datagram
          OBVIOUS
        <4> QED
          BY MessageType DEF Types, News, Members
      <3> HIDE DEF J
      <3>4. {Message(Hub, d.from, "ASSIGN", {v}),
             Message(Hub, d.from, "PEER_LIST", AddressesOf(Members))} \cup J \in SUBSET Datagram
        BY <3>1, <3>2, <3>3
      <3>5. net' \subseteq Datagram /\ unsure' \in [Clients -> BOOLEAN]
        BY Zenon, <2>1, <2>2, <3>4, SendsType DEF J
      <3>6. ServerTypes'
        BY <1>0, <1>4, <2>1, TunDAssumption DEF RegisterNew, TypeOK, ServerTypes
      <3> QED
        BY <3>5, <3>6
    <2> QED
      BY <2>3
  <1>5. CASE HandleDisconnect(d, copy)
    <2>1. {d.from} \in SUBSET Members /\ d.from \in Clients
      BY <1>5 DEF HandleDisconnect, Members
    <2>4. Farewells({d.from}) \subseteq Datagram
      BY <2>1, FarewellsType
    <2>5. unsure' \in [Clients -> BOOLEAN]
      BY Zenon, <1>5, UnsureType DEF HandleDisconnect
    <2>2. net' \subseteq Datagram /\ unsure' \in [Clients -> BOOLEAN]
      BY <1>2, <1>5, <2>4, <2>5 DEF HandleDisconnect, Travels, N
    <2>3. ServerTypes'
      BY <1>5, <2>1, TunDAssumption DEF HandleDisconnect, TypeOK, ServerTypes
    <2> QED
      BY <2>2, <2>3
  <1>6. CASE ServerDrops(d, copy)
    <2>1. net' \subseteq Datagram /\ unsure' \in [Clients -> BOOLEAN]
      BY Zenon, <1>2, <1>6, SendsType DEF ServerDrops, N
    <2>2. ServerTypes'
      BY <1>6 DEF ServerDrops, serverVars, TypeOK, ServerTypes
    <2> QED
      BY <2>1, <2>2
  <1> QED
    BY <1>3, <1>4, <1>5, <1>6 DEF ServerHandles

\* The receiving functions of the client keep the types.
LEMMA ClientHandlesType ==
  ASSUME TypeOK, NEW d \in net, NEW copy \in Copies(d), ClientHandles(d, copy)
  PROVE  ClientTypes' /\ net' \subseteq Datagram /\ unsure' \in [Clients -> BOOLEAN]
  <1>1. d \in Datagram /\ net \subseteq Datagram /\ copy \subseteq Datagram
    BY CopiesType DEF TypeOK
  <1>2. d.to \in Clients /\ d.about \in SUBSET Vips
    BY <1>1 DEF ClientHandles, Datagram
  <1> DEFINE N == (net \ {d}) \cup copy
  <1>3. N \in SUBSET Datagram /\ {} \in SUBSET Datagram
    BY <1>1
  <1> HIDE DEF N
  <1>4. CASE HandleAssign(d, copy)
    <2>1. net' \subseteq Datagram /\ unsure' \in [Clients -> BOOLEAN]
      BY Zenon, <1>3, <1>4, SendsType DEF HandleAssign, N
    <2>2. CASE End(d.to)
      BY <1>2, <2>1, <2>2, EndType
    <2>3. CASE /\ state' = [state EXCEPT ![d.to] = "up"]
               /\ \E v \in d.about : virtIp' = [virtIp EXCEPT ![d.to] = v]
               /\ attempt' = [attempt EXCEPT ![d.to] = 0]
               /\ silence' = [silence EXCEPT ![d.to] = 0]
               /\ UNCHANGED <<view, deaf>>
      <3>1. PICK v \in d.about : virtIp' = [virtIp EXCEPT ![d.to] = v]
        BY Zenon, <2>3
      <3> QED
        BY <1>2, <2>1, <2>3, <3>1, TunDAssumption DEF TypeOK, ClientTypes
    <2> QED
      BY <1>4, <2>2, <2>3 DEF HandleAssign
  <1>5. CASE RegisterOther(d, copy)
    BY <1>2, <1>3, <1>5, NextTurnType, UnsureType DEF RegisterOther, N
  <1>6. CASE HandleNews(d, copy)
    <2>1. net' \subseteq Datagram /\ unsure' \in [Clients -> BOOLEAN]
      BY <1>3, <1>6, SendsType DEF HandleNews, N
    <2>2. ClientTypes'
      BY <1>2, <1>6, TunDAssumption DEF HandleNews, TypeOK, ClientTypes
    <2> QED
      BY <2>1, <2>2
  <1>7. CASE HandleStop(d, copy)
    <2>1. Message(d.to, Hub, "DISCONNECT", {}) \in Datagram
      BY Zenon, <1>2, MessageType DEF Types
    <2>2. net' \subseteq Datagram /\ unsure' \in [Clients -> BOOLEAN]
      BY Zenon, <1>3, <1>7, <2>1, SendsType DEF HandleStop, N
    <2> QED
      BY <1>2, <1>7, <2>2, EndType DEF HandleStop
  <1>8. CASE HandleUnknown(d, copy)
    <2>1. net' \subseteq Datagram /\ unsure' \in [Clients -> BOOLEAN]
      BY Zenon, <1>3, <1>8, SendsType DEF HandleUnknown, N
    <2>2. ClientTypes'
      BY <1>2, <1>8, TunDAssumption DEF HandleUnknown, TypeOK, ClientTypes
    <2> QED
      BY <2>1, <2>2
  <1>9. CASE ClientDrops(d, copy)
    <2>1. net' \subseteq Datagram /\ unsure' \in [Clients -> BOOLEAN]
      BY <1>3, <1>9, SendsType DEF ClientDrops, N
    <2> QED
      BY <1>9, <2>1 DEF ClientDrops, clientVars, TypeOK, ClientTypes
  <1> QED
    BY <1>4, <1>5, <1>6, <1>7, <1>8, <1>9 DEF ClientHandles

\* An interval that passes keeps the types: no datagram gets too old, and the
\* ages are cut off beyond their limits.
LEMMA TickType ==
  ASSUME TypeOK, Tick
  PROVE  TypeOK'
  <1>1. PICK evicted \in Overdue(Members, quiet, PeerTicks),
             stopped \in Overdue(Up, silence, ServerTicks) :
          /\ peers' = [c \in Clients |-> IF c \in evicted THEN None ELSE peers[c]]
          /\ low' = [c \in Clients |-> low[c] /\ c \notin evicted]
          /\ quiet' = [c \in Clients |-> IF c \in Members \ (evicted \cup (Heard \ stopped))
                                         THEN Older(quiet[c], PeerTicks) ELSE 0]
          /\ Forget(stopped)
          /\ silence' = [c \in Clients |->
                           IF state[c] = "down" \/ c \in stopped \cup (Hears \ evicted)
                           THEN 0 ELSE Older(silence[c], ServerTicks)]
          /\ leaves' = Parting(evicted)
          /\ net' = {[d EXCEPT !.age = @ + 1] : d \in net}
                      \cup Travels({Message(c, Hub, "DISCONNECT", {}) : c \in stopped})
          /\ Unsure(evicted)
    BY Zenon DEF Tick
  <1>2. evicted \in SUBSET Members /\ stopped \in SUBSET Clients
    BY DEF Overdue, Up
  <1>3. \A c \in Clients : /\ Older(quiet[c], PeerTicks) \in 0 .. PeerTicks + 1
                           /\ Older(silence[c], ServerTicks) \in 0 .. ServerTicks + 1
    BY TunDAssumption DEF TypeOK, Older
  <1>9. leaves' \subseteq [to : Clients, vip : Vips]
    BY <1>1, <1>2, PartingType
  <1>4. ServerTypes'
    BY <1>1, <1>3, <1>9, TunDAssumption DEF TypeOK, ServerTypes
  <1>5. ClientTypes'
    BY <1>1, <1>3, ForgetType, TunDAssumption DEF ClientTypes
  <1>6. {[d EXCEPT !.age = @ + 1] : d \in net} \in SUBSET Datagram
    <2> SUFFICES ASSUME NEW d \in net PROVE [d EXCEPT !.age = @ + 1] \in Datagram
      OBVIOUS
    <2>1. d \in Datagram /\ d.age < Lifetime
      BY DEF TypeOK, Tick
    <2> QED
      BY <2>1, TunDAssumption DEF Datagram
  <1>7. {Message(c, Hub, "DISCONNECT", {}) : c \in stopped} \in SUBSET Datagram
    <2> SUFFICES ASSUME NEW c \in stopped
                 PROVE  Message(c, Hub, "DISCONNECT", {}) \in Datagram
      OBVIOUS
    <2> QED
      BY Zenon, <1>2, MessageType DEF Types
  <1>8. net' \subseteq Datagram /\ unsure' \in [Clients -> BOOLEAN]
    BY <1>1, <1>6, <1>7, UnsureType DEF Travels
  <1> QED
    BY ZenonT(60), <1>4, <1>5, <1>8 DEF Tick, TypeOK, ServerTypes, ClientTypes

\* Starts, timeouts, departures, crashes and broken links keep the types.
LEMMA ProcessType ==
  ASSUME TypeOK, NEW c \in Clients,
         \/ Start(c) \/ RegisterTimeout(c) \/ Quit(c) \/ Crash(c) \/ Cut(c) \/ Heal(c)
  PROVE  TypeOK'
  <1>0. net \in SUBSET Datagram /\ {} \in SUBSET Datagram
    BY DEF TypeOK
  <1>1. CASE Start(c)
    <2>1. PICK below \in BOOLEAN :
            /\ low' = [low EXCEPT ![c] = below]
            /\ net' = NewWindow(Hub, c, net)
                 \cup Travels({[Message(c, Hub, "REGISTER", {}) EXCEPT !.stale = below]})
      BY Zenon, <1>1 DEF Start
    <2>2. Message(c, Hub, "REGISTER", {}) \in Datagram
      BY MessageType DEF Types
    <2>3. [Message(c, Hub, "REGISTER", {}) EXCEPT !.stale = below] \in Datagram
      BY <2>2 DEF Datagram
    <2>4. NewWindow(Hub, c, net) \subseteq Datagram
      BY <1>0, NewWindowType
    <2>5. net' \subseteq Datagram
      BY <2>1, <2>3, <2>4 DEF Travels
    <2>6. ServerTypes' /\ ClientTypes' /\ cut' \subseteq Clients
      BY <1>1, <2>1, TunDAssumption DEF Start, TypeOK, ServerTypes, ClientTypes, serverVars
    <2>7. unsure' \in [Clients -> BOOLEAN]
      BY Zenon, <1>1 DEF Start, TypeOK
    <2> QED
      BY <2>5, <2>6, <2>7 DEF TypeOK, ServerTypes, ClientTypes
  <1>2. CASE RegisterTimeout(c)
    <2>1. ClientTypes' /\ net' \subseteq Datagram
      BY <1>0, <1>2, NextTurnType DEF RegisterTimeout
    <2>2. unsure' \in [Clients -> BOOLEAN]
      BY Zenon, <1>2, UnsureType DEF RegisterTimeout
    <2> QED
      BY <1>2, <2>1, <2>2 DEF RegisterTimeout, TypeOK, serverVars, ClientTypes
  <1>3. CASE Quit(c)
    <2>1. Message(c, Hub, "DISCONNECT", {}) \in Datagram
      BY Zenon, MessageType DEF Types
    <2>2. net' \subseteq Datagram /\ unsure' \in [Clients -> BOOLEAN]
      BY Zenon, <1>0, <1>3, <2>1, SendsType DEF Quit
    <2>3. ClientTypes'
      BY <1>3, EndType DEF Quit
    <2> QED
      BY <1>3, <2>2, <2>3 DEF Quit, TypeOK, serverVars, ClientTypes
  <1>4. CASE Crash(c)
    <2>1. unsure' \in [Clients -> BOOLEAN]
      BY <1>4, UnsureType DEF Crash
    <2>2. ClientTypes'
      BY Zenon, <1>4, EndType DEF Crash
    <2> QED
      BY <1>4, <2>1, <2>2 DEF Crash, TypeOK, serverVars, ClientTypes
  <1>5. CASE Cut(c)
    BY SMTT(60), <1>5 DEF Cut, TypeOK, serverVars, clientVars
  <1>6. CASE Heal(c)
    BY Zenon, <1>6 DEF Heal, TypeOK, serverVars, clientVars
  <1> QED
    BY <1>1, <1>2, <1>3, <1>4, <1>5, <1>6

\* What the timeout thread sends keeps the types.
LEMMA SendLeaveType ==
  ASSUME TypeOK, NEW l \in leaves, SendLeave(l)
  PROVE  TypeOK'
  <1>1. l \in [to : Clients, vip : Vips]
    BY Zenon DEF TypeOK
  <1>2. Farewell(l) \in Datagram
    BY <1>1, FarewellType
  <1>3. net' \subseteq Datagram
    BY <1>2 DEF SendLeave, Travels, TypeOK
  <1>4. unsure' \in [Clients -> BOOLEAN]
    BY Zenon, UnsureType DEF SendLeave
  <1> QED
    BY ZenonT(60), <1>3, <1>4 DEF SendLeave, TypeOK, clientVars

\* A restart of the server keeps the types.
LEMMA RestartType ==
  ASSUME TypeOK, ServerRestart
  PROVE  TypeOK'
  <1>0. net \in SUBSET Datagram
    BY DEF TypeOK
  <1>1. \A x \in Members : Message(Hub, x, "DISCONNECT", {}) \in Datagram
    <2> TAKE x \in Members
    <2>1. x \in Clients
      BY DEF Members
    <2> QED
      BY <2>1, MessageType DEF Types
  <1>2. \A l \in leaves : Farewell(l) \in Datagram
    BY FarewellType DEF TypeOK
  <1>3. net' \subseteq Datagram
    BY SMTT(60), <1>0, <1>1, <1>2 DEF ServerRestart, Travels
  <1>4. unsure' \in [Clients -> BOOLEAN]
    BY SMTT(60), UnsureType DEF ServerRestart
  <1>5. deaf' \in [Clients -> BOOLEAN]
    BY SMTT(60) DEF ServerRestart
  <1>6. ServerTypes'
    BY TunDAssumption DEF ServerRestart, ServerTypes
  <1> QED
    BY <1>3, <1>4, <1>5, <1>6 DEF ServerRestart, TypeOK, ServerTypes

\* Initially nothing runs but the server.
LEMMA TypesInit == Init => TypeOK /\ StartTypes
  <1> SUFFICES ASSUME Init PROVE TypeOK /\ StartTypes
    OBVIOUS
  <1> QED
    BY TunDAssumption DEF Init, TypeOK, StartTypes

\* Every step keeps the types.
LEMMA TypesStep ==
  ASSUME TypeOK, StartTypes, [Next]_vars
  PROVE  TypeOK' /\ StartTypes'
  <1>1. ASSUME NEW d \in net, Deliver(d) PROVE TypeOK' /\ StartTypes'
    <2>1. PICK copy \in Copies(d) : ServerHandles(d, copy) \/ ClientHandles(d, copy)
      BY <1>1 DEF Deliver
    <2>2. cut' = cut /\ starts' = starts
      BY Zenon, <1>1 DEF Deliver
    <2>3. CASE ServerHandles(d, copy)
      <3>1. ServerTypes' /\ net' \subseteq Datagram /\ unsure' \in [Clients -> BOOLEAN]
        BY Zenon, <2>3, ServerHandlesType
      <3> QED
        BY <2>2, <2>3, <3>1 DEF ServerHandles, clientVars, TypeOK, StartTypes, ServerTypes
    <2>4. CASE ClientHandles(d, copy)
      <3>1. ClientTypes' /\ net' \subseteq Datagram /\ unsure' \in [Clients -> BOOLEAN]
        BY <2>4, ClientHandlesType
      <3> QED
        BY <2>2, <2>4, <3>1 DEF ClientHandles, serverVars, TypeOK, StartTypes, ClientTypes
    <2> QED
      BY <2>1, <2>3, <2>4
  <1>2. ASSUME NEW c \in Clients,
               \/ Start(c) \/ RegisterTimeout(c) \/ Quit(c) \/ Crash(c)
               \/ Cut(c) \/ Heal(c)
        PROVE  TypeOK' /\ StartTypes'
    <2>1. TypeOK'
      BY <1>2, ProcessType
    <2>2. StartTypes'
      BY <1>2, TunDAssumption DEF StartTypes, Start, RegisterTimeout, Quit, Crash, Cut, Heal
    <2> QED
      BY <2>1, <2>2
  <1>3. CASE Tick
    BY Zenon, <1>3, TickType DEF Tick, StartTypes
  <1>6. ASSUME NEW l \in leaves, SendLeave(l) PROVE TypeOK' /\ StartTypes'
    BY Zenon, <1>6, SendLeaveType DEF SendLeave, StartTypes
  <1>4. CASE ServerRestart
    <2>1. TypeOK' /\ starts' = [starts EXCEPT ![Hub] = @ + 1]
      BY Zenon, <1>4, RestartType DEF ServerRestart
    <2> QED
      BY <2>1, TunDAssumption DEF StartTypes
  <1>5. CASE UNCHANGED vars
    BY <1>5 DEF vars, serverVars, clientVars, TypeOK, StartTypes
  <1> QED
    BY <1>1, <1>2, <1>3, <1>4, <1>5, <1>6, TunDAssumption DEF Next, Step

\* No handler, timeout, fault or restart takes the table, the clients or what
\* is in flight out of their types: no datagram outlives Lifetime, and no
\* client asks more than RegisterRetries times.
THEOREM CompositionTypes == Spec => []TypeOK
  <1>1. TypeOK /\ StartTypes /\ [Next]_vars => TypeOK' /\ StartTypes'
    BY Zenon, TypesStep
  <1> QED
    BY <1>1, TypesInit, PTL DEF Spec
-----------------------------------------------------------------------------
(* Addresses: the invariant. *)

\* What c has sent, and the ASSIGNs on their way to it
Asks(c) == {d \in net : d.from = c}
Answers(c) == {d \in net : d.to = c /\ d.type = "ASSIGN"}

\* Nothing has been started at c.
Fresh(c) ==
  /\ state[c] = "down" /\ c \notin Members
  /\ Asks(c) = {} /\ Answers(c) = {}

\* A process that registers is not evicted before it is done: its entry is
\* younger than the process, and all answers name the address of that entry.
Registering(c) ==
  /\ \A d \in Asks(c) : d.type = "REGISTER"
  /\ c \notin Members => Answers(c) = {}
  /\ c \in Members =>
       /\ quiet[c] <= silence[c]
       /\ \A d \in Answers(c) : d.about = {peers[c]} /\ quiet[c] <= d.age

\* A process that is up has the address of its entry.  A REGISTER that is still
\* on its way arrives before the entry can be evicted, so that it finds it.
Settled(c) ==
  /\ \A d \in Asks(c) :
       d.type = "REGISTER" /\ c \in Members /\ quiet[c] <= Lifetime + d.age
  /\ c \in Members => peers[c] = virtIp[c]

\* The first process at c
First(c) ==
  /\ starts[c] = 0 => Fresh(c)
  /\ starts[c] = 1 /\ state[c] = "register" => Registering(c)
  /\ starts[c] = 1 /\ state[c] = "up" => Settled(c)

IInv ==
  /\ TypeOK /\ StartTypes
  /\ starts[Hub] = 1 => \A c \in Clients : First(c)
-----------------------------------------------------------------------------
(* Addresses. *)

\* The datagrams that First(c) speaks of
Concerns(m, c) == m.from = c \/ (m.to = c /\ m.type = "ASSIGN")

Alike(m, n) ==
  n.from = m.from /\ n.to = m.to /\ n.type = m.type /\ n.about = m.about /\ n.age = m.age

\* A step adds no datagram that concerns c, but for copies.
Carried(c) == \A m \in net' : Concerns(m, c) => \E n \in net : Alike(m, n)

\* A step leaves alone what is known at c and of c.
Same(c) ==
  /\ starts'[c] = starts[c] /\ state'[c] = state[c]
  /\ peers'[c] = peers[c] /\ virtIp'[c] = virtIp[c] /\ quiet'[c] = quiet[c]
  /\ state[c] = "register" => silence'[c] = silence[c]

\* A copy differs from what it is a copy of in nothing that matters here.
LEMMA CopyAlike ==
  ASSUME NEW d \in Datagram, NEW copy \in Copies(d), NEW m \in copy
  PROVE  Alike(m, d)
  <1>1. m = [d EXCEPT !.stale = TRUE]
    BY DEF Copies
  <1> QED
    BY <1>1 DEF Alike, Datagram

\* ... and neither does a datagram that a new window will accept.
LEMMA NewWindowAlike ==
  ASSUME NEW from, NEW to, NEW N \in SUBSET Datagram, NEW m \in NewWindow(from, to, N)
  PROVE  \E n \in N : Alike(m, n)
  <1>1. PICK n \in N : m = IF n.from = from /\ n.to = to THEN [n EXCEPT !.stale = FALSE] ELSE n
    BY DEF NewWindow
  <1>2. n \in Datagram
    OBVIOUS
  <1>3. Alike(m, n)
    BY Zenon, <1>1, <1>2 DEF Alike, Datagram
  <1> QED
    BY <1>3

\* A step that changes nothing at c, and sends nothing that concerns it, keeps
\* what is known of the first process at c.
LEMMA KeepsFirst ==
  ASSUME NEW c \in Clients, First(c), Same(c), Carried(c)
  PROVE  First(c)'
  <1>1. (c \in Members)' <=> c \in Members
    BY DEF Members, Same
  <1>2. \A m \in Asks(c)' : \E n \in Asks(c) : Alike(m, n)
    BY SMTT(60) DEF Asks, Carried, Concerns, Alike
  <1>3. \A m \in Answers(c)' : \E n \in Answers(c) : Alike(m, n)
    BY SMTT(60) DEF Answers, Carried, Concerns, Alike
  <1>4. Fresh(c) /\ starts[c] = 0 => Fresh(c)'
    BY ZenonT(60), <1>1, <1>2, <1>3 DEF Fresh, Same
  <1>5. Registering(c) /\ state[c] = "register" => Registering(c)'
    BY SMTT(60), <1>1, <1>2, <1>3 DEF Registering, Same, Alike
  <1>6. Settled(c) => Settled(c)'
    BY Zenon, <1>1, <1>2 DEF Settled, Same, Alike
  <1> QED
    BY Zenon, <1>4, <1>5, <1>6 DEF First, Same

\* A process that ends leaves nothing to be kept.
LEMMA EndsFirst ==
  ASSUME NEW c \in Clients, First(c), state[c] # "down", starts'[c] = starts[c],
         state'[c] = "down"
  PROVE  First(c)'
  BY Zenon DEF First, Fresh

\* REGISTER from a known endpoint: the answer names the address of the entry,
\* which is now as young as can be.
LEMMA RegisterKnownFirst ==
  ASSUME TypeOK, TypeOK', NEW d \in net, NEW copy \in Copies(d), NEW c \in Clients, First(c),
         ServerHandles(d, copy), RegisterKnown(d, copy), starts' = starts
  PROVE  First(c)'
  <1> DEFINE a == Message(Hub, d.from, "ASSIGN", {peers[d.from]})
  <1>1. d \in Datagram /\ d.from \in Clients /\ Hub \notin Clients
    BY Zenon, TunDAssumption DEF TypeOK, ServerHandles, Datagram
  <1>2. a.from = Hub /\ a.to = d.from /\ a.type = "ASSIGN" /\ a.about = {peers[d.from]} /\ a.age = 0
    BY Zenon DEF Message
  <1>3. \A m \in net' : m = a \/ \E n \in net : Alike(m, n)
    <2> TAKE m \in net'
    <2>1. m \in (net \ {d}) \cup copy \cup {a}
      BY Zenon  DEF RegisterKnown, Sends, Travels
    <2> QED
      BY SMTT(60), <1>1, <2>1, CopyAlike DEF Alike
  <1> HIDE DEF a
  <1>4. UNCHANGED <<state, peers, virtIp, silence>>
    BY DEF ServerHandles, clientVars, RegisterKnown
  <1>5. CASE c # d.from
    <2>1. Same(c)
      BY Zenon, <1>4, <1>5, <1>1 DEF Same, RegisterKnown, TypeOK
    <2>2. Carried(c)
      BY Zenon, <1>1, <1>2, <1>3, <1>5 DEF Carried, Concerns
    <2> QED
      BY Zenon, <2>1, <2>2, KeepsFirst
  <1>6. CASE c = d.from
    <2>1. quiet'[c] = 0 /\ c \in Members /\ (c \in Members)'
      BY Zenon, <1>1, <1>4, <1>6 DEF RegisterKnown, TypeOK, Members
    <2>2. \A m \in Asks(c)' : \E n \in Asks(c) : Alike(m, n)
      BY ZenonT(60), <1>1, <1>2, <1>3 DEF Asks, Alike
    <2>3. \A m \in Answers(c)' : m = a \/ \E n \in Answers(c) : Alike(m, n)
      <3> TAKE m \in Answers(c)'
      <3>1. m \in net' /\ m.to = c /\ m.type = "ASSIGN"
        BY Zenon DEF Answers
      <3>2. ASSUME NEW n \in net, Alike(m, n) PROVE n \in Answers(c)
        BY ZenonT(60), <3>1, <3>2 DEF Answers, Alike
      <3> QED
        BY Zenon, <1>3, <3>1, <3>2
    <2>4. \A m \in net' : m.age \in Nat
      BY Zenon, AgesNext
    <2>5. silence'[c] \in Nat /\ Lifetime \in Nat
      BY SMTT(60), TunDAssumption DEF TypeOK
    <2>6. ASSUME Registering(c) PROVE Registering(c)'
      <3>1. \A m \in Asks(c)' : m.type = "REGISTER"
        <4> TAKE m \in Asks(c)'
        <4>1. PICK n \in Asks(c) : Alike(m, n)
          BY Zenon, <2>2
        <4>2. n.type = "REGISTER"
          BY Zenon, <2>6 DEF Registering
        <4> QED
          BY Zenon, <4>1, <4>2 DEF Alike
      <3>2. \A m \in Answers(c)' : m.about = {peers'[c]}
        <4> TAKE m \in Answers(c)'
        <4>1. peers'[c] = peers[c]
          BY Zenon, <1>4
        <4>2. CASE m = a
          BY Zenon, <1>2, <1>6, <4>1, <4>2
        <4>3. ASSUME NEW n \in Answers(c), Alike(m, n) PROVE m.about = {peers'[c]}
          <5>1. n.about = {peers[c]}
            BY Zenon, <2>1, <2>6 DEF Registering
          <5> QED
            BY Zenon, <4>1, <4>3, <5>1 DEF Alike
        <4> QED
          BY Zenon, <2>3, <4>2, <4>3
      <3>3. \A m \in Answers(c)' : m.age \in Nat
        BY Zenon, <2>4 DEF Answers
      <3>4. \A n \in Nat : 0 <= n
        OBVIOUS
      <3> QED
        BY Zenon, <2>1, <2>5, <3>1, <3>2, <3>3, <3>4 DEF Registering
    <2>7. Settled(c) => Settled(c)'
      BY SMTT(60), <1>4, <2>1, <2>2, <2>4, <2>5 DEF Settled, Alike, Asks
    <2>8. starts[c] # 0
      BY <1>6 DEF First, Fresh, Asks
    <2> QED
      BY Zenon, <1>4, <2>6, <2>7, <2>8 DEF First
  <1> QED
    BY Zenon, <1>5, <1>6

\* REGISTER from an unknown endpoint: it can only come from a process that is
\* still registering, which has had no answer so far.
LEMMA RegisterNewFirst ==
  ASSUME TypeOK, TypeOK', NEW d \in net, NEW copy \in Copies(d), NEW c \in Clients, First(c),
         ServerHandles(d, copy), RegisterNew(d, copy), starts' = starts
  PROVE  First(c)'
  <1>1. d \in Datagram /\ d.from \in Clients /\ Hub \notin Clients /\ net \ {d} \in SUBSET Datagram
    BY SMTT(60), TunDAssumption DEF TypeOK, ServerHandles, Datagram
  <1>2. PICK v \in Vips :
          /\ peers' = [peers EXCEPT ![d.from] = v]
          /\ Sends({Message(Hub, d.from, "ASSIGN", {v}),
                    Message(Hub, d.from, "PEER_LIST", AddressesOf(Members))}
                     \cup {Message(Hub, x, "PEER_JOIN", {v}) : x \in Members},
                   NewWindow(d.from, Hub, net \ {d}) \cup copy)
    BY Zenon DEF RegisterNew
  <1> DEFINE a == Message(Hub, d.from, "ASSIGN", {v})
  <1>3. a.from = Hub /\ a.to = d.from /\ a.type = "ASSIGN" /\ a.about = {v} /\ a.age = 0
    BY Zenon DEF Message
  <1>4. \A m \in net' : \/ m = a
                        \/ m.from = Hub /\ m.type # "ASSIGN"
                        \/ \E n \in net : Alike(m, n)
    <2> TAKE m \in net'
    <2>1. \/ m = a
          \/ m = Message(Hub, d.from, "PEER_LIST", AddressesOf(Members))
          \/ \E x \in Members : m = Message(Hub, x, "PEER_JOIN", {v})
          \/ m \in NewWindow(d.from, Hub, net \ {d})
          \/ m \in copy
      BY Zenon, <1>2 DEF Sends, Travels
    <2>2. CASE m = Message(Hub, d.from, "PEER_LIST", AddressesOf(Members))
      BY Zenon, <2>2 DEF Message
    <2>3. CASE \E x \in Members : m = Message(Hub, x, "PEER_JOIN", {v})
      BY <2>3, MessageFields
    <2>4. CASE m \in NewWindow(d.from, Hub, net \ {d})
      BY Zenon, <1>1, <2>4, NewWindowAlike
    <2>5. CASE m \in copy
      BY <1>1, <2>5, CopyAlike
    <2> QED
      BY <2>1, <2>2, <2>3, <2>4, <2>5
  <1> HIDE DEF a
  <1>5. UNCHANGED <<state, virtIp, silence>>
    BY DEF ServerHandles, clientVars
  <1>6. CASE c # d.from
    <2>1. Same(c)
      BY ZenonT(60), <1>1, <1>2, <1>5, <1>6 DEF Same, RegisterNew, TypeOK
    <2>2. Carried(c)
      BY SMTT(60), <1>1, <1>3, <1>4, <1>6 DEF Carried, Concerns
    <2> QED
      BY Zenon, <2>1, <2>2, KeepsFirst
  <1>7. CASE c = d.from
    <2>1. quiet'[c] = 0 /\ c \notin Members /\ d \in Asks(c)
      BY ZenonT(60), <1>1, <1>7 DEF RegisterNew, TypeOK, Asks
    <2>2. (c \in Members)' /\ peers'[c] = v
      BY SMTT(60), <1>2, <1>7, TunDAssumption DEF TypeOK, Members
    <2>3. starts[c] # 0 /\ ~Settled(c)
      BY ZenonT(60), <2>1 DEF First, Fresh, Settled
    <2>4. \A m \in Asks(c)' : \E n \in Asks(c) : Alike(m, n)
      BY ZenonT(60), <1>1, <1>3, <1>4 DEF Asks, Alike
    <2>5. \A m \in Answers(c)' : m = a \/ \E n \in Answers(c) : Alike(m, n)
      BY <1>4 DEF Answers, Alike
    <2>6. silence'[c] \in Nat
      BY TunDAssumption DEF TypeOK
    <2>7. ASSUME Registering(c) PROVE Registering(c)'
      <3>0. \A n \in Asks(c) : n.type = "REGISTER"
        BY ZenonT(60), <2>7 DEF Registering
      <3>1. \A m \in Asks(c)' : m.type = "REGISTER"
        BY <2>4, <3>0 DEF Alike
      <3>2. \A m \in Answers(c)' : m = a
        BY ZenonT(60), <2>1, <2>5, <2>7 DEF Registering
      <3>3. \A m \in Answers(c)' : m.about = {v} /\ quiet'[c] <= m.age
        BY <1>3, <2>1, <3>2
      <3>4. quiet'[c] <= silence'[c]
        BY <2>1, <2>6
      <3> QED
        BY Zenon, <2>2, <3>1, <3>3, <3>4 DEF Registering
    <2> QED
      BY ZenonT(60), <1>5, <2>3, <2>7 DEF First
  <1> QED
    BY Zenon, <1>6, <1>7

\* PEER_LEAVE does not concern the addresses of those who get it.
LEMMA FarewellSays ==
  ASSUME NEW l
  PROVE  LET m == Farewell(l) IN
         m.from = Hub /\ m.to = l.to /\ m.type = "PEER_LEAVE" /\ m.about = {l.vip} /\ m.age = 0
  BY Zenon DEF Farewell, Message

\* They all are PEER_LEAVE messages.
LEMMA FarewellsSay ==
  ASSUME NEW S, NEW m \in Farewells(S)
  PROVE  m.from = Hub /\ m.type = "PEER_LEAVE"
  BY Zenon, FarewellSays DEF Farewells

\* DISCONNECT: the process that sent it has ended.
LEMMA DisconnectFirst ==
  ASSUME TypeOK, NEW d \in net, NEW copy \in Copies(d), NEW c \in Clients, First(c),
         ServerHandles(d, copy), HandleDisconnect(d, copy), starts' = starts
  PROVE  First(c)'
  <1>1. d \in Datagram /\ d.from \in Clients /\ Hub \notin Clients
    BY TunDAssumption DEF TypeOK, ServerHandles, Datagram
  <1>2. UNCHANGED <<state, virtIp, silence>>
    BY DEF ServerHandles, clientVars
  <1>3. CASE c # d.from
    <2>1. Same(c)
      BY Zenon, <1>1, <1>2, <1>3 DEF Same, HandleDisconnect, TypeOK
    <2>2. Carried(c)
      <3> SUFFICES ASSUME NEW m \in net', Concerns(m, c) PROVE \E n \in net : Alike(m, n)
        BY Zenon DEF Carried
      <3>1. m \in net \/ m \in copy \/ m \in Farewells({d.from})
        BY Zenon  DEF HandleDisconnect, Travels
      <3>2. m \notin Farewells({d.from})
        BY Zenon, <1>1, FarewellsSay DEF Concerns
      <3> QED
        BY <1>1, <3>1, <3>2, CopyAlike DEF Alike
    <2> QED
      BY Zenon, <2>1, <2>2, KeepsFirst
  <1>4. CASE c = d.from
    <2>1. d \in Asks(c) /\ d.type # "REGISTER"
      BY Zenon, <1>4 DEF Asks, HandleDisconnect
    <2>2. starts[c] # 0 /\ ~Registering(c) /\ ~Settled(c)
      <3>1. Asks(c) # {} /\ ~(\A n \in Asks(c) : n.type = "REGISTER")
        BY Zenon, <2>1
      <3>2. ~Fresh(c) /\ ~Registering(c) /\ ~Settled(c)
        BY Zenon, <3>1 DEF Fresh, Registering, Settled
      <3> QED
        BY Zenon, <3>2 DEF First
    <2> QED
      BY Zenon, <1>2, <2>2 DEF First
  <1> QED
    BY Zenon, <1>3, <1>4

\* A step that delivers d and sends nothing that concerns c carries the rest.
LEMMA CarriedBySends ==
  ASSUME TypeOK, NEW d \in net, NEW copy \in Copies(d), NEW c \in Clients,
         \A m \in net' : m \in net \/ m \in copy \/ ~Concerns(m, c)
  PROVE  Carried(c)
  <1> SUFFICES ASSUME NEW m \in net', Concerns(m, c) PROVE \E n \in net : Alike(m, n)
    BY SMTT(60) DEF Carried
  <1>1. d \in Datagram
    BY DEF TypeOK
  <1>2. m \in net \/ m \in copy
    OBVIOUS
  <1> QED
    BY <1>1, <1>2, CopyAlike DEF Alike

\* The handlers of the server
LEMMA ServerHandlesFirst ==
  ASSUME TypeOK, TypeOK', NEW d \in net, NEW copy \in Copies(d), NEW c \in Clients, First(c),
         ServerHandles(d, copy), starts' = starts
  PROVE  First(c)'
  <1>1. CASE RegisterKnown(d, copy)
    BY SMTT(60), <1>1, RegisterKnownFirst
  <1>2. CASE RegisterNew(d, copy)
    BY <1>2, RegisterNewFirst
  <1>3. CASE HandleDisconnect(d, copy)
    BY SMTT(60), <1>3, DisconnectFirst
  <1>4. CASE ServerDrops(d, copy)
    <2>1. \A m \in net' : m \in net \/ m \in copy
      BY <1>4 DEF ServerDrops, Sends, Travels
    <2>2. Carried(c)
      BY ZenonT(60), <2>1, CarriedBySends
    <2>3. Same(c)
      BY SMTT(60), <1>4 DEF Same, ServerDrops, ServerHandles, serverVars, clientVars
    <2> QED
      BY Zenon, <2>2, <2>3, KeepsFirst
  <1> QED
    BY <1>1, <1>2, <1>3, <1>4 DEF ServerHandles

\* What the turns of a registration at x change, seen from c
LEMMA NextTurnFirst ==
  ASSUME TypeOK, NEW x \in Clients, NEW c \in Clients, First(c), NEW N, NextTurn(x, N),
         state[x] = "register", UNCHANGED <<starts, peers, quiet>>,
         \A m \in N : Concerns(m, c) => \E n \in net : Alike(m, n)
  PROVE  First(c)'
  <1> DEFINE r == Message(x, Hub, "REGISTER", {})
  <1>0. Hub \notin Clients
    BY Zenon, TunDAssumption
  <1>1. r.from = x /\ r.to = Hub /\ r.type = "REGISTER"
    BY Zenon DEF Message
  <1> HIDE DEF r
  <1>2. CASE End(x) /\ net' = N
    <2>1. CASE c = x
      <3>1. state'[c] = "down"
        BY Zenon, <1>2, <2>1 DEF End, Forget
      <3> QED
        BY SMTT(60), <2>1, <3>1, EndsFirst
    <2>2. CASE c # x
      <3>1. Same(c)
        BY <1>2, <2>2 DEF End, Forget, Same, TypeOK
      <3>2. Carried(c)
        BY <1>2 DEF Carried
      <3> QED
        BY Zenon, <3>1, <3>2, KeepsFirst
    <2> QED
      BY ZenonT(60), <2>1, <2>2
  <1>3. CASE net' = N \cup Travels({r}) /\ UNCHANGED <<state, virtIp, silence>>
    <2>0. Same(c)
      BY ZenonT(60), <1>3 DEF Same
    <2>1. CASE c # x
      <3>1. Carried(c)
        BY Zenon, <1>0, <1>1, <1>3, <2>1 DEF Carried, Concerns, Travels
      <3> QED
        BY <2>0, <3>1, KeepsFirst
    <2>2. CASE c = x
      <3>1. (c \in Members)' <=> c \in Members
        BY Zenon DEF Members
      <3>0. \A m \in net' : m = r \/ m \in N
        BY Zenon, <1>3 DEF Travels
      <3>2. \A m \in Asks(c)' : m.type = "REGISTER" \/ \E n \in Asks(c) : Alike(m, n)
        <4> TAKE m \in Asks(c)'
        <4>1. m \in net' /\ m.from = c
          BY Zenon DEF Asks
        <4>2. CASE m \in N
          <5>1. PICK n \in net : Alike(m, n)
            BY Zenon, <4>1, <4>2 DEF Concerns
          <5> QED
            BY Zenon, <4>1, <5>1 DEF Asks, Alike
        <4> QED
          BY Zenon, <1>1, <3>0, <4>1, <4>2
      <3>3. \A m \in Answers(c)' : \E n \in Answers(c) : Alike(m, n)
        <4> TAKE m \in Answers(c)'
        <4>1. m \in net' /\ m.to = c /\ m.type = "ASSIGN"
          BY Zenon DEF Answers
        <4>2. m \in N
          BY Zenon, <1>1, <3>0, <4>1
        <4>3. PICK n \in net : Alike(m, n)
          BY ZenonT(60), <4>1, <4>2 DEF Concerns
        <4> QED
          BY Zenon, <4>1, <4>3 DEF Answers, Alike
      <3>4. Registering(c) => Registering(c)'
        BY SMTT(60), <1>3, <3>1, <3>2, <3>3 DEF Registering, Alike
      <3>5. starts[c] # 0
        BY ZenonT(60), <2>2 DEF First, Fresh
      <3> QED
        BY Zenon, <1>3, <2>2, <3>4, <3>5 DEF First
    <2> QED
      BY SMTT(60), <2>1, <2>2
  <1> QED
    BY <1>2, <1>3 DEF NextTurn, r

\* ASSIGN: it names the address of the entry, which is not older than the ASSIGN.
LEMMA AssignFirst ==
  ASSUME TypeOK, TypeOK', NEW d \in net, NEW copy \in Copies(d), NEW c \in Clients, First(c),
         d.to \in Clients, HandleAssign(d, copy), UNCHANGED <<starts, peers, quiet>>
  PROVE  First(c)'
  <1>1. \A m \in net' : m \in net \/ m \in copy
    BY Zenon DEF HandleAssign, Sends, Travels
  <1>2. Carried(c)
    BY <1>1, CarriedBySends
  <1>3. CASE c # d.to
    <2>1. Same(c)
      BY ONLY SMTT(60), <1>3, TypeOK, c \in Clients, HandleAssign(d, copy),
         UNCHANGED <<starts, peers, quiet>> DEF HandleAssign, End, Forget, Same, TypeOK
    <2> QED
      BY ZenonT(60), <1>2, <2>1, KeepsFirst
  <1>4. CASE c = d.to /\ End(c)
    <2>1. state'[c] = "down" /\ state[c] # "down"
      BY ZenonT(60), <1>4 DEF End, Forget, HandleAssign
    <2> QED
      BY SMTT(60), <2>1, EndsFirst
  <1>5. CASE c = d.to /\ state' = [state EXCEPT ![d.to] = "up"]
             /\ \E v \in d.about : virtIp' = [virtIp EXCEPT ![d.to] = v]
    <2>1. state[c] = "register" /\ state'[c] = "up" /\ d \in Answers(c)
      BY ZenonT(60), <1>5 DEF HandleAssign, TypeOK, Answers
    <2>2. virtIp'[c] \in d.about
      BY ZenonT(60), <1>5 DEF TypeOK
    <2>3. starts[c] # 0
      BY ZenonT(60), <2>1 DEF First, Fresh
    <2>4. ASSUME Registering(c) PROVE Settled(c)'
      <3>1. c \in Members /\ d.about = {peers[c]} /\ quiet[c] <= d.age
        BY ZenonT(60), <2>1, <2>4 DEF Registering
      <3>2. (c \in Members)' /\ peers'[c] = virtIp'[c]
        BY ZenonT(60), <2>2, <3>1 DEF Members
      <3>3. quiet'[c] \in Nat /\ quiet'[c] <= Lifetime /\ Lifetime \in Nat
        BY SMTT(60), <3>1, TunDAssumption DEF TypeOK, Datagram
      <3>4. \A m \in Asks(c)' : m.age \in Nat /\ m.type = "REGISTER"
        <4> TAKE m \in Asks(c)'
        <4>1. PICK n \in net : Alike(m, n)
          BY ZenonT(60), <1>2 DEF Asks, Carried, Concerns
        <4>2. n \in Asks(c)
          BY SMTT(60), <4>1 DEF Asks, Alike
        <4>3. m.type = "REGISTER"
          BY Zenon, <2>4, <4>1, <4>2 DEF Registering, Alike
        <4>4. m.age \in Nat
          BY Zenon, AgesNext DEF Asks
        <4> QED
          BY <4>3, <4>4
      <3> QED
        BY SMTT(60), <3>2, <3>3, <3>4 DEF Settled
    <2> QED
      BY Zenon, <2>1, <2>3, <2>4 DEF First
  <1> QED
    BY SMTT(60), <1>3, <1>4, <1>5 DEF HandleAssign

\* The receiving functions of the client
LEMMA ClientHandlesFirst ==
  ASSUME TypeOK, TypeOK', NEW d \in net, NEW copy \in Copies(d), NEW c \in Clients, First(c),
         ClientHandles(d, copy), starts' = starts
  PROVE  First(c)'
  <1>1. d \in Datagram /\ d.to \in Clients /\ Hub \notin Clients
    BY Zenon, TunDAssumption DEF TypeOK, ClientHandles, Datagram
  <1>2. UNCHANGED <<starts, peers, quiet>>
    BY SMTT(60) DEF ClientHandles, serverVars
  <1>3. CASE HandleAssign(d, copy)
    BY Zenon, <1>1, <1>2, <1>3, AssignFirst
  <1>4. CASE RegisterOther(d, copy)
    <2>1. \A m \in (net \ {d}) \cup copy : \E n \in net : Alike(m, n)
      <3>1. \A m \in copy : Alike(m, d)
        BY Zenon, <1>1, CopyAlike
      <3>2. \A m \in net : Alike(m, m)
        BY Zenon DEF Alike
      <3> QED
        BY Zenon, <3>1, <3>2
    <2> QED
      BY Zenon, <1>1, <1>2, <1>4, <2>1, NextTurnFirst DEF RegisterOther
  <1>5. CASE HandleStop(d, copy)
    <2> DEFINE b == Message(d.to, Hub, "DISCONNECT", {})
    <2>1. b.from = d.to /\ b.to = Hub
      BY ZenonT(60) DEF Message
    <2>2. \A m \in net' : m \in net \/ m \in copy \/ m = b
      BY ZenonT(60), <1>5 DEF HandleStop, Sends, Travels
    <2> HIDE DEF b
    <2>3. CASE c = d.to
      <3>1. state[c] # "down" /\ state'[c] = "down"
        BY ZenonT(60), <1>5, <2>3 DEF HandleStop, End, Forget
      <3> QED
        BY Zenon, <3>1, EndsFirst
    <2>4. CASE c # d.to
      <3>1. ~Concerns(b, c)
        BY <1>1, <2>1, <2>4 DEF Concerns
      <3>2. Carried(c)
        BY SMTT(60), <2>2, <3>1, CarriedBySends
      <3>3. Same(c)
        BY ZenonT(60), <1>2, <1>5, <2>4 DEF HandleStop, End, Forget, Same, TypeOK
      <3> QED
        BY Zenon, <3>2, <3>3, KeepsFirst
    <2> QED
      BY Zenon, <2>3, <2>4
  <1>6. CASE HandleNews(d, copy) \/ HandleUnknown(d, copy) \/ ClientDrops(d, copy)
    <2>1. \A m \in net' : m \in net \/ m \in copy
      BY SMTT(60), <1>6 DEF HandleNews, HandleUnknown, ClientDrops, Sends, Travels
    <2>2. Carried(c)
      BY <2>1, CarriedBySends
    <2>3. Same(c)
      BY Zenon, <1>2, <1>6 DEF HandleNews, HandleUnknown, ClientDrops, clientVars, Same, TypeOK
    <2> QED
      BY ZenonT(60), <2>2, <2>3, KeepsFirst
  <1> QED
    BY Zenon, <1>3, <1>4, <1>5, <1>6 DEF ClientHandles

\* The first process at an endpoint starts without an entry and with nothing on
\* its way to it.
LEMMA StartFirst ==
  ASSUME TypeOK, TypeOK', StartTypes, NEW x \in Clients, NEW c \in Clients, First(c), Start(x)
  PROVE  First(c)'
  <1>0. Hub \notin Clients /\ net \in SUBSET Datagram
    BY TunDAssumption DEF TypeOK
  <1>1. PICK below \in BOOLEAN :
          net' = NewWindow(Hub, x, net)
            \cup Travels({[Message(x, Hub, "REGISTER", {}) EXCEPT !.stale = below]})
    BY Zenon DEF Start
  <1> DEFINE r == [Message(x, Hub, "REGISTER", {}) EXCEPT !.stale = below]
  <1>2. r.from = x /\ r.to = Hub /\ r.type = "REGISTER"
    BY DEF Message
  <1>3. \A m \in net' : m = r \/ \E n \in net : Alike(m, n)
    <2> TAKE m \in net'
    <2>1. m = r \/ m \in NewWindow(Hub, x, net)
      BY <1>1 DEF Travels
    <2> QED
      BY <1>0, <2>1, NewWindowAlike
  <1> HIDE DEF r
  <1>4. UNCHANGED <<peers, quiet, virtIp>>
    BY DEF Start, serverVars
  <1>5. CASE c # x
    <2>1. Same(c)
      BY Zenon, <1>4, <1>5 DEF Same, Start, StartTypes, TypeOK
    <2>2. Carried(c)
      BY Zenon, <1>0, <1>2, <1>3, <1>5 DEF Carried, Concerns
    <2> QED
      BY <2>1, <2>2, KeepsFirst
  <1>6. CASE c = x
    <2>1. starts'[c] = starts[c] + 1 /\ starts[c] \in Nat /\ state'[c] = "register"
      BY Zenon, <1>6 DEF Start, StartTypes, TypeOK
    <2>2. ASSUME starts[c] = 0 PROVE Registering(c)'
      <3>1. c \notin Members /\ Asks(c) = {} /\ Answers(c) = {}
        BY Zenon, <2>2 DEF First, Fresh
      <3>2. \A m \in Asks(c)' : m = r
        BY ZenonT(60), <1>3, <3>1 DEF Asks, Alike
      <3>3. Answers(c)' = {}
        BY SMTT(60), <1>2, <1>3, <3>1 DEF Answers, Alike
      <3>4. ~(c \in Members)'
        BY SMTT(60), <1>4, <3>1 DEF Members
      <3> QED
        BY Zenon, <1>2, <3>2, <3>3, <3>4 DEF Registering
    <2>3. starts'[c] # 0 /\ (starts'[c] = 1 => starts[c] = 0)
      BY ONLY SMTT(60), <2>1
    <2>4. state'[c] # "up"
      BY Zenon, <2>1
    <2> QED
      BY Zenon, <2>2, <2>3, <2>4 DEF First
  <1> QED
    BY Zenon, <1>5, <1>6

\* The other things that can happen to a process or its link
LEMMA ProcessFirst ==
  ASSUME TypeOK, TypeOK', StartTypes, NEW x \in Clients, NEW c \in Clients, First(c),
         \/ Start(x) \/ RegisterTimeout(x) \/ Quit(x) \/ Crash(x) \/ Cut(x) \/ Heal(x)
  PROVE  First(c)'
  <1>0. Hub \notin Clients
    BY Zenon, TunDAssumption
  <1>1. CASE Start(x)
    BY Zenon, <1>1, StartFirst
  <1>2. CASE RegisterTimeout(x)
    <2>1. \A m \in net : Alike(m, m)
      BY DEF Alike
    <2> QED
      BY Zenon, <1>2, <2>1, NextTurnFirst DEF RegisterTimeout, serverVars
  <1>3. CASE Quit(x) \/ Crash(x)
    <2> DEFINE b == Message(x, Hub, "DISCONNECT", {})
    <2>1. b.from = x /\ b.to = Hub
      BY Zenon DEF Message
    <2>2. \A m \in net' : m \in net \/ m = b
      BY Zenon, <1>3 DEF Quit, Crash, Sends, Travels
    <2> HIDE DEF b
    <2>3. End(x) /\ state[x] # "down" /\ UNCHANGED <<starts, peers, quiet>>
      BY <1>3 DEF Quit, Crash, serverVars
    <2>4. CASE c = x
      <3>1. state'[c] = "down"
        BY ZenonT(60), <2>3, <2>4 DEF End, Forget
      <3> QED
        BY ZenonT(60), <2>3, <2>4, <3>1, EndsFirst
    <2>5. CASE c # x
      <3>1. Same(c)
        BY SMTT(60), <2>3, <2>5 DEF End, Forget, Same, TypeOK
      <3>2. Carried(c)
        BY Zenon, <1>0, <2>1, <2>2, <2>5 DEF Carried, Concerns, Alike
      <3> QED
        BY ZenonT(60), <3>1, <3>2, KeepsFirst
    <2> QED
      BY Zenon, <2>4, <2>5
  <1>4. CASE Cut(x) \/ Heal(x)
    <2>1. Same(c) /\ Carried(c)
      BY Zenon, <1>4 DEF Cut, Heal, serverVars, clientVars, Same, Carried, Alike
    <2> QED
      BY SMTT(60), <2>1, KeepsFirst
  <1> QED
    BY Zenon, <1>1, <1>2, <1>3, <1>4

\* The timeout thread sends what does not concern an address.
LEMMA SendLeaveFirst ==
  ASSUME NEW l, NEW c \in Clients, First(c), SendLeave(l)
  PROVE  First(c)'
  <1>0. Hub \notin Clients
    BY Zenon, TunDAssumption
  <1>1. Same(c)
    BY ZenonT(60) DEF SendLeave, clientVars, Same
  <1>2. ~Concerns(Farewell(l), c)
    BY <1>0, FarewellSays DEF Concerns
  <1>3. Carried(c)
    BY Zenon, <1>2 DEF SendLeave, Travels, Carried, Alike
  <1> QED
    BY Zenon, <1>1, <1>3, KeepsFirst

\* An interval passes.  An entry whose process registers is too young to be
\* evicted, and so is one that a REGISTER on its way will find.
LEMMA TickFirst ==
  ASSUME TypeOK, TypeOK', StartTypes, NEW c \in Clients, First(c), Tick
  PROVE  First(c)'
  <1>1. PICK evicted \in Overdue(Members, quiet, PeerTicks),
             stopped \in Overdue(Up, silence, ServerTicks) :
          /\ peers' = [x \in Clients |-> IF x \in evicted THEN None ELSE peers[x]]
          /\ quiet' = [x \in Clients |-> IF x \in Members \ (evicted \cup (Heard \ stopped))
                                         THEN Older(quiet[x], PeerTicks) ELSE 0]
          /\ Forget(stopped)
          /\ silence' = [x \in Clients |->
                           IF state[x] = "down" \/ x \in stopped \cup (Hears \ evicted)
                           THEN 0 ELSE Older(silence[x], ServerTicks)]
          /\ net' = {[d EXCEPT !.age = @ + 1] : d \in net}
                      \cup Travels({Message(x, Hub, "DISCONNECT", {}) : x \in stopped})
    BY ZenonT(60) DEF Tick
  <1>2. starts' = starts /\ Hub \notin Clients
    BY Zenon, TunDAssumption DEF Tick
  <1>3. c \in evicted => c \in Members /\ quiet[c] + 1 >= PeerTicks
    BY DEF Overdue
  <1>4. c \in stopped => state[c] = "up" /\ state'[c] = "down"
    BY <1>1 DEF Overdue, Up, Forget
  <1>5. c \notin stopped => state'[c] = state[c] /\ virtIp'[c] = virtIp[c]
    BY <1>1 DEF Forget
  <1>6. quiet'[c] <= quiet[c] + 1 /\ quiet[c] \in Nat /\ quiet'[c] \in Nat /\ silence[c] \in Nat
    BY SMTT(60), <1>1, TunDAssumption DEF TypeOK, Older
  <1>7. \A m \in net' : Concerns(m, c) /\ c \notin stopped =>
          \E n \in net : /\ n.from = m.from /\ n.to = m.to /\ n.type = m.type
                         /\ n.about = m.about /\ m.age = n.age + 1 /\ n.age < Lifetime
    <2> SUFFICES ASSUME NEW m \in net', Concerns(m, c), c \notin stopped
                 PROVE  \E n \in net : /\ n.from = m.from /\ n.to = m.to /\ n.type = m.type
                                       /\ n.about = m.about /\ m.age = n.age + 1 /\ n.age < Lifetime
      BY ZenonT(60)
    <2>1. \/ \E d \in net : m = [d EXCEPT !.age = @ + 1]
          \/ \E x \in stopped : m = Message(x, Hub, "DISCONNECT", {})
      BY SMTT(60), <1>1 DEF Travels
    <2>3. ~ \E x \in stopped : m = Message(x, Hub, "DISCONNECT", {})
      <3>1. \A x : LET r == Message(x, Hub, "DISCONNECT", {}) IN r.from = x /\ r.to = Hub
        BY Zenon DEF Message
      <3> QED
        BY Zenon, <1>2, <3>1 DEF Concerns
    <2>4. PICK d \in net : m = [d EXCEPT !.age = @ + 1]
      BY ZenonT(60), <2>1, <2>3
    <2>5. d \in Datagram /\ d.age < Lifetime
      BY DEF TypeOK, Tick
    <2>6. /\ d.from = m.from /\ d.to = m.to /\ d.type = m.type
          /\ d.about = m.about /\ m.age = d.age + 1
      BY Zenon, <2>4, <2>5 DEF Datagram
    <2> QED
      BY Zenon, <2>5, <2>6
  <1>8. CASE c \in stopped
    BY Zenon, <1>2, <1>4, <1>8, EndsFirst
  <1>9. CASE c \notin stopped
    <2>0. \A d \in net : d.age \in Nat
      BY Zenon, Ages
    <2>1. \A m \in Asks(c)' : \E n \in Asks(c) :
             n.type = m.type /\ m.age = n.age + 1 /\ n.age < Lifetime
      BY ONLY SMTT(60), <1>7, <1>9 DEF Asks, Concerns
    <2>2. \A m \in Answers(c)' : \E n \in Answers(c) : n.about = m.about /\ m.age = n.age + 1
      BY <1>7, <1>9 DEF Answers, Concerns
    <2>3. (c \in Members)' <=> c \in Members /\ c \notin evicted
      BY <1>1 DEF Members
    <2>4. c \notin evicted => peers'[c] = peers[c]
      BY Zenon, <1>1
    <2>5. ASSUME Fresh(c) PROVE Fresh(c)'
      <3>1. Asks(c)' = {} /\ Answers(c)' = {}
        BY ZenonT(60), <2>1, <2>2, <2>5 DEF Fresh
      <3> QED
        BY Zenon, <1>5, <1>9, <2>3, <2>5, <3>1 DEF Fresh
    <2>6. ASSUME Registering(c), state[c] = "register" PROVE Registering(c)'
      <3>1. silence[c] < 2 /\ silence'[c] = silence[c] + 1
        <4>1. silence[c] < 2
          BY SMTT(60), <2>6 DEF Tick
        <4>2. c \notin stopped /\ c \notin Hears
          BY ZenonT(60), <1>9, <2>6 DEF Hears, Linked, Up
        <4> QED
          BY <1>1, <1>6, <2>6, <4>1, <4>2, TimingAssumption, TunDAssumption DEF Older
      <3>2. c \notin evicted
        BY SMTT(60), <1>3, <1>6, <2>6, <3>1, TimingAssumption, TunDAssumption DEF Registering
      <3>3. \A m \in Asks(c)' : m.type = "REGISTER"
        BY ZenonT(60), <2>1, <2>6 DEF Registering
      <3>4. ~(c \in Members)' => Answers(c)' = {}
        BY ZenonT(60), <2>2, <2>3, <2>6, <3>2 DEF Registering
      <3>5. (c \in Members)' => quiet'[c] <= silence'[c]
        BY ONLY SMTT(60), <1>6, <2>3, <2>6, <3>1 DEF Registering
      <3>6. ASSUME (c \in Members)', NEW m \in Answers(c)'
            PROVE  m.about = {peers'[c]} /\ quiet'[c] <= m.age
        <4>1. PICK n \in Answers(c) : n.about = m.about /\ m.age = n.age + 1
          BY Zenon, <2>2
        <4>2. n.about = {peers[c]} /\ quiet[c] <= n.age /\ n.age \in Nat
          BY Zenon, <2>0, <2>3, <2>6, <3>6 DEF Registering, Answers
        <4> QED
          BY <1>6, <2>4, <3>2, <4>1, <4>2
      <3> QED
        BY <3>3, <3>4, <3>5, <3>6 DEF Registering
    <2>7. ASSUME Settled(c) PROVE Settled(c)'
      <3>1. ASSUME NEW m \in Asks(c)'
            PROVE  m.type = "REGISTER" /\ (c \in Members)' /\ quiet'[c] <= Lifetime + m.age
        <4>1. PICK n \in Asks(c) : n.type = m.type /\ m.age = n.age + 1 /\ n.age < Lifetime
          BY Zenon, <2>1
        <4>2. n.type = "REGISTER" /\ c \in Members /\ quiet[c] <= Lifetime + n.age /\ n.age \in Nat
          BY ZenonT(60), <2>0, <2>7 DEF Settled, Asks
        <4>3. c \notin evicted
          BY ONLY SMTT(60), <1>3, <1>6, <4>1, <4>2, TimingAssumption, TunDAssumption
        <4> QED
          BY SMTT(60), <1>6, <2>3, <4>1, <4>2, <4>3, TunDAssumption
      <3>2. (c \in Members)' => peers'[c] = virtIp'[c]
        BY <1>5, <1>9, <2>3, <2>4, <2>7 DEF Settled
      <3> QED
        BY ZenonT(60), <3>1, <3>2 DEF Settled
    <2> QED
      BY Zenon, <1>2, <1>5, <1>9, <2>5, <2>6, <2>7 DEF First
  <1> QED
    BY <1>8, <1>9

\* Nothing has been started and nothing is on its way.
LEMMA InitIInv == Init => IInv
  <1> SUFFICES ASSUME Init PROVE IInv
    OBVIOUS
  <1>1. TypeOK /\ StartTypes
    BY ZenonT(60), TypesInit
  <1>2. \A c \in Clients : First(c)
    BY SMTT(60), TunDAssumption DEF Init, First, Fresh, Asks, Answers, Members
  <1> QED
    BY <1>1, <1>2 DEF IInv

\* Every step keeps the invariant.  The second process of the server is beyond
\* it: a datagram of the first one may still be on its way.
LEMMA StepIInv == IInv /\ [Next]_vars => IInv'
  <1> SUFFICES ASSUME IInv, [Next]_vars PROVE IInv'
    OBVIOUS
  <1>1. TypeOK /\ StartTypes /\ TypeOK' /\ StartTypes'
    BY Zenon, TypesStep DEF IInv
  <1> SUFFICES ASSUME starts'[Hub] = 1, NEW c \in Clients PROVE First(c)'
    BY Zenon, <1>1 DEF IInv
  <1>2. ASSUME NEW d \in net, Deliver(d) PROVE First(c)'
    <2>1. PICK copy \in Copies(d) : ServerHandles(d, copy) \/ ClientHandles(d, copy)
      BY <1>2 DEF Deliver
    <2>2. starts' = starts
      BY <1>2 DEF Deliver
    <2>3. First(c)
      BY Zenon, <2>2 DEF IInv
    <2> QED
      BY Zenon, <1>1, <2>1, <2>2, <2>3, ServerHandlesFirst, ClientHandlesFirst
  <1>3. ASSUME NEW x \in Clients,
               \/ Start(x) \/ RegisterTimeout(x) \/ Quit(x) \/ Crash(x)
               \/ Cut(x) \/ Heal(x)
        PROVE  First(c)'
    <2>1. starts'[Hub] = starts[Hub]
      BY Zenon, <1>1, <1>3, TunDAssumption
         DEF StartTypes, Start, RegisterTimeout, Quit, Crash, Cut, Heal
    <2>2. First(c)
      BY <2>1 DEF IInv
    <2> QED
      BY <1>1, <1>3, <2>2, ProcessFirst
  <1>4. CASE ServerRestart
    <2>1. starts'[Hub] = starts[Hub] + 1 /\ starts[Hub] \in Nat /\ starts[Hub] # 0
      BY <1>1, <1>4 DEF ServerRestart, StartTypes
    <2> QED
      <3>1. starts'[Hub] # 1
        BY ONLY <2>1
      <3> QED
        BY Zenon, <3>1
  <1>5. CASE Tick
    <2>1. First(c)
      BY <1>5 DEF Tick, IInv
    <2> QED
      BY <1>1, <1>5, <2>1, TickFirst
  <1>7. ASSUME NEW l \in leaves, SendLeave(l) PROVE First(c)'
    <2>1. First(c)
      BY Zenon, <1>7 DEF SendLeave, IInv
    <2> QED
      BY <1>7, <2>1, SendLeaveFirst
  <1>6. CASE UNCHANGED vars
    <2>1. First(c)
      BY ZenonT(60), <1>6 DEF vars, IInv
    <2>2. Same(c) /\ Carried(c)
      BY <1>6 DEF vars, serverVars, clientVars, Same, Carried, Alike
    <2> QED
      BY <2>1, <2>2, KeepsFirst
  <1> QED
    BY Zenon, <1>2, <1>3, <1>4, <1>5, <1>6, <1>7, TunDAssumption DEF Next, Step

\* The first process at an endpoint and the first server agree on the address
\* of the client as long as the server has an entry for it, for any number of
\* clients, addresses, retries and faults, provided that the timeout of peers
\* is three intervals at least and more than twice what a datagram may take.
THEOREM AddressesAgree == Spec => []AddressAgreement
  <1>1. IInv => AddressAgreement
    BY DEF IInv, First, Settled, AddressAgreement, Members
  <1> QED
    BY <1>1, InitIInv, StepIInv, PTL DEF Spec
=============================================================================
