--------------------------- MODULE TunDViewProofs ---------------------------
(***************************************************************************)
(* A client that has heard all its news knows the other members, for any   *)
(* number of clients, addresses, faults, crashes and restarts.             *)
(***************************************************************************)
EXTENDS TunDProofs
-----------------------------------------------------------------------------
(* The invariant. *)

\* The news on its way to c
NewsTo(c) == {d \in net : d.to = c /\ d.type \in News}

\* News that c will accept: v is a member, or v has left
Comes(c, v) == \E d \in NewsTo(c) : ~d.stale /\ d.type # "PEER_LEAVE" /\ v \in d.about
Goes(c, v) == \E d \in NewsTo(c) : ~d.stale /\ d.type = "PEER_LEAVE" /\ v \in d.about

\* The timeout thread has still to tell c that v has left.
LeavesTo(c) == {l \in leaves : l.to = c}
Due(c, v) == \E l \in LeavesTo(c) : l.vip = v

\* What c will know when it has all its news, and the timeout thread has sent
\* what it has to send, is who the other members are.
Others(c) == AddressesOf(Members \ {c})
Told(c) ==
  \A v \in Vips :
    /\ Comes(c, v) => v \in Others(c) \/ Due(c, v)
    /\ Goes(c, v) => v \notin Others(c)
    /\ ~Comes(c, v) /\ ~Goes(c, v) => /\ v \in Others(c) => v \in view[c]
                                      /\ v \in view[c] => v \in Others(c) \/ Due(c, v)

\* It holds of a process that is sure of its news.  Before it is a member it has
\* had none, and there is none left of an earlier process.
Untold(c) == view[c] = {} /\ NewsTo(c) = {} /\ LeavesTo(c) = {}
Aware(c) ==
  state[c] # "down" /\ ~unsure[c] =>
    /\ c \in Members => Told(c)
    /\ c \notin Members => Untold(c)

\* What a process has in its memory when it starts, and that a client which
\* refuses the numbers of the server knows that it misses something
Orderly(c) ==
  /\ state[c] # "register" => attempt[c] = 0
  /\ state[c] # "up" => view[c] = {}
  /\ deaf[c] => state[c] # "down" /\ unsure[c]

\* No two members have the same address.
Distinct == \A a, b \in Members : peers[a] = peers[b] => a = b

ViewIInv == TypeOK /\ StartTypes /\ Distinct /\ \A c \in Clients : Orderly(c) /\ Aware(c)
-----------------------------------------------------------------------------
(* Messages. *)

\* A duplicate says what the original said, but its number is known.
LEMMA CopyFields ==
  ASSUME NEW d \in Datagram, NEW copy \in Copies(d), NEW m \in copy
  PROVE  /\ m.from = d.from /\ m.to = d.to /\ m.type = d.type /\ m.about = d.about
         /\ m.stale = TRUE /\ m.age = d.age
  <1>1. m = [d EXCEPT !.stale = TRUE]
    BY DEF Copies
  <1> QED
    BY <1>1 DEF Datagram

\* A new window at one end changes nothing of what goes elsewhere.
LEMMA NewWindowOthers ==
  ASSUME NEW from, NEW to, NEW N \in SUBSET Datagram, NEW m, m.to # to
  PROVE  m \in NewWindow(from, to, N) <=> m \in N
  <1>1. ASSUME m \in NewWindow(from, to, N) PROVE m \in N
    <2>1. PICK n \in N : m = IF n.from = from /\ n.to = to THEN [n EXCEPT !.stale = FALSE] ELSE n
      BY <1>1, Zenon DEF NewWindow
    <2>2. n.to = to => m.to = to
      BY <2>1 DEF Datagram
    <2> QED
      BY <2>1, <2>2, Zenon
  <1>2. ASSUME m \in N PROVE m \in NewWindow(from, to, N)
    BY <1>2, Zenon DEF NewWindow
  <1> QED
    BY <1>1, <1>2, Zenon

\* What is sent over a link that works is in flight.
LEMMA InTravels ==
  ASSUME NEW M, NEW m \in M, EndpointOf(m) \notin cut
  PROVE  m \in Travels(M)
  BY Zenon DEF Travels

\* A step that delivers something else, and sends no news to c, leaves the news
\* of c as it is.
LEMMA DeliverNews ==
  ASSUME NEW d \in Datagram, NEW copy \in Copies(d), NEW c \in Clients, NEW M,
         net' = ((net \ {d}) \cup copy) \cup Travels(M),
         \A m \in M : m.to # c \/ m.type \notin News,
         d.to # c \/ d.type \notin News
  PROVE  NewsTo(c)' = NewsTo(c)
  <1>1. ASSUME NEW m \in copy PROVE m.to # c \/ m.type \notin News
    <2>1. m.to = d.to /\ m.type = d.type
      BY Zenon, CopyFields
    <2> QED
      BY <2>1, Zenon
  <1>2. ASSUME NEW m \in NewsTo(c) PROVE m \in NewsTo(c)'
    <2>1. m \in net /\ m.to = c /\ m.type \in News
      BY DEF NewsTo
    <2>2. m # d
      BY <2>1, Zenon
    <2> QED
      BY <2>1, <2>2, Zenon DEF NewsTo
  <1>3. ASSUME NEW m \in NewsTo(c)' PROVE m \in NewsTo(c)
    <2>1. m \in net' /\ m.to = c /\ m.type \in News
      BY DEF NewsTo
    <2>2. m \notin copy /\ m \notin M
      BY <2>1, <1>1, Zenon
    <2>3. m \in net
      BY <2>1, <2>2, Zenon DEF Travels
    <2> QED
      BY <2>1, <2>3, Zenon DEF NewsTo
  <1> QED
    BY <1>2, <1>3, Zenon
-----------------------------------------------------------------------------
(* Steps that leave c alone. *)

\* News passes a step: what arrives is what was on its way.
NewsKept(c) ==
  /\ \A m \in NewsTo(c)' : \E n \in NewsTo(c) :
       n.type = m.type /\ n.about = m.about /\ (n.stale => m.stale)
  /\ \A n \in NewsTo(c) : ~n.stale => \E m \in NewsTo(c)' :
       m.type = n.type /\ m.about = n.about /\ ~m.stale

\* News that is the same is kept.
LEMMA SameNewsKept ==
  ASSUME NEW c, NewsTo(c)' = NewsTo(c)
  PROVE  NewsKept(c)
  BY Zenon DEF NewsKept

\* With the news kept, the same addresses come and go.
LEMMA KeptComes ==
  ASSUME NEW c, NewsKept(c), NEW v
  PROVE  /\ Comes(c, v)' <=> Comes(c, v)
         /\ Goes(c, v)' <=> Goes(c, v)
  <1>1. ASSUME NEW m \in NewsTo(c)', ~m.stale, v \in m.about
        PROVE  \E n \in NewsTo(c) : n.type = m.type /\ ~n.stale /\ v \in n.about
    BY <1>1, Zenon DEF NewsKept
  <1>2. ASSUME NEW n \in NewsTo(c), ~n.stale, v \in n.about
        PROVE  \E m \in NewsTo(c)' : m.type = n.type /\ ~m.stale /\ v \in m.about
    <2>1. PICK m \in NewsTo(c)' : m.type = n.type /\ m.about = n.about /\ ~m.stale
      BY <1>2, Zenon DEF NewsKept
    <2> QED
      BY <1>2, <2>1, Zenon
  <1>3. Comes(c, v)' => Comes(c, v)
    BY <1>1, Zenon DEF Comes
  <1>4. Comes(c, v) => Comes(c, v)'
    BY <1>2, Zenon DEF Comes
  <1>5. Goes(c, v)' => Goes(c, v)
    BY <1>1, Zenon DEF Goes
  <1>6. Goes(c, v) => Goes(c, v)'
    BY <1>2, Zenon DEF Goes
  <1> QED
    BY <1>3, <1>4, <1>5, <1>6, Zenon

\* The history can only get worse while a process lives.
LEMMA UnsureGrows ==
  ASSUME NEW c \in Clients, NEW S, Unsure(S), ~unsure'[c], state'[c] # "down"
  PROVE  ~unsure[c] /\ c \notin S
  BY Zenon DEF Unsure

\* The table is left alone, and what the timeout thread has to send.
TableKept == peers' = peers /\ leaves' = leaves

\* The members and their addresses are read off the table.
LEMMA SameMembers ==
  ASSUME peers' = peers
  PROVE  /\ Members' = Members
         /\ \A c : Others(c)' = Others(c)
         /\ Distinct => Distinct'
  BY Zenon DEF Members, Others, AddressesOf, Distinct

\* With the table and the pending farewells kept, nothing else is due.
LEMMA SameTable ==
  ASSUME TableKept
  PROVE  /\ Members' = Members
         /\ \A c : Others(c)' = Others(c) /\ LeavesTo(c)' = LeavesTo(c)
         /\ \A c, v : Due(c, v)' <=> Due(c, v)
         /\ Distinct => Distinct'
  <1>1. peers' = peers /\ leaves' = leaves
    BY Zenon DEF TableKept
  <1>2. \A c : LeavesTo(c)' = LeavesTo(c)
    BY Zenon, <1>1 DEF LeavesTo
  <1>3. \A c, v : Due(c, v)' <=> Due(c, v)
    BY Zenon, <1>2 DEF Due
  <1> QED
    BY Zenon, <1>1, <1>2, <1>3, SameMembers

\* A step of others keeps what c knows.
LEMMA KeepsAware ==
  ASSUME NEW c \in Clients, Aware(c), peers' = peers, LeavesTo(c)' = LeavesTo(c),
         state'[c] # "down" /\ ~unsure'[c] =>
           state[c] # "down" /\ ~unsure[c] /\ view'[c] = view[c] /\ NewsKept(c)
  PROVE  Aware(c)'
  <1> SUFFICES ASSUME state'[c] # "down", ~unsure'[c]
               PROVE  /\ (c \in Members)' => Told(c)'
                      /\ ~(c \in Members)' => Untold(c)'
    BY Zenon DEF Aware
  <1>1. state[c] # "down" /\ ~unsure[c] /\ view'[c] = view[c] /\ NewsKept(c)
    BY Zenon
  <1>2. Members' = Members /\ Others(c)' = Others(c)
    BY SameMembers, Zenon
  <1>5. \A v : Due(c, v)' <=> Due(c, v)
    BY Zenon DEF Due
  <1>3. CASE c \in Members
    <2>1. Told(c)
      BY <1>1, <1>3, Zenon DEF Aware
    <2>2. Told(c)'
      BY <2>1, <1>1, <1>2, <1>5, KeptComes, Zenon DEF Told
    <2> QED
      BY <2>2, <1>2, <1>3, Zenon
  <1>4. CASE c \notin Members
    <2>1. view[c] = {} /\ NewsTo(c) = {} /\ LeavesTo(c) = {}
      BY <1>1, <1>4, Zenon DEF Aware, Untold
    <2>2. NewsTo(c)' = {}
      BY <2>1, <1>1, Zenon DEF NewsKept
    <2>3. Untold(c)'
      BY <2>1, <2>2, <1>1, Zenon DEF Untold
    <2> QED
      BY <2>3, <1>2, <1>4, Zenon
  <1> QED
    BY <1>3, <1>4, Zenon

\* A client that sees and is sent the same knows as much as before.
LEMMA StaysAware ==
  ASSUME NEW c \in Clients, Aware(c), TableKept,
         state'[c] # "down" /\ ~unsure'[c] =>
           state[c] # "down" /\ ~unsure[c] /\ view'[c] = view[c] /\ NewsKept(c)
  PROVE  Aware(c)'
  <1>1. peers' = peers /\ LeavesTo(c)' = LeavesTo(c)
    BY Zenon DEF TableKept, LeavesTo
  <1> QED
    BY Zenon, <1>1, KeepsAware

\* A process that has ended knows nothing.
LEMMA EndsAware ==
  ASSUME NEW c \in Clients, state'[c] = "down"
  PROVE  Aware(c)'
  BY Zenon DEF Aware

\* Nothing of c's memory changes, and it may only become unsure.
LEMMA KeepsOrderly ==
  ASSUME TypeOK, NEW c \in Clients, Orderly(c), NEW S, Unsure(S),
         state'[c] = state[c], attempt'[c] = attempt[c], view'[c] = view[c], deaf'[c] = deaf[c]
  PROVE  Orderly(c)'
  <1>1. deaf[c] => unsure'[c]
    BY Zenon DEF Unsure, Orderly
  <1> QED
    BY <1>1, Zenon DEF Orderly

\* A process that ends loses all of its memory.
LEMMA ForgetOrderly ==
  ASSUME TypeOK, NEW c \in Clients, Orderly(c), NEW T, Forget(T), NEW S, Unsure(S)
  PROVE  Orderly(c)' /\ (state'[c] # "down" => state'[c] = state[c] /\ view'[c] = view[c])
  <1>1. CASE c \in T
    <2>1. state'[c] = "down" /\ attempt'[c] = 0 /\ view'[c] = {} /\ ~deaf'[c]
      BY <1>1, Zenon DEF Forget
    <2> QED
      BY <2>1, Zenon DEF Orderly
  <1>2. CASE c \notin T
    <2>1. state'[c] = state[c] /\ attempt'[c] = attempt[c] /\ view'[c] = view[c]
      BY <1>2, Zenon DEF Forget
    <2>2. deaf'[c] = deaf[c]
      BY <1>2 DEF Forget, TypeOK
    <2> QED
      BY <2>1, <2>2, KeepsOrderly
  <1> QED
    BY <1>1, <1>2, Zenon
-----------------------------------------------------------------------------
(* The server's handlers. *)

\* server_handle_register, known endpoint
LEMMA KnownView ==
  ASSUME ViewIInv, NEW d \in net, NEW copy \in Copies(d), d.to = Hub,
         UNCHANGED clientVars, RegisterKnown(d, copy), NEW c \in Clients
  PROVE  Orderly(c)' /\ Aware(c)'
  <1>1. d \in Datagram /\ TypeOK /\ Orderly(c) /\ Aware(c) /\ c # Hub
    BY TunDAssumption DEF ViewIInv, TypeOK
  <1> DEFINE M == {Message(Hub, d.from, "ASSIGN", {peers[d.from]})}
             S == {x \in Clients : Missed(x, M)}
  <1>2. Unsure(S) /\ net' = ((net \ {d}) \cup copy) \cup Travels(M)
    BY Zenon DEF RegisterKnown, Sends
  <1>3. UNCHANGED <<state, attempt, view, deaf>>
    BY DEF clientVars
  <1>4. \A m \in M : m.type \notin News
    <2>1. Message(Hub, d.from, "ASSIGN", {peers[d.from]}).type = "ASSIGN"
      BY Zenon DEF Message
    <2> QED
      BY Zenon, <2>1 DEF News
  <1> HIDE DEF M, S
  <1>5. NewsTo(c)' = NewsTo(c)
    BY <1>1, <1>2, <1>4, DeliverNews, Zenon
  <1>6. NewsKept(c)
    BY <1>5, SameNewsKept
  <1>7. state'[c] # "down" /\ ~unsure'[c] => state[c] # "down" /\ ~unsure[c]
    BY <1>2, <1>3, UnsureGrows, Zenon
  <1>8. TableKept
    BY DEF RegisterKnown, TableKept
  <1> QED
    BY <1>1, <1>2, <1>3, <1>6, <1>7, <1>8, StaysAware, KeepsOrderly, Zenon

\* A packet that the server refuses
LEMMA ServerDropsView ==
  ASSUME ViewIInv, NEW d \in net, NEW copy \in Copies(d), d.to = Hub,
         UNCHANGED clientVars, ServerDrops(d, copy), NEW c \in Clients
  PROVE  Orderly(c)' /\ Aware(c)'
  <1>1. d \in Datagram /\ TypeOK /\ Orderly(c) /\ Aware(c) /\ c # Hub
    BY TunDAssumption DEF ViewIInv, TypeOK
  <1> DEFINE M == {}
             S == {x \in Clients : Missed(x, M)}
  <1>2. Unsure(S) /\ net' = ((net \ {d}) \cup copy) \cup Travels(M)
    BY Zenon DEF ServerDrops, Sends
  <1>3. UNCHANGED <<state, attempt, view, deaf>>
    BY DEF clientVars
  <1>4. d.to # c /\ \A m \in M : m.to # c
    BY <1>1
  <1> HIDE DEF M, S
  <1>5. NewsTo(c)' = NewsTo(c)
    BY <1>1, <1>2, <1>4, DeliverNews, Zenon
  <1>6. NewsKept(c)
    BY <1>5, SameNewsKept
  <1>7. state'[c] # "down" /\ ~unsure'[c] => state[c] # "down" /\ ~unsure[c]
    BY <1>2, <1>3, UnsureGrows, Zenon
  <1>8. TableKept
    BY DEF ServerDrops, serverVars, TableKept
  <1> QED
    BY <1>1, <1>2, <1>3, <1>6, <1>7, <1>8, StaysAware, KeepsOrderly, Zenon

\* An address is added to the table.
LEMMA JoinMembers ==
  ASSUME TypeOK, NEW x \in Clients, x \notin Members, NEW v \in Vips, v \notin AddressesOf(Members),
         peers' = [peers EXCEPT ![x] = v], Distinct
  PROVE  /\ Members' = Members \cup {x}
         /\ Others(x)' = AddressesOf(Members)
         /\ \A c \in Clients \ {x} : Others(c)' = Others(c) \cup {v}
         /\ Distinct'
  <1>1. \A c \in Clients : peers'[c] = IF c = x THEN v ELSE peers[c]
    BY DEF TypeOK
  <1>2. v # None
    BY TunDAssumption
  <1>3. Members' = Members \cup {x}
    BY <1>1, <1>2 DEF Members
  <1>4. x \notin Members /\ Members \subseteq Clients
    BY DEF Members
  <1>5. Others(x)' = AddressesOf(Members)
    <2>1. Members' \ {x} = Members
      BY <1>3, <1>4
    <2>2. Others(x)' = {peers'[c] : c \in Members}
      BY <2>1 DEF Others, AddressesOf
    <2>3. \A c \in Members : peers'[c] = peers[c]
      BY <1>1, <1>4
    <2> QED
      BY <2>2, <2>3 DEF AddressesOf
  <1>6. ASSUME NEW c \in Clients \ {x} PROVE Others(c)' = Others(c) \cup {v}
    <2>1. Members' \ {c} = (Members \ {c}) \cup {x}
      BY <1>3
    <2>2. Others(c)' = {peers'[y] : y \in (Members \ {c}) \cup {x}}
      BY <2>1 DEF Others, AddressesOf
    <2>3. peers'[x] = v /\ \A y \in Members \ {c} : peers'[y] = peers[y]
      BY <1>1, <1>4
    <2> QED
      BY <2>2, <2>3 DEF Others, AddressesOf
  <1>7. Distinct'
    <2> SUFFICES ASSUME NEW a \in Members', NEW b \in Members', peers'[a] = peers'[b] PROVE a = b
      BY DEF Distinct
    <2>1. \A y \in Members : peers[y] # v
      BY DEF AddressesOf
    <2>2. (a = x \/ a \in Members) /\ (b = x \/ b \in Members)
      BY <1>3
    <2> QED
      BY <2>1, <2>2, <1>1, <1>4 DEF Distinct
  <1> QED
    BY <1>3, <1>5, <1>6, <1>7

\* server_handle_register, unknown endpoint, seen by the newcomer: a client
\* whose list is on its way and that has had no news before.
LEMMA NewcomerTold ==
  ASSUME NEW x \in Clients, NEW l \in Datagram, NewsTo(x)' = {l}, ~l.stale, l.type = "PEER_LIST",
         l.about = Others(x)', view'[x] = {}
  PROVE  Told(x)'
  <1>1. \A w : Comes(x, w)' <=> w \in Others(x)'
    BY Zenon DEF Comes
  <1>2. \A w : ~Goes(x, w)'
    BY DEF Goes
  <1> QED
    BY <1>1, <1>2, Zenon DEF Told

\* The same, seen by a member: a join is added to what is on its way.
LEMMA MemberTold ==
  ASSUME NEW c \in Clients, NEW v, NEW j, NewsTo(c)' = NewsTo(c) \cup {j}, ~j.stale,
         j.type = "PEER_JOIN", j.about = {v}, ~Goes(c, v), view'[c] = view[c],
         Others(c)' = Others(c) \cup {v}, leaves' = leaves, Told(c)
  PROVE  Told(c)'
  <1>1. ASSUME NEW w PROVE Comes(c, w)' <=> Comes(c, w) \/ w = v
    <2>1. Comes(c, w)' => Comes(c, w) \/ w = v
      BY Zenon DEF Comes
    <2>2. Comes(c, w) => Comes(c, w)'
      BY Zenon DEF Comes
    <2>3. w = v => Comes(c, w)'
      <3>1. j.type # "PEER_LEAVE"
        OBVIOUS
      <3> QED
        BY <3>1, Zenon DEF Comes
    <2> QED
      BY <2>1, <2>2, <2>3, Zenon
  <1>2. ASSUME NEW w PROVE Goes(c, w)' <=> Goes(c, w)
    <2>1. j.type # "PEER_LEAVE"
      OBVIOUS
    <2> QED
      BY <2>1, Zenon DEF Goes
  <1> SUFFICES ASSUME NEW w \in Vips
               PROVE  /\ Comes(c, w)' => w \in Others(c)' \/ Due(c, w)'
                      /\ Goes(c, w)' => w \notin Others(c)'
                      /\ ~Comes(c, w)' /\ ~Goes(c, w)' =>
                           /\ w \in Others(c)' => w \in view'[c]
                           /\ w \in view'[c] => w \in Others(c)' \/ Due(c, w)'
    BY Zenon DEF Told
  <1>3. /\ Comes(c, w) => w \in Others(c) \/ Due(c, w)
        /\ Goes(c, w) => w \notin Others(c)
        /\ ~Comes(c, w) /\ ~Goes(c, w) => /\ w \in Others(c) => w \in view[c]
                                          /\ w \in view[c] => w \in Others(c) \/ Due(c, w)
    BY Zenon DEF Told
  <1>4. Comes(c, w)' <=> Comes(c, w) \/ w = v
    BY <1>1
  <1>5. Goes(c, w)' <=> Goes(c, w)
    BY <1>2
  <1>6. Goes(c, w) => w # v
    BY Zenon
  <1>7. w \in Others(c)' <=> w \in Others(c) \/ w = v
    BY Zenon
  <1>8. Due(c, w)' <=> Due(c, w)
    BY Zenon DEF Due, LeavesTo
  <1> QED
    BY <1>3, <1>4, <1>5, <1>6, <1>7, <1>8, Zenon

\* server_handle_register, unknown endpoint
LEMMA NewView ==
  ASSUME ViewIInv, NEW d \in net, NEW copy \in Copies(d), d.to = Hub,
         UNCHANGED clientVars, RegisterNew(d, copy), NEW c \in Clients
  PROVE  Orderly(c)' /\ Aware(c)' /\ Distinct'
  <1>1. /\ d \in Datagram /\ TypeOK /\ Orderly(c) /\ Aware(c) /\ c # Hub /\ Distinct
        /\ net \subseteq Datagram
    BY Zenon, TunDAssumption DEF ViewIInv, TypeOK
  <1> DEFINE x == d.from
  <1>2. x \in Clients /\ x \notin Members
    BY <1>1 DEF RegisterNew, Datagram
  <1> DEFINE L == Message(Hub, x, "PEER_LIST", AddressesOf(Members))
             J(v, y) == Message(Hub, y, "PEER_JOIN", {v})
             M(v) == {Message(Hub, x, "ASSIGN", {v}), L} \cup {J(v, y) : y \in Members}
             N == NewWindow(x, Hub, net \ {d}) \cup copy
  <1>3. PICK v \in Vips : /\ IsLowest(v, FreeVips)
                          /\ peers' = [peers EXCEPT ![x] = v]
                          /\ Sends(M(v), N)
    BY Zenon DEF RegisterNew
  <1>4. v \notin AddressesOf(Members)
    BY <1>3 DEF IsLowest, FreeVips
  <1>5. /\ Members' = Members \cup {x}
        /\ Others(x)' = AddressesOf(Members)
        /\ \A y \in Clients \ {x} : Others(y)' = Others(y) \cup {v}
        /\ Distinct'
    BY Zenon, <1>1, <1>2, <1>3, <1>4, JoinMembers
  <1> DEFINE S == {y \in Clients : Missed(y, M(v))}
  <1>6. Unsure(S) /\ net' = N \cup Travels(M(v))
    BY <1>3, Zenon DEF Sends
  <1>7. UNCHANGED <<state, attempt, view, deaf>>
    BY DEF clientVars
  <1>15. leaves' = leaves
    BY Zenon DEF RegisterNew
  <1>8. Orderly(c)'
    BY <1>1, <1>6, <1>7, KeepsOrderly, Zenon
  <1>9. ASSUME NEW m, m.to = c PROVE m \in N <=> m \in net
    <2>1. m \in copy => m.to = Hub
      <3>1. ASSUME m \in copy PROVE m.to = d.to
        BY <1>1, <3>1, CopyFields, Zenon
      <3> QED
        BY <3>1
    <2>2. m \notin copy /\ m # d
      BY <1>1, <1>9, <2>1
    <2>3. m \in NewWindow(x, Hub, net \ {d}) <=> m \in net \ {d}
      <3>1. net \ {d} \in SUBSET Datagram /\ m.to # Hub
        BY <1>1, <1>9
      <3> QED
        BY <3>1, NewWindowOthers
    <2> QED
      BY <2>2, <2>3
  <1>10. ASSUME NEW m \in M(v), m.to = c, m.type \in News
         PROVE  (m = L /\ c = x) \/ (m = J(v, c) /\ c \in Members)
    <2>1. CASE m = Message(Hub, x, "ASSIGN", {v})
      <3>1. m.type = "ASSIGN"
        BY Zenon, <2>1 DEF Message
      <3> QED
        BY <3>1, <1>10 DEF News
    <2>2. CASE m = L
      <3>1. L.to = x
        BY Zenon DEF Message
      <3>2. m.to = L.to
        BY <2>2, Zenon
      <3> HIDE DEF L, M, x
      <3>3. c = x
        BY <3>1, <3>2, <1>10, Zenon
      <3> QED
        BY <2>2, <3>3, Zenon
    <2>3. CASE m \in {J(v, y) : y \in Members}
      <3>1. PICK y \in Members : m = J(v, y)
        BY <2>3
      <3>2. m.to = y
        BY Zenon, <3>1 DEF Message
      <3> QED
        BY <3>1, <3>2, <1>10
    <2> QED
      BY <2>1, <2>2, <2>3
  <1> SUFFICES ASSUME state'[c] # "down", ~unsure'[c]
               PROVE  /\ c \in Members' => Told(c)'
                      /\ c \notin Members' => Untold(c)'
    BY <1>5, <1>8, Zenon DEF Aware
  <1>11. state[c] # "down" /\ ~unsure[c] /\ ~Missed(c, M(v)) /\ view'[c] = view[c] /\ ~deaf[c]
    <2> HIDE DEF M, S
    <2>1. ~unsure[c] /\ c \notin S
      BY <1>6, UnsureGrows, Zenon
    <2>2. ~Missed(c, M(v))
      BY <2>1, Zenon DEF S
    <2> QED
      BY <2>1, <2>2, <1>1, <1>7, Zenon DEF Orderly
  <1>12. CASE c = x
    <2>1. L \in M(v) /\ L.to = c /\ L.from = Hub /\ L.type = "PEER_LIST" /\ L.about = AddressesOf(Members)
          /\ L.stale = deaf[x]
      BY Zenon, <1>12 DEF Message
    <2>2. L.type \in News
      BY <2>1 DEF News
    <2>3. c \notin cut
      BY <2>1, <2>2, <1>11, Zenon DEF Missed
    <2>4. L \in net'
      <3>1. EndpointOf(L) = c
        BY <2>1 DEF EndpointOf
      <3> QED
        BY Zenon, <2>1, <2>3, <3>1, <1>6 DEF Travels
    <2>5. view[c] = {} /\ NewsTo(c) = {}
      BY <1>1, <1>2, <1>11, <1>12, Zenon DEF Aware, Untold
    <2>6. NewsTo(c)' = {L}
      <3>1. ASSUME NEW m \in NewsTo(c)' PROVE m = L
        <4>1. m \in net' /\ m.to = c /\ m.type \in News
          BY DEF NewsTo
        <4>2. m \notin N
          BY Zenon, <4>1, <1>9, <2>5 DEF NewsTo
        <4>3. m \in M(v)
          BY <4>1, <4>2, <1>6, Zenon DEF Travels
        <4> QED
          BY ZenonT(60), <4>1, <4>3, <1>2, <1>10, <1>12
      <3>2. L \in NewsTo(c)'
        BY <2>1, <2>2, <2>4 DEF NewsTo
      <3> QED
        BY <3>1, <3>2, Zenon
    <2>7. L \in Datagram
      BY Zenon, <1>1, <1>2, MessageType, AddressesType DEF Types, News
    <2>8. Told(c)'
      <3>1. ~L.stale
        BY <2>1, <1>11, <1>12
      <3> QED
        BY ZenonT(60), <2>1, <2>5, <2>6, <2>7, <3>1, <1>5, <1>11, <1>12, NewcomerTold
    <2> QED
      BY <2>8, <1>5, <1>12
  <1>13. CASE c \in Members
    <2>1. J(v, c) \in M(v) /\ J(v, c).to = c /\ J(v, c).from = Hub /\ J(v, c).type = "PEER_JOIN"
          /\ J(v, c).about = {v} /\ J(v, c).stale = deaf[c]
      BY Zenon, <1>13 DEF Message
    <2>2. J(v, c).type \in News
      BY <2>1 DEF News
    <2>3. c \notin cut
      BY <2>1, <2>2, <1>11, Zenon DEF Missed
    <2>4. J(v, c) \in net'
      <3>1. EndpointOf(J(v, c)) = c
        BY <2>1 DEF EndpointOf
      <3> QED
        BY Zenon, <2>1, <2>3, <3>1, <1>6 DEF Travels
    <2>5. NewsTo(c)' = NewsTo(c) \cup {J(v, c)}
      <3>1. ASSUME NEW m \in NewsTo(c)' PROVE m \in NewsTo(c) \/ m = J(v, c)
        <4>1. m \in net' /\ m.to = c /\ m.type \in News
          BY DEF NewsTo
        <4>2. m \in N => m \in NewsTo(c)
          BY <4>1, <1>9 DEF NewsTo
        <4>3. m \in M(v) => m = J(v, c)
          BY ZenonT(60), <4>1, <1>2, <1>10, <1>13
        <4> QED
          BY <4>1, <4>2, <4>3, <1>6, Zenon DEF Travels
      <3>2. J(v, c) \in NewsTo(c)'
        BY <2>1, <2>2, <2>4 DEF NewsTo
      <3>3. ASSUME NEW m \in NewsTo(c) PROVE m \in NewsTo(c)'
        BY Zenon, <1>6, <1>9 DEF NewsTo
      <3> QED
        BY <3>1, <3>2, <3>3, Zenon
    <2>6. ~Goes(c, v)
      <3> SUFFICES ASSUME NEW n \in NewsTo(c), n.type = "PEER_LEAVE", v \in n.about PROVE FALSE
        BY Zenon DEF Goes
      <3>1. n \in net /\ n.to = c /\ n.type \in News
        BY DEF NewsTo
      <3>2. (n.type = "PEER_LEAVE") # (J(v, c).type = "PEER_LEAVE") /\ n.about \cap J(v, c).about # {}
        BY Zenon, <2>1
      <3> QED
        BY <2>1, <2>2, <3>1, <3>2, <1>11, Zenon DEF Missed
    <2>7. Told(c)
      BY <1>1, <1>11, <1>13, Zenon DEF Aware
    <2>8. Told(c)'
      <3>1. ~J(v, c).stale
        BY <2>1, <1>11
      <3>2. c # x
        BY <1>2, <1>13
      <3>3. Others(c)' = Others(c) \cup {v}
        BY <3>2, <1>5
      <3> HIDE DEF J
      <3> QED
        BY ZenonT(60), <2>1, <2>5, <2>6, <2>7, <3>1, <3>3, <1>11, <1>15, MemberTold
    <2> QED
      BY <2>8, <1>5, <1>13
  <1>14. CASE c # x /\ c \notin Members
    <2>1. view[c] = {} /\ NewsTo(c) = {} /\ LeavesTo(c) = {}
      BY <1>1, <1>11, <1>14, Zenon DEF Aware, Untold
    <2>2. NewsTo(c)' = {}
      <3> SUFFICES ASSUME NEW m \in NewsTo(c)' PROVE FALSE
        BY Zenon
      <3>1. m \in net' /\ m.to = c /\ m.type \in News
        BY DEF NewsTo
      <3>2. m \notin N
        BY Zenon, <3>1, <1>9, <2>1 DEF NewsTo
      <3>3. m \in M(v)
        BY <3>1, <3>2, <1>6, Zenon DEF Travels
      <3> QED
        BY <3>1, <3>3, <1>10, <1>14
    <2>3. Untold(c)'
      BY Zenon, <2>1, <2>2, <1>11, <1>15 DEF Untold, LeavesTo
    <2> QED
      BY ZenonT(60), <2>3, <1>5, <1>14
  <1> QED
    BY <1>12, <1>13, <1>14, Zenon

\* The members of S leave the table.
LEMMA LeaveMembers ==
  ASSUME TypeOK, Distinct, NEW S \in SUBSET Members,
         \A c \in Clients : peers'[c] = IF c \in S THEN None ELSE peers[c]
  PROVE  /\ Members' = Members \ S
         /\ \A c \in Clients \ S : Others(c)' = Others(c) \ AddressesOf(S)
         /\ Distinct'
  <1>1. Members \subseteq Clients
    BY DEF Members
  <1>2. Members' = Members \ S
    BY DEF Members
  <1>3. ASSUME NEW c \in Clients \ S PROVE Others(c)' = Others(c) \ AddressesOf(S)
    <2>1. Others(c)' = {peers'[y] : y \in (Members \ S) \ {c}}
      BY <1>2 DEF Others, AddressesOf
    <2>2. \A y \in Members \ S : peers'[y] = peers[y]
      BY <1>1
    <2>3. Others(c)' = {peers[y] : y \in (Members \ S) \ {c}}
      BY <2>1, <2>2
    <2>4. ASSUME NEW y \in Members \ S, NEW z \in S PROVE peers[y] # peers[z]
      BY <2>4 DEF Distinct
    <2>5. ASSUME NEW w \in Others(c)' PROVE w \in Others(c) \ AddressesOf(S)
      BY <2>3, <2>4 DEF Others, AddressesOf
    <2>6. ASSUME NEW w \in Others(c) \ AddressesOf(S) PROVE w \in Others(c)'
      BY <2>3 DEF Others, AddressesOf
    <2> QED
      BY <2>5, <2>6, Zenon
  <1>4. Distinct'
    BY <1>1, <1>2 DEF Distinct
  <1> QED
    BY <1>2, <1>3, <1>4

\* Every remaining member is to be told of every one who leaves.
LEMMA InParting ==
  ASSUME NEW S, NEW c \in Members \ S, NEW x \in S
  PROVE  [to |-> c, vip |-> peers[x]] \in Parting(S)
  <1> DEFINE G(a, b) == [to |-> a, vip |-> peers[b]]
  <1>1. Parting(S) = {G(a, b) : a \in Members \ S, b \in S}
    BY DEF Parting
  <1> HIDE DEF G
  <1>2. G(c, x) \in {G(a, b) : a \in Members \ S, b \in S}
    OBVIOUS
  <1>3. G(c, x) \in Parting(S)
    BY <1>1, <1>2
  <1> QED
    BY <1>3 DEF G

\* ... and nobody else of anybody else.
LEMMA OfParting ==
  ASSUME NEW S, NEW l \in Parting(S)
  PROVE  l.to \in Members \ S /\ \E x \in S : l.vip = peers[x]
  BY DEF Parting

\* Each who stays is told of each who goes.
LEMMA InFarewells ==
  ASSUME NEW S, NEW c \in Members \ S, NEW x \in S
  PROVE  Message(Hub, c, "PEER_LEAVE", {peers[x]}) \in Farewells(S)
  <1> DEFINE l == [to |-> c, vip |-> peers[x]]
  <1>1. l \in Parting(S)
    BY InParting
  <1>2. l.to = c /\ l.vip = peers[x]
    OBVIOUS
  <1> HIDE DEF l
  <1>3. Farewell(l) \in Farewells(S)
    BY Zenon, <1>1 DEF Farewells
  <1> QED
    BY Zenon, <1>2, <1>3 DEF Farewell

\* What a member is told of those who leave
LEMMA FarewellTold ==
  ASSUME NEW c \in Clients, NEW R,
         \A m \in NewsTo(c)' :
           \/ \E n \in NewsTo(c) : n.type = m.type /\ n.about = m.about /\ (n.stale => m.stale)
           \/ m.type = "PEER_LEAVE" /\ m.about \subseteq R,
         \A n \in NewsTo(c) : ~n.stale => \E m \in NewsTo(c)' :
           m.type = n.type /\ m.about = n.about /\ ~m.stale,
         \A w \in R : \E m \in NewsTo(c)' : m.type = "PEER_LEAVE" /\ w \in m.about /\ ~m.stale,
         \A w \in R : ~Comes(c, w),
         view'[c] = view[c], Others(c)' = Others(c) \ R, leaves' = leaves, Told(c)
  PROVE  Told(c)'
  <1> SUFFICES ASSUME NEW w \in Vips
               PROVE  /\ Comes(c, w)' => w \in Others(c)' \/ Due(c, w)'
                      /\ Goes(c, w)' => w \notin Others(c)'
                      /\ ~Comes(c, w)' /\ ~Goes(c, w)' =>
                           /\ w \in Others(c)' => w \in view'[c]
                           /\ w \in view'[c] => w \in Others(c)' \/ Due(c, w)'
    BY Zenon DEF Told
  <1>1. /\ Comes(c, w) => w \in Others(c) \/ Due(c, w)
        /\ Goes(c, w) => w \notin Others(c)
        /\ ~Comes(c, w) /\ ~Goes(c, w) => /\ w \in Others(c) => w \in view[c]
                                          /\ w \in view[c] => w \in Others(c) \/ Due(c, w)
    BY Zenon DEF Told
  <1>2. ASSUME NEW m \in NewsTo(c)', ~m.stale, w \in m.about
        PROVE  \/ \E n \in NewsTo(c) : n.type = m.type /\ ~n.stale /\ w \in n.about
               \/ m.type = "PEER_LEAVE" /\ w \in R
    BY <1>2, Zenon
  <1>3. ASSUME NEW n \in NewsTo(c), ~n.stale, w \in n.about
        PROVE  \E m \in NewsTo(c)' : m.type = n.type /\ ~m.stale /\ w \in m.about
    <2>1. PICK m \in NewsTo(c)' : m.type = n.type /\ m.about = n.about /\ ~m.stale
      BY <1>3, Zenon
    <2> QED
      BY <1>3, <2>1, Zenon
  <1>4. Comes(c, w)' <=> Comes(c, w)
    <2>1. Comes(c, w)' => Comes(c, w)
      BY <1>2, Zenon DEF Comes
    <2>2. Comes(c, w) => Comes(c, w)'
      BY <1>3, Zenon DEF Comes
    <2> QED
      BY <2>1, <2>2, Zenon
  <1>5. Goes(c, w)' <=> Goes(c, w) \/ w \in R
    <2>1. Goes(c, w)' => Goes(c, w) \/ w \in R
      BY <1>2, ZenonT(60) DEF Goes
    <2>2. Goes(c, w) => Goes(c, w)'
      BY <1>3, Zenon DEF Goes
    <2>3. w \in R => Goes(c, w)'
      BY Zenon DEF Goes
    <2> QED
      BY <2>1, <2>2, <2>3, Zenon
  <1>6. w \in Others(c)' <=> w \in Others(c) /\ w \notin R
    BY Zenon
  <1>7. Comes(c, w) => w \notin R
    BY Zenon
  <1>8. Due(c, w)' <=> Due(c, w)
    BY Zenon DEF Due, LeavesTo
  <1> QED
    BY <1>1, <1>4, <1>5, <1>6, <1>7, <1>8, Zenon

\* The members of S leave and the others are told at once, while N stays in
\* flight.
LEMMA FarewellView ==
  ASSUME ViewIInv, NEW S \in SUBSET Members,
         \A y \in Clients : peers'[y] = IF y \in S THEN None ELSE peers[y],
         NEW N, net' = N \cup Travels(Farewells(S)), leaves' = leaves,
         Unsure(S \cup {y \in Clients : Missed(y, Farewells(S))}),
         NEW c \in Clients,
         \A m \in N : m.to = c /\ m.type \in News => \E n \in NewsTo(c) :
           n.type = m.type /\ n.about = m.about /\ (n.stale => m.stale),
         \A n \in NewsTo(c) : ~n.stale => \E m \in N :
           m.to = c /\ m.type = n.type /\ m.about = n.about /\ ~m.stale,
         state'[c] # "down" => state[c] # "down" /\ view'[c] = view[c]
  PROVE  Aware(c)'
  <1>1. TypeOK /\ Orderly(c) /\ Aware(c) /\ Distinct /\ c # Hub
    BY TunDAssumption DEF ViewIInv
  <1>2. /\ Members' = Members \ S
        /\ c \notin S => Others(c)' = Others(c) \ AddressesOf(S)
    BY <1>1, LeaveMembers, Zenon
  <1> DEFINE U == S \cup {y \in Clients : Missed(y, Farewells(S))}
  <1>3. Unsure(U) /\ net' = N \cup Travels(Farewells(S))
    BY Zenon
  <1> SUFFICES ASSUME state'[c] # "down", ~unsure'[c]
               PROVE  /\ c \in Members' => Told(c)'
                      /\ c \notin Members' => Untold(c)'
    BY Zenon DEF Aware
  <1>4. state[c] # "down" /\ view'[c] = view[c] /\ ~unsure[c] /\ c \notin S
        /\ ~Missed(c, Farewells(S)) /\ ~deaf[c]
    <2> HIDE DEF U
    <2>1. ~unsure[c] /\ c \notin U
      BY <1>3, UnsureGrows, Zenon
    <2>2. c \notin S /\ ~Missed(c, Farewells(S))
      BY <2>1, Zenon DEF U
    <2> QED
      BY <2>1, <2>2, <1>1, Zenon DEF Orderly
  <1>5. ASSUME NEW m \in Farewells(S), m.to = c
        PROVE  c \in Members /\ \E x \in S : m = Message(Hub, c, "PEER_LEAVE", {peers[x]})
    <2>1. PICK l \in Parting(S) : m = Message(Hub, l.to, "PEER_LEAVE", {l.vip})
      BY Zenon DEF Farewells, Farewell
    <2>2. m.to = l.to
      BY Zenon, <2>1 DEF Message
    <2>3. l.to \in Members \ S /\ \E x \in S : l.vip = peers[x]
      BY OfParting
    <2> QED
      BY <2>1, <2>2, <2>3, <1>5, ZenonT(60)
  <1>6. CASE c \in Members
    <2> DEFINE F(x) == Message(Hub, c, "PEER_LEAVE", {peers[x]})
    <2>1. ASSUME NEW x \in S
          PROVE  /\ F(x) \in Farewells(S) /\ F(x).to = c /\ F(x).from = Hub /\ F(x).type = "PEER_LEAVE"
                 /\ F(x).about = {peers[x]} /\ F(x).stale = deaf[c]
      <3>1. F(x) \in Farewells(S)
        BY <1>4, <1>6, InFarewells
      <3> QED
        BY Zenon, <3>1 DEF Message
    <2> HIDE DEF F
    <2>2. "PEER_LEAVE" \in News
      BY Zenon DEF News
    <2>3. ASSUME NEW x \in S PROVE F(x) \in NewsTo(c)'
      <3>0. F(x) \in Farewells(S) /\ F(x).to = c /\ F(x).from = Hub /\ F(x).type \in News
        BY <2>1, <2>2
      <3>1. c \notin cut
        BY <3>0, <1>4, Zenon DEF Missed
      <3>2. EndpointOf(F(x)) = c
        BY <3>0, Zenon DEF EndpointOf
      <3>3. F(x) \in Travels(Farewells(S))
        BY <3>0, <3>1, <3>2, InTravels
      <3>4. F(x) \in net'
        BY <3>3, <1>3, Zenon
      <3> QED
        BY Zenon, <3>0, <3>4 DEF NewsTo
    <2>4. ASSUME NEW m \in NewsTo(c)'
          PROVE  \/ \E n \in NewsTo(c) : n.type = m.type /\ n.about = m.about /\ (n.stale => m.stale)
                 \/ m.type = "PEER_LEAVE" /\ m.about \subseteq AddressesOf(S)
      <3>1. m \in net' /\ m.to = c /\ m.type \in News
        BY Zenon DEF NewsTo
      <3>2. CASE m \in N
        BY <3>1, <3>2, Zenon
      <3>3. CASE m \in Farewells(S)
        <4>1. PICK x \in S : m = F(x)
          BY <3>1, <3>3, <1>5, Zenon DEF F
        <4>2. m.type = "PEER_LEAVE" /\ m.about = {peers[x]}
          BY <4>1, <2>1
        <4>3. peers[x] \in AddressesOf(S)
          BY Zenon DEF AddressesOf
        <4> QED
          BY <4>2, <4>3, ZenonT(60)
      <3> QED
        BY <3>1, <3>2, <3>3, <1>3, Zenon DEF Travels
    <2>5. ASSUME NEW n \in NewsTo(c), ~n.stale
          PROVE  \E m \in NewsTo(c)' : m.type = n.type /\ m.about = n.about /\ ~m.stale
      <3>1. PICK m \in N : m.to = c /\ m.type = n.type /\ m.about = n.about /\ ~m.stale
        BY <2>5, Zenon
      <3>2. n.type \in News
        BY Zenon DEF NewsTo
      <3>3. m \in NewsTo(c)'
        BY <3>1, <3>2, <1>3, Zenon DEF NewsTo
      <3> QED
        BY <3>1, <3>3, Zenon
    <2>6. ASSUME NEW w \in AddressesOf(S)
          PROVE  \E m \in NewsTo(c)' : m.type = "PEER_LEAVE" /\ w \in m.about /\ ~m.stale
      <3>1. PICK x \in S : w = peers[x]
        BY ZenonT(60) DEF AddressesOf
      <3>2. F(x) \in NewsTo(c)' /\ F(x).type = "PEER_LEAVE" /\ w \in F(x).about /\ ~F(x).stale
        BY <3>1, <2>1, <2>3, <1>4
      <3> QED
        BY <3>2, Zenon
    <2>7. ASSUME NEW w \in AddressesOf(S) PROVE ~Comes(c, w)
      <3> SUFFICES ASSUME NEW n \in NewsTo(c), n.type # "PEER_LEAVE", w \in n.about PROVE FALSE
        BY Zenon DEF Comes
      <3>1. PICK x \in S : w = peers[x]
        BY Zenon DEF AddressesOf
      <3>2. n \in net /\ n.to = c /\ n.type \in News
        BY Zenon DEF NewsTo
      <3>3. F(x) \in Farewells(S) /\ F(x).to = c /\ F(x).type = "PEER_LEAVE" /\ w \in F(x).about
        BY <2>1, <3>1
      <3>4. n.about \cap F(x).about # {}
        BY <3>3, Zenon
      <3>5. F(x).type \in News /\ (n.type = "PEER_LEAVE") # (F(x).type = "PEER_LEAVE")
        BY <3>3, <2>2
      <3> QED
        BY <3>2, <3>3, <3>4, <3>5, <1>4, Zenon DEF Missed
    <2>8. Told(c)
      BY <1>1, <1>4, <1>6, Zenon DEF Aware
    <2> DEFINE R == AddressesOf(S)
    <2>9. Others(c)' = Others(c) \ R
      BY <1>2, <1>4, Zenon
    <2> HIDE DEF R
    <2>10. Told(c)'
      BY <2>4, <2>5, <2>6, <2>7, <2>8, <2>9, <1>4, FarewellTold, Zenon DEF R
    <2> QED
      BY <2>10, <1>2, <1>4, <1>6, Zenon
  <1>7. CASE c \notin Members
    <2>1. view[c] = {} /\ NewsTo(c) = {} /\ LeavesTo(c) = {}
      BY <1>1, <1>4, <1>7, Zenon DEF Aware, Untold
    <2>2. NewsTo(c)' = {}
      <3> SUFFICES ASSUME NEW m \in NewsTo(c)' PROVE FALSE
        BY ZenonT(60)
      <3>1. m \in net' /\ m.to = c /\ m.type \in News
        BY Zenon DEF NewsTo
      <3>2. m \notin N
        BY <2>1, <3>1, Zenon
      <3>3. m \notin Farewells(S)
        BY <3>1, <1>5, <1>7, Zenon
      <3> QED
        BY <3>1, <3>2, <3>3, <1>3, Zenon DEF Travels
    <2>3. Untold(c)'
      BY Zenon, <2>1, <2>2, <1>4 DEF Untold, LeavesTo
    <2> QED
      BY <2>3, <1>2, <1>4, <1>7, Zenon
  <1> QED
    BY <1>6, <1>7, Zenon

\* server_handle_disconnect
LEMMA DisconnectView ==
  ASSUME ViewIInv, NEW d \in net, NEW copy \in Copies(d), d.to = Hub,
         UNCHANGED clientVars, HandleDisconnect(d, copy), NEW c \in Clients
  PROVE  Orderly(c)' /\ Aware(c)' /\ Distinct'
  <1>1. d \in Datagram /\ TypeOK /\ Orderly(c) /\ Distinct /\ c # Hub
    BY TunDAssumption DEF ViewIInv, TypeOK
  <1> DEFINE S == {d.from}
             N == (net \ {d}) \cup copy
  <1>2. S \in SUBSET Members /\ net' = N \cup Travels(Farewells(S)) /\ leaves' = leaves
    BY Zenon DEF HandleDisconnect
  <1>3. \A y \in Clients : peers'[y] = IF y \in S THEN None ELSE peers[y]
    BY <1>1 DEF HandleDisconnect, TypeOK
  <1>4. UNCHANGED <<state, attempt, view, deaf>>
    BY DEF clientVars
  <1> DEFINE U == S \cup {y \in Clients : Missed(y, Farewells(S))}
  <1>5. Unsure(U)
    BY Zenon DEF HandleDisconnect
  <1>6. Orderly(c)'
    <2> HIDE DEF U
    <2> QED
      BY <1>1, <1>4, <1>5, KeepsOrderly, Zenon
  <1>7. ASSUME NEW m \in N, m.to = c, m.type \in News
        PROVE  \E n \in NewsTo(c) : n.type = m.type /\ n.about = m.about /\ (n.stale => m.stale)
    <2>1. m \notin copy
      BY Zenon, <1>1, <1>7, CopyFields
    <2> QED
      BY <1>7, <2>1, Zenon DEF NewsTo
  <1>8. ASSUME NEW n \in NewsTo(c), ~n.stale
        PROVE  \E m \in N : m.to = c /\ m.type = n.type /\ m.about = n.about /\ ~m.stale
    <2>1. n \in N /\ n.to = c
      BY <1>1 DEF NewsTo
    <2> QED
      BY <1>8, <2>1, Zenon
  <1> HIDE DEF S, N
  <1>10. Aware(c)'
    <2>1. \A m \in N : m.to = c /\ m.type \in News => \E n \in NewsTo(c) :
            n.type = m.type /\ n.about = m.about /\ (n.stale => m.stale)
      BY <1>7, Zenon
    <2>2. \A n \in NewsTo(c) : ~n.stale => \E m \in N :
            m.to = c /\ m.type = n.type /\ m.about = n.about /\ ~m.stale
      BY <1>8, Zenon
    <2>3. state'[c] # "down" => state[c] # "down" /\ view'[c] = view[c]
      BY <1>4, Zenon
    <2> QED
      BY ZenonT(60), <1>2, <1>3, <1>5, <2>1, <2>2, <2>3, FarewellView
  <1>11. Distinct'
    BY <1>1, <1>2, <1>3, LeaveMembers, Zenon
  <1> QED
    BY <1>6, <1>10, <1>11

\* All that the server does when a packet arrives
LEMMA ServerView ==
  ASSUME ViewIInv, NEW d \in net, NEW copy \in Copies(d), ServerHandles(d, copy), NEW c \in Clients
  PROVE  Orderly(c)' /\ Aware(c)' /\ Distinct'
  <1>1. d.to = Hub /\ UNCHANGED clientVars
    BY DEF ServerHandles
  <1>2. Distinct
    BY DEF ViewIInv
  <1>3. CASE RegisterKnown(d, copy)
    <2>1. TableKept
      BY <1>3 DEF RegisterKnown, TableKept
    <2> QED
      BY <1>1, <1>2, <1>3, <2>1, KnownView, SameTable, Zenon
  <1>4. CASE RegisterNew(d, copy)
    BY <1>1, <1>4, NewView, Zenon
  <1>5. CASE HandleDisconnect(d, copy)
    BY <1>1, <1>5, DisconnectView, Zenon
  <1>6. CASE ServerDrops(d, copy)
    <2>1. TableKept
      BY <1>6 DEF ServerDrops, serverVars, TableKept
    <2> QED
      BY <1>1, <1>2, <1>6, <2>1, ServerDropsView, SameTable, Zenon
  <1> QED
    BY <1>3, <1>4, <1>5, <1>6, Zenon DEF ServerHandles
-----------------------------------------------------------------------------
(* The clients' handlers. *)

\* A packet for another client, with what that one sends to the server
LEMMA OthersHandle ==
  ASSUME ViewIInv, NEW d \in net, NEW copy \in Copies(d), NEW c \in Clients, d.to # c,
         NEW M, \A m \in M : m.to = Hub, net' = ((net \ {d}) \cup copy) \cup Travels(M),
         NEW S, Unsure(S), TableKept,
         state'[c] = state[c], view'[c] = view[c]
  PROVE  Aware(c)'
  <1>1. d \in Datagram /\ TypeOK /\ Aware(c) /\ c # Hub
    BY TunDAssumption DEF ViewIInv, TypeOK
  <1>2. \A m \in M : m.to # c
    BY <1>1, Zenon
  <1>3. NewsTo(c)' = NewsTo(c)
    BY <1>1, <1>2, DeliverNews, ZenonT(60)
  <1>4. NewsKept(c)
    BY <1>3, SameNewsKept
  <1>5. state'[c] # "down" /\ ~unsure'[c] => ~unsure[c]
    BY UnsureGrows, Zenon
  <1> QED
    BY <1>1, <1>4, <1>5, StaysAware, Zenon

\* A message that is no news keeps what its receiver knows.
LEMMA NoNewsHandled ==
  ASSUME ViewIInv, NEW d \in net, NEW copy \in Copies(d), NEW c \in Clients, d.type \notin News,
         NEW M, \A m \in M : m.to = Hub, net' = ((net \ {d}) \cup copy) \cup Travels(M),
         NEW S, Unsure(S), TableKept, state[c] # "down",
         state'[c] # "down" => view'[c] = view[c]
  PROVE  Aware(c)'
  <1>1. d \in Datagram /\ TypeOK /\ Aware(c) /\ c # Hub
    BY TunDAssumption DEF ViewIInv, TypeOK
  <1>2. \A m \in M : m.to # c
    BY <1>1, Zenon
  <1>3. NewsTo(c)' = NewsTo(c)
    BY <1>1, <1>2, DeliverNews, ZenonT(60)
  <1>4. NewsKept(c)
    BY <1>3, SameNewsKept
  <1>5. state'[c] # "down" /\ ~unsure'[c] => ~unsure[c]
    BY UnsureGrows, Zenon
  <1> QED
    BY <1>1, <1>4, <1>5, StaysAware, Zenon

\* client_handle_server_packet: news that the client takes in
LEMMA NewsTold ==
  ASSUME TypeOK, NEW d \in net, NEW copy \in Copies(d), NEW c \in Clients, d.to = c,
         d.type \in News, ~d.stale, Told(c), TableKept,
         NewsTo(c)' = (NewsTo(c) \ {d}) \cup copy,
         view'[c] = IF d.type = "PEER_LEAVE" THEN view[c] \ d.about ELSE view[c] \cup d.about
  PROVE  Told(c)'
  <1>1. d \in Datagram /\ d \in NewsTo(c)
    BY DEF TypeOK, NewsTo
  <1>2. ASSUME NEW m \in copy PROVE m.stale
    BY <1>1, CopyFields, Zenon
  <1>3. Others(c)' = Others(c) /\ (\A v : Due(c, v)' <=> Due(c, v))
    BY SameTable, Zenon
  <1> SUFFICES ASSUME NEW w \in Vips
               PROVE  /\ Comes(c, w)' => w \in Others(c)' \/ Due(c, w)'
                      /\ Goes(c, w)' => w \notin Others(c)'
                      /\ ~Comes(c, w)' /\ ~Goes(c, w)' =>
                           /\ w \in Others(c)' => w \in view'[c]
                           /\ w \in view'[c] => w \in Others(c)' \/ Due(c, w)'
    BY Zenon DEF Told
  <1>4. /\ Comes(c, w) => w \in Others(c) \/ Due(c, w)
        /\ Goes(c, w) => w \notin Others(c)
        /\ ~Comes(c, w) /\ ~Goes(c, w) => /\ w \in Others(c) => w \in view[c]
                                          /\ w \in view[c] => w \in Others(c) \/ Due(c, w)
    BY Zenon DEF Told
  <1>5. ASSUME NEW m \in NewsTo(c)', ~m.stale PROVE m \in NewsTo(c)
    BY <1>2, <1>5, Zenon
  <1>6. ASSUME NEW m \in NewsTo(c), m # d PROVE m \in NewsTo(c)'
    BY <1>6, ZenonT(60)
  <1>7. (Comes(c, w)' => Comes(c, w)) /\ (Goes(c, w)' => Goes(c, w))
    <2>1. Comes(c, w)' => Comes(c, w)
      BY <1>5, Zenon DEF Comes
    <2>2. Goes(c, w)' => Goes(c, w)
      BY <1>5, Zenon DEF Goes
    <2> QED
      BY <2>1, <2>2
  <1>8. Comes(c, w) => Comes(c, w)' \/ (d.type # "PEER_LEAVE" /\ w \in d.about)
    BY <1>6, Zenon DEF Comes
  <1>9. Goes(c, w) => Goes(c, w)' \/ (d.type = "PEER_LEAVE" /\ w \in d.about)
    BY <1>6, Zenon DEF Goes
  <1>10. CASE d.type = "PEER_LEAVE"
    <2>1. w \in d.about => Goes(c, w)
      BY <1>1, <1>10, Zenon DEF Goes
    <2>2. w \in view'[c] <=> w \in view[c] /\ w \notin d.about
      BY <1>10, Zenon
    <2> QED
      BY <1>3, <1>4, <1>7, <1>8, <1>9, <1>10, <2>1, <2>2, Zenon
  <1>11. CASE d.type # "PEER_LEAVE"
    <2>1. w \in d.about => Comes(c, w)
      BY <1>1, <1>11, Zenon DEF Comes
    <2>2. w \in view'[c] <=> w \in view[c] \/ w \in d.about
      BY <1>11, Zenon
    <2> QED
      BY <1>3, <1>4, <1>7, <1>8, <1>9, <1>11, <2>1, <2>2, Zenon
  <1> QED
    BY <1>10, <1>11, Zenon

\* client_handle_server_packet: the list, a join or a leave.
LEMMA HandleNewsView ==
  ASSUME ViewIInv, NEW d \in net, NEW copy \in Copies(d), d.to # Hub,
         HandleNews(d, copy), TableKept, NEW c \in Clients
  PROVE  Orderly(c)' /\ Aware(c)'
  <1>1. d \in Datagram /\ TypeOK /\ Orderly(c) /\ Aware(c) /\ c # Hub
    BY TunDAssumption DEF ViewIInv, TypeOK
  <1> DEFINE M == {}
             S == {x \in Clients : Missed(x, M)}
  <1>2. Unsure(S) /\ net' = ((net \ {d}) \cup copy) \cup Travels(M)
    BY Zenon DEF HandleNews, Sends
  <1>3. /\ UNCHANGED <<state, attempt, deaf>> /\ state[d.to] = "up" /\ ~d.stale /\ d.type \in News
        /\ view' = [view EXCEPT ![d.to] = IF d.type = "PEER_LEAVE" THEN @ \ d.about ELSE @ \cup d.about]
    BY DEF HandleNews
  <1>4. (\A m \in M : m.to = Hub) /\ Travels(M) = {}
    BY Zenon DEF Travels
  <1> HIDE DEF M, S
  <1>5. CASE d.to # c
    <2>1. view'[c] = view[c]
      BY ZenonT(60), <1>1, <1>3, <1>5 DEF TypeOK
    <2>2. Aware(c)'
      BY <1>2, <1>3, <1>4, <1>5, <2>1, OthersHandle
    <2> QED
      BY ZenonT(60), <2>1, <2>2, <1>1, <1>2, <1>3, KeepsOrderly
  <1>6. CASE d.to = c
    <2>1. view'[c] = IF d.type = "PEER_LEAVE" THEN view[c] \ d.about ELSE view[c] \cup d.about
      BY ZenonT(60), <1>1, <1>3, <1>6 DEF TypeOK
    <2>2. Orderly(c)'
      <3>1. deaf[c] => unsure'[c]
        BY <1>1, <1>2, <1>3, <1>6, Zenon DEF Unsure, Orderly
      <3> QED
        BY <3>1, <1>1, <1>3, <1>6, Zenon DEF Orderly
    <2>3. NewsTo(c)' = (NewsTo(c) \ {d}) \cup copy
      <3>1. ASSUME NEW m \in copy PROVE m.to = c /\ m.type \in News
        <4>1. m.to = d.to /\ m.type = d.type
          BY <1>1, CopyFields, Zenon
        <4> QED
          BY <4>1, <1>3, <1>6
      <3>2. net' = (net \ {d}) \cup copy
        BY <1>2, <1>4
      <3>3. ASSUME NEW m PROVE m \in NewsTo(c)' <=> m \in (NewsTo(c) \ {d}) \cup copy
        <4>1. m \in NewsTo(c)' <=> m \in net' /\ m.to = c /\ m.type \in News
          BY Zenon DEF NewsTo
        <4>2. m \in NewsTo(c) <=> m \in net /\ m.to = c /\ m.type \in News
          BY Zenon DEF NewsTo
        <4>3. m \in copy => m.to = c /\ m.type \in News
          BY <3>1, Zenon
        <4> QED
          BY <4>1, <4>2, <4>3, <3>2, Zenon
      <3> QED
        BY <3>3, ZenonT(60)
    <2> SUFFICES ASSUME state'[c] # "down", ~unsure'[c]
                 PROVE  /\ c \in Members' => Told(c)'
                        /\ c \notin Members' => Untold(c)'
      BY <2>2, Zenon DEF Aware
    <2>4. state[c] # "down" /\ ~unsure[c]
      BY <1>2, <1>3, UnsureGrows, Zenon
    <2>5. d \in NewsTo(c)
      BY <1>3, <1>6 DEF NewsTo
    <2>6. c \in Members /\ Told(c)
      BY <2>4, <2>5, <1>1, ZenonT(60) DEF Aware, Untold
    <2>7. Told(c)'
      BY ZenonT(60), <2>1, <2>3, <2>6, <1>1, <1>3, <1>6, NewsTold
    <2> QED
      BY <2>6, <2>7, SameTable, ZenonT(60)
  <1> QED
    BY Zenon, <1>5, <1>6

\* client_register: ASSIGN, and what client_init does next
LEMMA HandleAssignView ==
  ASSUME ViewIInv, NEW d \in net, NEW copy \in Copies(d), d.to # Hub,
         HandleAssign(d, copy), TableKept, NEW c \in Clients
  PROVE  Orderly(c)' /\ Aware(c)'
  <1>1. d \in Datagram /\ TypeOK /\ Orderly(c) /\ Aware(c) /\ c # Hub
    BY TunDAssumption DEF ViewIInv, TypeOK
  <1> DEFINE M == {}
             S == {x \in Clients : Missed(x, M)}
  <1>2. Unsure(S) /\ net' = ((net \ {d}) \cup copy) \cup Travels(M)
    BY Zenon DEF HandleAssign, Sends
  <1>3. state[d.to] = "register" /\ d.type \notin News
    BY DEF HandleAssign, News
  <1>4. \A m \in M : m.to = Hub
    BY Zenon
  <1> HIDE DEF M, S
  <1>5. CASE /\ state' = [state EXCEPT ![d.to] = "up"]
             /\ attempt' = [attempt EXCEPT ![d.to] = 0]
             /\ UNCHANGED <<view, deaf>>
    <2>1. state'[c] = (IF c = d.to THEN "up" ELSE state[c]) /\ attempt'[c] = (IF c = d.to THEN 0 ELSE attempt[c])
      BY ZenonT(60), <1>1, <1>5 DEF TypeOK
    <2>2. view'[c] = view[c] /\ deaf'[c] = deaf[c]
      BY Zenon, <1>5
    <2>3. CASE d.to # c
      BY ZenonT(60), <2>1, <2>2, <2>3, <1>1, <1>2, <1>4, OthersHandle, KeepsOrderly
    <2>4. CASE d.to = c
      <3>1. deaf[c] => unsure'[c]
        BY Zenon, <1>1, <1>2, <2>1, <2>4 DEF Unsure, Orderly
      <3>2. Orderly(c)'
        BY ZenonT(60), <3>1, <2>1, <2>2, <2>4, <1>1, <1>3 DEF Orderly
      <3> QED
        BY ZenonT(60), <3>2, <2>2, <2>4, <1>1, <1>2, <1>3, <1>4, NoNewsHandled
    <2> QED
      BY <2>3, <2>4
  <1>6. CASE End(d.to)
    <2>1. Forget({d.to})
      BY Zenon, <1>6 DEF End
    <2>2. Orderly(c)'
      BY ZenonT(60), <2>1, <1>1, <1>2, ForgetOrderly
    <2>3. CASE d.to # c
      <3>1. state'[c] = state[c] /\ view'[c] = view[c]
        BY <2>1, <2>3 DEF Forget
      <3> QED
        BY ZenonT(60), <3>1, <2>2, <2>3, <1>2, <1>4, OthersHandle
    <2>4. CASE d.to = c
      <3>1. state'[c] = "down"
        BY Zenon, <2>1, <2>4 DEF Forget
      <3> QED
        BY ZenonT(60), <3>1, <2>2, EndsAware
    <2> QED
      BY <2>3, <2>4
  <1> QED
    BY <1>5, <1>6 DEF HandleAssign

\* client_register: the turn is used up.
LEMMA NextTurnView ==
  ASSUME TypeOK, NEW x \in Clients, NEW N, NextTurn(x, N), NEW S, Unsure(S),
         state[x] = "register", NEW c \in Clients, Orderly(c)
  PROVE  /\ Orderly(c)'
         /\ state'[c] # "down" => state[c] # "down" /\ view'[c] = view[c]
         /\ c # x => state'[c] = state[c] /\ view'[c] = view[c]
         /\ \E M : net' = N \cup Travels(M) /\ \A m \in M : m.to = Hub
  <1>1. CASE /\ attempt' = [attempt EXCEPT ![x] = @ + 1]
             /\ net' = N \cup Travels({Message(x, Hub, "REGISTER", {})})
             /\ UNCHANGED <<state, virtIp, silence, view, deaf>>
    <2>1. \A m \in {Message(x, Hub, "REGISTER", {})} : m.to = Hub
      <3>1. Message(x, Hub, "REGISTER", {}).to = Hub
        BY Zenon DEF Message
      <3> QED
        BY Zenon, <3>1
    <2>2. c # x => attempt'[c] = attempt[c]
      BY <1>1 DEF TypeOK
    <2>3. deaf[c] => unsure'[c]
      BY <1>1, ZenonT(60) DEF Unsure, Orderly
    <2>4. Orderly(c)'
      BY <2>2, <2>3, <1>1 DEF Orderly
    <2> QED
      BY <1>1, <2>1, <2>4
  <1>2. CASE End(x) /\ net' = N
    <2>1. Forget({x})
      BY <1>2 DEF End
    <2>2. Orderly(c)' /\ (state'[c] # "down" => state'[c] = state[c] /\ view'[c] = view[c])
      BY Zenon, <2>1, ForgetOrderly
    <2>3. c # x => state'[c] = state[c] /\ view'[c] = view[c]
      BY <2>1 DEF Forget
    <2> DEFINE E == {}
    <2>4. net' = N \cup Travels(E) /\ \A m \in E : m.to = Hub
      BY <1>2 DEF Travels
    <2> HIDE DEF E
    <2>5. \E M : net' = N \cup Travels(M) /\ \A m \in M : m.to = Hub
      BY <2>4, Zenon
    <2> QED
      BY <2>2, <2>3, <2>5, Zenon
  <1> QED
    BY Zenon, <1>1, <1>2 DEF NextTurn

\* client_register: a message that is no ASSIGN is gone for good.
LEMMA RegisterOtherView ==
  ASSUME ViewIInv, NEW d \in net, NEW copy \in Copies(d), d.to # Hub,
         RegisterOther(d, copy), TableKept, NEW c \in Clients
  PROVE  Orderly(c)' /\ Aware(c)'
  <1>1. d \in Datagram /\ TypeOK /\ Orderly(c) /\ Aware(c) /\ c # Hub /\ d.to \in Clients
    BY TunDAssumption DEF ViewIInv, TypeOK, Datagram
  <1> DEFINE N == (net \ {d}) \cup copy
             S == IF d.type \in News THEN {d.to} ELSE {}
  <1>2. NextTurn(d.to, N) /\ Unsure(S) /\ state[d.to] = "register"
    BY Zenon DEF RegisterOther
  <1>3. /\ Orderly(c)'
        /\ state'[c] # "down" => state[c] # "down" /\ view'[c] = view[c]
        /\ c # d.to => state'[c] = state[c] /\ view'[c] = view[c]
        /\ \E M : net' = N \cup Travels(M) /\ \A m \in M : m.to = Hub
    <2> HIDE DEF N, S
    <2> QED
      BY ZenonT(60), <1>1, <1>2, NextTurnView
  <1>4. PICK M : net' = N \cup Travels(M) /\ \A m \in M : m.to = Hub
    BY Zenon, <1>3
  <1>5. CASE d.to # c
    <2> HIDE DEF S
    <2> QED
      BY ZenonT(60), <1>2, <1>3, <1>4, <1>5, OthersHandle
  <1>6. CASE d.to = c /\ d.type \notin News
    <2> HIDE DEF S
    <2> QED
      BY ZenonT(60), <1>2, <1>3, <1>4, <1>6, NoNewsHandled
  <1>7. CASE d.to = c /\ d.type \in News
    <2>1. state'[c] # "down" => unsure'[c]
      BY Zenon, <1>2, <1>7 DEF Unsure
    <2> QED
      BY SMTT(60), <2>1, <1>3 DEF Aware
  <1> QED
    BY ZenonT(60), <1>5, <1>6, <1>7

\* The server has stopped: the client ends.
LEMMA HandleStopView ==
  ASSUME ViewIInv, NEW d \in net, NEW copy \in Copies(d), d.to # Hub,
         HandleStop(d, copy), TableKept, NEW c \in Clients
  PROVE  Orderly(c)' /\ Aware(c)'
  <1>1. d \in Datagram /\ TypeOK /\ Orderly(c) /\ Aware(c) /\ c # Hub
    BY TunDAssumption DEF ViewIInv, TypeOK
  <1> DEFINE M == {Message(d.to, Hub, "DISCONNECT", {})}
             S == {x \in Clients : Missed(x, M)}
  <1>2. Unsure(S) /\ net' = ((net \ {d}) \cup copy) \cup Travels(M)
    BY Zenon DEF HandleStop, Sends
  <1>3. Forget({d.to})
    BY Zenon DEF HandleStop, End
  <1>4. \A m \in M : m.to = Hub
    <2>1. Message(d.to, Hub, "DISCONNECT", {}).to = Hub
      BY Zenon DEF Message
    <2> QED
      BY Zenon, <2>1
  <1> HIDE DEF M, S
  <1>5. Orderly(c)'
    BY Zenon, <1>1, <1>2, <1>3, ForgetOrderly
  <1>6. CASE d.to # c
    <2>1. state'[c] = state[c] /\ view'[c] = view[c]
      BY <1>3, <1>6 DEF Forget
    <2> QED
      BY Zenon, <2>1, <1>2, <1>4, <1>5, <1>6, OthersHandle
  <1>7. CASE d.to = c
    <2>1. state'[c] = "down"
      BY <1>3, <1>7 DEF Forget
    <2> QED
      BY <2>1, <1>5, EndsAware
  <1> QED
    BY <1>6, <1>7

\* An ASSIGN that comes late
LEMMA HandleUnknownView ==
  ASSUME ViewIInv, NEW d \in net, NEW copy \in Copies(d), d.to # Hub,
         HandleUnknown(d, copy), TableKept, NEW c \in Clients
  PROVE  Orderly(c)' /\ Aware(c)'
  <1>1. d \in Datagram /\ TypeOK /\ Orderly(c) /\ Aware(c) /\ c # Hub
    BY TunDAssumption DEF ViewIInv, TypeOK
  <1> DEFINE M == {}
             S == {x \in Clients : Missed(x, M)}
  <1>2. Unsure(S) /\ net' = ((net \ {d}) \cup copy) \cup Travels(M)
    BY Zenon DEF HandleUnknown, Sends
  <1>3. UNCHANGED <<state, attempt, view, deaf>> /\ state[d.to] = "up" /\ d.type \notin News
    BY Zenon DEF HandleUnknown, News
  <1>4. \A m \in M : m.to = Hub
    OBVIOUS
  <1> HIDE DEF M, S
  <1>5. Orderly(c)'
    BY ZenonT(60), <1>1, <1>2, <1>3, KeepsOrderly
  <1>6. CASE d.to # c
    BY ZenonT(60), <1>2, <1>3, <1>4, <1>5, <1>6, OthersHandle
  <1>7. CASE d.to = c
    BY ZenonT(60), <1>2, <1>3, <1>4, <1>5, <1>7, NoNewsHandled
  <1> QED
    BY <1>6, <1>7

\* A packet that the client refuses: news lost this way was a duplicate.
LEMMA ClientDropsView ==
  ASSUME ViewIInv, NEW d \in net, NEW copy \in Copies(d), d.to # Hub,
         ClientDrops(d, copy), TableKept, NEW c \in Clients
  PROVE  Orderly(c)' /\ Aware(c)'
  <1>1. d \in Datagram /\ TypeOK /\ Orderly(c) /\ Aware(c) /\ c # Hub
    BY TunDAssumption DEF ViewIInv, TypeOK
  <1> DEFINE M == {}
             S == {x \in Clients : Missed(x, M)}
  <1>2. Unsure(S) /\ net' = ((net \ {d}) \cup copy) \cup Travels(M)
    BY Zenon DEF ClientDrops, Sends
  <1>3. UNCHANGED <<state, attempt, view, deaf>> /\ (state[d.to] = "down" \/ d.stale)
    BY Zenon DEF ClientDrops, clientVars
  <1>4. (\A m \in M : m.to = Hub) /\ Travels(M) = {}
    BY DEF Travels
  <1> HIDE DEF M, S
  <1>5. Orderly(c)'
    BY ZenonT(60), <1>1, <1>2, <1>3, KeepsOrderly
  <1>6. CASE d.to # c
    BY ZenonT(60), <1>2, <1>3, <1>4, <1>5, <1>6, OthersHandle
  <1>7. CASE state[c] = "down"
    BY <1>3, <1>5, <1>7, EndsAware
  <1>8. CASE d.to = c /\ d.stale
    <2>1. ASSUME NEW m \in NewsTo(c)'
          PROVE  \E n \in NewsTo(c) : n.type = m.type /\ n.about = m.about /\ (n.stale => m.stale)
      <3>1. m \in net' /\ m.to = c /\ m.type \in News
        BY Zenon DEF NewsTo
      <3>2. CASE m \in copy
        <4>1. m.type = d.type /\ m.about = d.about /\ m.stale
          BY <1>1, <3>2, CopyFields, Zenon
        <4>2. d \in NewsTo(c)
          BY <4>1, <3>1, <1>8, Zenon DEF NewsTo
        <4> QED
          BY <4>1, <4>2, Zenon
      <3>3. CASE m \in net
        BY <3>1, <3>3, Zenon DEF NewsTo
      <3> QED
        BY <3>1, <3>2, <3>3, <1>2, <1>4, Zenon
    <2>2. ASSUME NEW n \in NewsTo(c), ~n.stale
          PROVE  \E m \in NewsTo(c)' : m.type = n.type /\ m.about = n.about /\ ~m.stale
      <3>1. n \in NewsTo(c)'
        BY <2>2, <1>2, <1>8, Zenon DEF NewsTo
      <3> QED
        BY <3>1, <2>2, Zenon
    <2>3. NewsKept(c)
      BY <2>1, <2>2, Zenon DEF NewsKept
    <2>4. state'[c] # "down" /\ ~unsure'[c] => ~unsure[c]
      BY <1>2, UnsureGrows, Zenon
    <2> QED
      BY <2>3, <2>4, <1>1, <1>3, <1>5, StaysAware, Zenon
  <1> QED
    BY ZenonT(60), <1>3, <1>6, <1>7, <1>8

\* All that a client does when a packet arrives
LEMMA ClientView ==
  ASSUME ViewIInv, NEW d \in net, NEW copy \in Copies(d), ClientHandles(d, copy), NEW c \in Clients
  PROVE  Orderly(c)' /\ Aware(c)' /\ Distinct'
  <1>1. d.to # Hub /\ TableKept /\ Distinct
    BY DEF ClientHandles, serverVars, ViewIInv, TableKept
  <1>2. Distinct'
    BY <1>1, SameTable
  <1>3. Orderly(c)' /\ Aware(c)'
    BY <1>1, HandleAssignView, RegisterOtherView, HandleNewsView, HandleStopView, HandleUnknownView,
       ClientDropsView, Zenon DEF ClientHandles
  <1> QED
    BY <1>2, <1>3
-----------------------------------------------------------------------------
(* The other steps. *)

\* c and its news are left alone, while a client talks to the server.
LEMMA AloneView ==
  ASSUME ViewIInv, NEW c \in Clients, NEW M, \A m \in M : m.to = Hub, net' = net \cup Travels(M),
         NEW S, Unsure(S), TableKept,
         state'[c] # "down" => state[c] # "down" /\ view'[c] = view[c]
  PROVE  Aware(c)'
  <1>1. Aware(c) /\ c # Hub
    BY TunDAssumption DEF ViewIInv
  <1>2. ASSUME NEW m \in NewsTo(c)' PROVE m \in NewsTo(c)
    <2>1. m \in net' /\ m.to = c /\ m.type \in News
      BY Zenon DEF NewsTo
    <2>2. m \notin M
      BY <1>1, <2>1, Zenon
    <2> QED
      BY <2>1, <2>2, Zenon DEF NewsTo, Travels
  <1>3. ASSUME NEW m \in NewsTo(c) PROVE m \in NewsTo(c)'
    BY Zenon DEF NewsTo
  <1>4. NewsKept(c)
    <2>1. NewsTo(c)' = NewsTo(c)
      BY <1>2, <1>3, Zenon
    <2> QED
      BY <2>1, SameNewsKept
  <1>5. state'[c] # "down" /\ ~unsure'[c] => ~unsure[c]
    BY UnsureGrows, Zenon
  <1> QED
    BY <1>1, <1>4, <1>5, StaysAware, ZenonT(60)

\* main, client_init: a process starts without news.
LEMMA StartView ==
  ASSUME ViewIInv, NEW x \in Clients, Start(x), NEW c \in Clients
  PROVE  Orderly(c)' /\ Aware(c)'
  <1>1. TypeOK /\ Orderly(c) /\ Aware(c) /\ c # Hub /\ net \in SUBSET Datagram
    BY TunDAssumption DEF ViewIInv, TypeOK
  <1>2. /\ state' = [state EXCEPT ![x] = "register"] /\ state[x] = "down"
        /\ unsure' = [unsure EXCEPT ![x] = \/ x \in Members \/ \E l \in leaves : l.to = x
                                         \/ \E n \in net : n.to = x /\ n.type \in News]
        /\ UNCHANGED <<attempt, view, deaf>> /\ TableKept
    BY Zenon DEF Start, serverVars, TableKept
  <1>3. PICK r : net' = NewWindow(Hub, x, net) \cup Travels({r}) /\ r.to = Hub
    <2>1. PICK below \in BOOLEAN : net' = NewWindow(Hub, x, net)
            \cup Travels({[Message(x, Hub, "REGISTER", {}) EXCEPT !.stale = below]})
      BY Zenon DEF Start
    <2>2. [Message(x, Hub, "REGISTER", {}) EXCEPT !.stale = below].to = Hub
      BY DEF Message
    <2> QED
      BY <2>1, <2>2, Zenon
  <1>4. CASE c # x
    <2>1. state'[c] = state[c] /\ unsure'[c] = unsure[c]
      <3>1. state'[c] = state[c]
        BY ZenonT(60), <1>1, <1>2, <1>4 DEF TypeOK
      <3>2. unsure'[c] = unsure[c]
        BY <1>1, <1>2, <1>4, Zenon DEF TypeOK
      <3> QED
        BY ZenonT(60), <3>1, <3>2
    <2>2. ASSUME NEW m, m.to = c PROVE m \in net' <=> m \in net
      <3>1. m # r
        BY ZenonT(60), <2>2, <1>1, <1>3
      <3>2. m \in NewWindow(Hub, x, net) <=> m \in net
        BY <2>2, <1>1, <1>4, NewWindowOthers
      <3> QED
        BY <3>1, <3>2, <1>3, Zenon DEF Travels
    <2>3. NewsTo(c)' = NewsTo(c)
      <3>1. ASSUME NEW m PROVE m \in NewsTo(c)' <=> m \in NewsTo(c)
        BY <2>2, Zenon DEF NewsTo
      <3> QED
        BY <3>1, Zenon
    <2>4. NewsKept(c)
      BY ZenonT(60), <2>3, SameNewsKept
    <2>5. Aware(c)'
      BY <2>1, <2>4, <1>1, <1>2, StaysAware, Zenon
    <2>6. Orderly(c)'
      BY <2>1, <1>1, <1>2, Zenon DEF Orderly
    <2> QED
      BY Zenon, <2>5, <2>6
  <1>5. CASE c = x
    <2>1. state'[c] = "register" /\ attempt[c] = 0 /\ view[c] = {} /\ ~deaf[c]
      BY ZenonT(60), <1>1, <1>2, <1>5 DEF TypeOK, Orderly
    <2>2. Orderly(c)'
      BY <2>1, <1>2, Zenon DEF Orderly
    <2>3. unsure'[c] <=> \/ c \in Members \/ \E l \in leaves : l.to = c
                         \/ \E n \in net : n.to = c /\ n.type \in News
      BY <1>1, <1>2, <1>5, Zenon DEF TypeOK
    <2>4. ASSUME ~unsure'[c] PROVE c \notin Members' /\ Untold(c)'
      <3>4. LeavesTo(c)' = {}
        BY <2>3, <2>4, <1>2, Zenon DEF LeavesTo, TableKept
      <3>1. c \notin Members /\ \A n \in net : ~(n.to = c /\ n.type \in News)
        BY <2>3, <2>4, Zenon
      <3>2. ASSUME NEW m \in NewsTo(c)' PROVE FALSE
        <4>1. m \in net' /\ m.to = c /\ m.type \in News
          BY Zenon DEF NewsTo
        <4>2. m # r
          BY <4>1, <1>1, <1>3
        <4>3. m \in NewWindow(Hub, x, net)
          BY <4>1, <4>2, <1>3, Zenon DEF Travels
        <4>4. PICK n \in net : m = IF n.from = Hub /\ n.to = x THEN [n EXCEPT !.stale = FALSE] ELSE n
          BY <4>3, Zenon DEF NewWindow
        <4>5. n.to = m.to /\ n.type = m.type
          BY <4>4, <1>1 DEF Datagram
        <4> QED
          BY <4>1, <4>5, <3>1
      <3>3. c \notin Members'
        BY <3>1, <1>2, SameTable, Zenon
      <3>5. Untold(c)'
        BY <2>1, <3>2, <3>4, <1>2, Zenon DEF Untold
      <3> QED
        BY <3>3, <3>5, Zenon
    <2>5. Aware(c)'
      BY <2>1, <2>4, <1>2, ZenonT(60) DEF Aware
    <2> QED
      BY Zenon, <2>2, <2>5
  <1> QED
    BY ZenonT(60), <1>4, <1>5

\* client_register: nothing arrives in time.
LEMMA TimeoutView ==
  ASSUME ViewIInv, NEW x \in Clients, RegisterTimeout(x), NEW c \in Clients
  PROVE  Orderly(c)' /\ Aware(c)'
  <1>1. TypeOK /\ Orderly(c)
    BY DEF ViewIInv
  <1> DEFINE S == {}
  <1>2. NextTurn(x, net) /\ Unsure(S) /\ state[x] = "register" /\ TableKept
    BY Zenon DEF RegisterTimeout, serverVars, TableKept
  <1> HIDE DEF S
  <1>3. /\ Orderly(c)'
        /\ state'[c] # "down" => state[c] # "down" /\ view'[c] = view[c]
        /\ \E M : net' = net \cup Travels(M) /\ \A m \in M : m.to = Hub
    BY ZenonT(60), <1>1, <1>2, NextTurnView
  <1>4. PICK M : net' = net \cup Travels(M) /\ \A m \in M : m.to = Hub
    BY Zenon, <1>3
  <1> QED
    BY Zenon, <1>2, <1>3, <1>4, AloneView

\* A process ends, with or without a DISCONNECT.
LEMMA EndView ==
  ASSUME ViewIInv, NEW x \in Clients, End(x), TableKept, NEW S, Unsure(S),
         NEW M, \A m \in M : m.to = Hub, net' = net \cup Travels(M), NEW c \in Clients
  PROVE  Orderly(c)' /\ Aware(c)'
  <1>1. TypeOK /\ Orderly(c)
    BY DEF ViewIInv
  <1>2. Forget({x})
    BY Zenon DEF End
  <1>3. Orderly(c)' /\ (state'[c] # "down" => state'[c] = state[c] /\ view'[c] = view[c])
    BY <1>1, <1>2, ForgetOrderly
  <1>4. state'[c] # "down" => state[c] # "down" /\ view'[c] = view[c]
    BY <1>3, Zenon
  <1> QED
    BY <1>3, <1>4, AloneView

\* client_shutdown: the process forgets what it knew.
LEMMA QuitView ==
  ASSUME ViewIInv, NEW x \in Clients, Quit(x), NEW c \in Clients
  PROVE  Orderly(c)' /\ Aware(c)'
  <1> DEFINE M == {Message(x, Hub, "DISCONNECT", {})}
             S == {y \in Clients : Missed(y, M)}
  <1>1. End(x) /\ TableKept /\ Unsure(S) /\ net' = net \cup Travels(M)
    BY Zenon DEF Quit, Sends, serverVars, TableKept
  <1>2. \A m \in M : m.to = Hub
    <2>1. Message(x, Hub, "DISCONNECT", {}).to = Hub
      BY Zenon DEF Message
    <2> QED
      BY Zenon, <2>1
  <1> HIDE DEF M, S
  <1> QED
    BY <1>1, <1>2, EndView

\* So does one that dies.
LEMMA CrashView ==
  ASSUME ViewIInv, NEW x \in Clients, Crash(x), NEW c \in Clients
  PROVE  Orderly(c)' /\ Aware(c)'
  <1> DEFINE M == {}
             S == {}
  <1>1. End(x) /\ TableKept /\ Unsure(S) /\ net' = net \cup Travels(M)
    BY DEF Crash, serverVars, Travels, TableKept
  <1>2. \A m \in M : m.to = Hub
    OBVIOUS
  <1> HIDE DEF M, S
  <1> QED
    BY Zenon, <1>1, <1>2, EndView

\* Nothing but the link or the clock of the history changes.
LEMMA LinkView ==
  ASSUME ViewIInv, TableKept, UNCHANGED <<state, attempt, view, deaf, net, unsure>>, NEW c \in Clients
  PROVE  Orderly(c)' /\ Aware(c)'
  <1>1. Orderly(c) /\ Aware(c)
    BY DEF ViewIInv
  <1>2. Orderly(c)'
    BY <1>1, Zenon DEF Orderly
  <1>3. NewsKept(c)
    <2>1. NewsTo(c)' = NewsTo(c)
      BY Zenon DEF NewsTo
    <2> QED
      BY <2>1, SameNewsKept
  <1> QED
    BY <1>1, <1>2, <1>3, StaysAware, Zenon

\* A new server: everybody is unsure.
LEMMA RestartView ==
  ASSUME ViewIInv, ServerRestart, NEW c \in Clients
  PROVE  Orderly(c)' /\ Aware(c)' /\ Distinct'
  <1>1. TypeOK /\ Orderly(c)
    BY Zenon DEF ViewIInv
  <1>2. UNCHANGED <<state, attempt, view>> /\ peers' = [y \in Clients |-> None]
    BY DEF ServerRestart
  <1>3. state'[c] # "down" => unsure'[c]
    BY Zenon DEF ServerRestart, Unsure
  <1>4. Aware(c)'
    BY <1>3, Zenon DEF Aware
  <1>5. PICK S \in SUBSET {y \in Faulty : state[y] = "up" \/ attempt[y] > 0} :
          deaf' = [y \in Clients |-> y \in S]
    BY Zenon DEF ServerRestart
  <1>6. deaf'[c] => state[c] # "down"
    BY <1>1, <1>5 DEF Orderly, TypeOK
  <1>7. Orderly(c)'
    BY <1>1, <1>2, <1>3, <1>6, Zenon DEF Orderly
  <1>8. Distinct'
    BY Zenon, <1>2 DEF Distinct, Members
  <1> QED
    BY ZenonT(60), <1>4, <1>7, <1>8

\* server_timeout_thread tells c that v has left: c has no other news of v on
\* its way, and v is not given away.
LEMMA LeaveTold ==
  ASSUME NEW c \in Clients, NEW v, NEW f, NewsTo(c)' = NewsTo(c) \cup {f}, ~f.stale,
         f.type = "PEER_LEAVE", f.about = {v}, ~Comes(c, v), v \notin Others(c),
         view'[c] = view[c], Others(c)' = Others(c),
         \A w : w # v => (Due(c, w)' <=> Due(c, w)), Told(c)
  PROVE  Told(c)'
  <1>1. ASSUME NEW w PROVE Comes(c, w)' <=> Comes(c, w)
    BY Zenon DEF Comes
  <1>2. ASSUME NEW w PROVE Goes(c, w)' <=> Goes(c, w) \/ w = v
    <2>1. Goes(c, w)' => Goes(c, w) \/ w = v
      BY Zenon DEF Goes
    <2>2. Goes(c, w) => Goes(c, w)'
      BY Zenon DEF Goes
    <2>3. w = v => Goes(c, w)'
      BY Zenon DEF Goes
    <2> QED
      BY <2>1, <2>2, <2>3, Zenon
  <1> SUFFICES ASSUME NEW w \in Vips
               PROVE  /\ Comes(c, w)' => w \in Others(c)' \/ Due(c, w)'
                      /\ Goes(c, w)' => w \notin Others(c)'
                      /\ ~Comes(c, w)' /\ ~Goes(c, w)' =>
                           /\ w \in Others(c)' => w \in view'[c]
                           /\ w \in view'[c] => w \in Others(c)' \/ Due(c, w)'
    BY Zenon DEF Told
  <1>3. /\ Comes(c, w) => w \in Others(c) \/ Due(c, w)
        /\ Goes(c, w) => w \notin Others(c)
        /\ ~Comes(c, w) /\ ~Goes(c, w) => /\ w \in Others(c) => w \in view[c]
                                          /\ w \in view[c] => w \in Others(c) \/ Due(c, w)
    BY Zenon DEF Told
  <1>4. CASE w = v
    BY <1>1, <1>2, <1>4, Zenon
  <1>5. CASE w # v
    <2>1. Due(c, w)' <=> Due(c, w)
      BY <1>5, Zenon
    <2> QED
      BY <1>1, <1>2, <1>3, <1>5, <2>1, Zenon
  <1> QED
    BY <1>4, <1>5, Zenon

\* server_timeout_thread sends one PEER_LEAVE of those it has to send.
LEMMA SendLeaveView ==
  ASSUME ViewIInv, NEW l \in leaves, SendLeave(l), NEW c \in Clients
  PROVE  Orderly(c)' /\ Aware(c)'
  <1>1. TypeOK /\ Orderly(c) /\ Aware(c) /\ l \in [to : Clients, vip : Vips]
    BY Zenon DEF ViewIInv, TypeOK
  <1> DEFINE F == Farewell(l)
             S == {y \in Clients : Missed(y, {F}) \/ GivenAway(y, l)}
  <1>2. /\ Unsure(S) /\ net' = net \cup Travels({F}) /\ leaves' = leaves \ {l}
        /\ peers' = peers /\ UNCHANGED <<state, attempt, view, deaf>>
    BY Zenon DEF SendLeave, clientVars
  <1>3. F.from = Hub /\ F.to = l.to /\ F.type = "PEER_LEAVE" /\ F.about = {l.vip}
    BY Zenon, FarewellSays
  <1>4. F.stale = deaf[l.to]
    BY Zenon DEF Farewell, Message
  <1> HIDE DEF F
  <1>5. Orderly(c)'
    <2> HIDE DEF S
    <2> QED
      BY Zenon, <1>1, <1>2, KeepsOrderly
  <1>6. state'[c] # "down" /\ ~unsure'[c] => state[c] # "down" /\ ~unsure[c] /\ c \notin S
    <2> HIDE DEF S
    <2> QED
      BY Zenon, <1>2, UnsureGrows
  <1>7. CASE c # l.to
    <2>1. NewsTo(c)' = NewsTo(c)
      <3>1. ASSUME NEW m PROVE m \in NewsTo(c)' <=> m \in NewsTo(c)
        BY Zenon, <1>2, <1>3, <1>7 DEF NewsTo, Travels
      <3> QED
        BY Zenon, <3>1
    <2>2. NewsKept(c)
      BY Zenon, <2>1, SameNewsKept
    <2>3. LeavesTo(c)' = LeavesTo(c)
      <3>1. ASSUME NEW k PROVE k \in LeavesTo(c)' <=> k \in LeavesTo(c)
        BY Zenon, <1>2, <1>7 DEF LeavesTo
      <3> QED
        BY Zenon, <3>1
    <2>4. Aware(c)'
      BY Zenon, <2>2, <2>3, <1>1, <1>2, <1>6, KeepsAware
    <2> QED
      BY Zenon, <1>5, <2>4
  <1>8. CASE c = l.to
    <2> SUFFICES ASSUME state'[c] # "down", ~unsure'[c]
                 PROVE  /\ c \in Members' => Told(c)'
                        /\ c \notin Members' => Untold(c)'
      BY Zenon, <1>5 DEF Aware
    <2>1. state[c] # "down" /\ ~unsure[c] /\ ~Missed(c, {F}) /\ ~GivenAway(c, l) /\ ~deaf[c]
      <3>1. state[c] # "down" /\ ~unsure[c] /\ c \notin S
        BY Zenon, <1>6
      <3>2. ~deaf[c]
        BY Zenon, <3>1, <1>1 DEF Orderly
      <3> QED
        BY Zenon, <3>1, <3>2
    <2>2. l \in LeavesTo(c)
      BY Zenon, <1>8 DEF LeavesTo
    <2>3. c \in Members /\ Told(c)
      BY Zenon, <1>1, <2>1, <2>2 DEF Aware, Untold
    <2>4. F.type \in News
      BY Zenon, <1>3 DEF News
    <2>5. c \notin cut
      BY Zenon, <2>1, <2>4, <1>3, <1>8 DEF Missed
    <2>6. F \in net'
      <3>1. EndpointOf(F) = c
        BY Zenon, <1>3, <1>8 DEF EndpointOf
      <3> QED
        BY Zenon, <3>1, <2>5, <1>2 DEF Travels
    <2>7. NewsTo(c)' = NewsTo(c) \cup {F}
      <3>1. ASSUME NEW m PROVE m \in NewsTo(c)' <=> m \in NewsTo(c) \cup {F}
        <4>1. m \in NewsTo(c)' => m \in NewsTo(c) \cup {F}
          BY Zenon, <1>2 DEF NewsTo, Travels
        <4>2. F \in NewsTo(c)'
          BY Zenon, <2>4, <2>6, <1>3, <1>8 DEF NewsTo
        <4>3. m \in NewsTo(c) => m \in NewsTo(c)'
          BY Zenon, <1>2 DEF NewsTo
        <4> QED
          BY Zenon, <4>1, <4>2, <4>3
      <3> QED
        BY Zenon, <3>1
    <2>8. ~Comes(c, l.vip)
      <3> SUFFICES ASSUME NEW n \in NewsTo(c), n.type # "PEER_LEAVE", l.vip \in n.about PROVE FALSE
        BY Zenon DEF Comes
      <3>1. n \in net /\ n.to = c /\ n.type \in News
        BY Zenon DEF NewsTo
      <3>2. (n.type = "PEER_LEAVE") # (F.type = "PEER_LEAVE") /\ n.about \cap F.about # {}
        BY Zenon, <1>3
      <3> QED
        BY Zenon, <3>1, <3>2, <2>1, <2>4, <1>3, <1>8 DEF Missed
    <2>9. l.vip \notin Others(c)
      BY Zenon, <2>1, <1>8 DEF GivenAway, Others
    <2>10. Members' = Members /\ Others(c)' = Others(c)
      BY Zenon, <1>2, SameMembers
    <2>11. ASSUME NEW w, w # l.vip PROVE Due(c, w)' <=> Due(c, w)
      <3>1. ASSUME NEW k, k # l PROVE k \in LeavesTo(c)' <=> k \in LeavesTo(c)
        BY Zenon, <1>2, <3>1 DEF LeavesTo
      <3>2. ASSUME NEW k, k.vip = w PROVE k # l
        BY Zenon, <2>11, <3>2
      <3>3. l \notin LeavesTo(c)'
        BY Zenon, <1>2 DEF LeavesTo
      <3>4. Due(c, w)' => Due(c, w)
        BY Zenon, <3>1, <3>3 DEF Due
      <3>5. Due(c, w) => Due(c, w)'
        BY Zenon, <3>1, <3>2 DEF Due
      <3> QED
        BY Zenon, <3>4, <3>5
    <2>12. ~F.stale
      BY <2>1, <1>4, <1>8
    <2>13. Told(c)'
      <3> DEFINE v == l.vip
      <3>1. /\ F.about = {v} /\ ~Comes(c, v) /\ v \notin Others(c)
            /\ \A w : w # v => (Due(c, w)' <=> Due(c, w))
        BY Zenon, <1>3, <2>8, <2>9, <2>11
      <3>2. view'[c] = view[c]
        BY Zenon, <1>2
      <3> HIDE DEF v
      <3> QED
        BY Zenon, <3>1, <3>2, <1>3, <2>3, <2>7, <2>10, <2>12, LeaveTold
    <2> QED
      BY Zenon, <2>3, <2>10, <2>13
  <1> QED
    BY Zenon, <1>7, <1>8

\* Peers are evicted: what the rest of the members knows is right but for what
\* the timeout thread has to tell them.
LEMMA EvictedTold ==
  ASSUME NEW c \in Clients, NEW R, NewsKept(c), view'[c] = view[c], Others(c)' = Others(c) \ R,
         LeavesTo(c) = {}, \A w \in R : Due(c, w)', Told(c)
  PROVE  Told(c)'
  <1> SUFFICES ASSUME NEW w \in Vips
               PROVE  /\ Comes(c, w)' => w \in Others(c)' \/ Due(c, w)'
                      /\ Goes(c, w)' => w \notin Others(c)'
                      /\ ~Comes(c, w)' /\ ~Goes(c, w)' =>
                           /\ w \in Others(c)' => w \in view'[c]
                           /\ w \in view'[c] => w \in Others(c)' \/ Due(c, w)'
    BY Zenon DEF Told
  <1>1. /\ Comes(c, w) => w \in Others(c) \/ Due(c, w)
        /\ Goes(c, w) => w \notin Others(c)
        /\ ~Comes(c, w) /\ ~Goes(c, w) => /\ w \in Others(c) => w \in view[c]
                                          /\ w \in view[c] => w \in Others(c) \/ Due(c, w)
    BY Zenon DEF Told
  <1>2. (Comes(c, w)' <=> Comes(c, w)) /\ (Goes(c, w)' <=> Goes(c, w))
    BY Zenon, KeptComes
  <1>3. ~Due(c, w)
    BY Zenon DEF Due
  <1>4. w \in Others(c)' <=> w \in Others(c) /\ w \notin R
    BY Zenon
  <1>5. w \in R => Due(c, w)'
    BY Zenon
  <1> QED
    BY <1>1, <1>2, <1>3, <1>4, <1>5, Zenon

\* An interval passes: peers are evicted, clients stop, datagrams get older.
LEMMA TickView ==
  ASSUME ViewIInv, Tick, NEW c \in Clients
  PROVE  Orderly(c)' /\ Aware(c)' /\ Distinct'
  <1>1. TypeOK /\ Orderly(c) /\ Aware(c) /\ Distinct /\ net \subseteq Datagram /\ c # Hub
    BY TunDAssumption DEF ViewIInv, TypeOK
  <1> DEFINE N == {[d EXCEPT !.age = @ + 1] : d \in net}
             M(T) == {Message(y, Hub, "DISCONNECT", {}) : y \in T}
  <1>2. PICK evicted \in Overdue(Members, quiet, PeerTicks), stopped \in Overdue(Up, silence, ServerTicks) :
          /\ peers' = [y \in Clients |-> IF y \in evicted THEN None ELSE peers[y]]
          /\ Forget(stopped)
          /\ leaves' = Parting(evicted)
          /\ net' = N \cup Travels(M(stopped))
          /\ Unsure(evicted)
    BY Zenon DEF Tick
  <1>3. evicted \in SUBSET Members
    BY DEF Overdue
  <1>4. \A y \in Clients : peers'[y] = IF y \in evicted THEN None ELSE peers[y]
    BY <1>2
  <1>5. /\ Members' = Members \ evicted
        /\ c \notin evicted => Others(c)' = Others(c) \ AddressesOf(evicted)
        /\ Distinct'
    BY <1>1, <1>3, <1>4, LeaveMembers, Zenon
  <1>6. Orderly(c)' /\ (state'[c] # "down" => state'[c] = state[c] /\ view'[c] = view[c])
    BY ZenonT(60), <1>1, <1>2, ForgetOrderly
  <1>7. ASSUME NEW m \in M(stopped) PROVE m.to = Hub
    <2>1. PICK y : m = Message(y, Hub, "DISCONNECT", {})
      OBVIOUS
    <2> QED
      BY Zenon, <2>1 DEF Message
  <1>8. ASSUME NEW n \in net
        PROVE  LET m == [n EXCEPT !.age = @ + 1] IN
               m.to = n.to /\ m.type = n.type /\ m.about = n.about /\ m.stale = n.stale
    BY <1>1 DEF Datagram
  <1>9. ASSUME NEW m \in NewsTo(c)'
        PROVE  \E n \in NewsTo(c) : n.type = m.type /\ n.about = m.about /\ (n.stale => m.stale)
    <2>0. m \in net' /\ m.to = c /\ m.type \in News
      BY Zenon DEF NewsTo
    <2>1. m \in N
      BY Zenon, <2>0, <1>1, <1>2, <1>7 DEF Travels
    <2>2. PICK n \in net : m = [n EXCEPT !.age = @ + 1]
      BY <2>1
    <2>3. m.to = n.to /\ m.type = n.type /\ m.about = n.about /\ m.stale = n.stale
      BY <1>8, <2>2
    <2>4. n \in NewsTo(c)
      BY <2>0, <2>3, Zenon DEF NewsTo
    <2> QED
      BY <2>3, <2>4, Zenon
  <1>10. ASSUME NEW n \in NewsTo(c), ~n.stale
         PROVE  \E m \in NewsTo(c)' : m.type = n.type /\ m.about = n.about /\ ~m.stale
    <2> DEFINE m == [n EXCEPT !.age = @ + 1]
    <2>1. n \in net /\ n.to = c /\ n.type \in News
      BY Zenon DEF NewsTo
    <2>2. m \in N
      BY <2>1, Zenon
    <2>3. m.to = c /\ m.type = n.type /\ m.about = n.about /\ ~m.stale
      BY ZenonT(60), <1>8, <1>10, <2>1
    <2> HIDE DEF m, N, M
    <2>4. m \in NewsTo(c)'
      BY <2>1, <2>2, <2>3, <1>2, Zenon DEF NewsTo
    <2> QED
      BY <2>3, <2>4, Zenon
  <1> HIDE DEF N, M
  <1>11. NewsKept(c)
    BY <1>9, <1>10, Zenon DEF NewsKept
  <1>12. LeavesTo(c) = {}
    BY Zenon DEF Tick, LeavesTo
  <1> SUFFICES ASSUME state'[c] # "down", ~unsure'[c]
               PROVE  /\ c \in Members' => Told(c)'
                      /\ c \notin Members' => Untold(c)'
    BY Zenon, <1>5, <1>6 DEF Aware
  <1>13. state[c] # "down" /\ view'[c] = view[c] /\ ~unsure[c] /\ c \notin evicted
    <2>1. ~unsure[c] /\ c \notin evicted
      BY <1>2, UnsureGrows, Zenon
    <2> QED
      BY <2>1, <1>6, Zenon
  <1>14. CASE c \in Members
    <2>1. Told(c)
      BY <1>1, <1>13, <1>14, Zenon DEF Aware
    <2> DEFINE R == AddressesOf(evicted)
    <2>2. ASSUME NEW w \in R PROVE Due(c, w)'
      <3>1. PICK x \in evicted : w = peers[x]
        BY Zenon DEF AddressesOf
      <3> DEFINE k == [to |-> c, vip |-> peers[x]]
      <3>2. k \in leaves'
        BY <1>2, <1>13, <1>14, InParting
      <3>3. k.to = c /\ k.vip = w
        BY <3>1
      <3> HIDE DEF k
      <3> QED
        BY Zenon, <3>2, <3>3 DEF Due, LeavesTo
    <2>3. Others(c)' = Others(c) \ R
      BY <1>5, <1>13, Zenon
    <2> HIDE DEF R
    <2>4. Told(c)'
      BY <2>1, <2>2, <2>3, <1>11, <1>12, <1>13, EvictedTold, Zenon
    <2> QED
      BY <2>4, <1>5, <1>13, <1>14, Zenon
  <1>15. CASE c \notin Members
    <2>1. view[c] = {} /\ NewsTo(c) = {}
      BY <1>1, <1>13, <1>15, Zenon DEF Aware, Untold
    <2>2. NewsTo(c)' = {}
      BY <2>1, <1>9, Zenon
    <2>3. LeavesTo(c)' = {}
      <3> SUFFICES ASSUME NEW k \in LeavesTo(c)' PROVE FALSE
        BY Zenon
      <3>1. k \in Parting(evicted) /\ k.to = c
        BY Zenon, <1>2 DEF LeavesTo
      <3> QED
        BY <3>1, <1>15, OfParting
    <2>4. Untold(c)'
      BY <2>1, <2>2, <2>3, <1>13, Zenon DEF Untold
    <2> QED
      BY <2>4, <1>5, <1>15, Zenon
  <1> QED
    BY <1>14, <1>15, Zenon

\* Nobody knows anything at the start, and nobody is registered.
LEMMA InitView == Init => ViewIInv
  <1> SUFFICES ASSUME Init PROVE ViewIInv
    OBVIOUS
  <1>1. TypeOK /\ StartTypes
    BY Zenon, TypesInit
  <1>2. Distinct
    BY Zenon DEF Init, Distinct, Members
  <1>3. \A c \in Clients : Orderly(c) /\ Aware(c)
    BY DEF Init, Orderly, Aware
  <1> QED
    BY <1>1, <1>2, <1>3 DEF ViewIInv

\* Every step keeps the invariant.
LEMMA StepView == ViewIInv /\ [Next]_vars => ViewIInv'
  <1> SUFFICES ASSUME ViewIInv, [Next]_vars PROVE ViewIInv'
    OBVIOUS
  <1>1. TypeOK /\ StartTypes /\ TypeOK' /\ StartTypes' /\ Distinct
    BY TypesStep DEF ViewIInv
  <1>2. ASSUME TableKept PROVE Distinct'
    BY <1>1, <1>2, SameTable
  <1>3. ASSUME NEW c \in Clients PROVE Orderly(c)' /\ Aware(c)' /\ Distinct'
    <2>1. ASSUME NEW d \in net, Deliver(d) PROVE Orderly(c)' /\ Aware(c)' /\ Distinct'
      <3>1. PICK copy \in Copies(d) : ServerHandles(d, copy) \/ ClientHandles(d, copy)
        BY <2>1 DEF Deliver
      <3> QED
        BY <3>1, ServerView, ClientView, Zenon
    <2>2. ASSUME NEW x \in Clients, Start(x) PROVE Orderly(c)' /\ Aware(c)' /\ Distinct'
      BY Zenon, <1>2, <2>2, StartView DEF Start, serverVars, TableKept
    <2>3. ASSUME NEW x \in Clients, RegisterTimeout(x) PROVE Orderly(c)' /\ Aware(c)' /\ Distinct'
      BY ZenonT(60), <1>2, <2>3, TimeoutView DEF RegisterTimeout, serverVars, TableKept
    <2>4. ASSUME NEW x \in Clients, Quit(x) PROVE Orderly(c)' /\ Aware(c)' /\ Distinct'
      BY ZenonT(60), <1>2, <2>4, QuitView DEF Quit, serverVars, TableKept
    <2>5. ASSUME NEW x \in Clients, Crash(x) PROVE Orderly(c)' /\ Aware(c)' /\ Distinct'
      BY ZenonT(60), <1>2, <2>5, CrashView DEF Crash, serverVars, TableKept
    <2>6. ASSUME NEW x \in Clients, Cut(x) \/ Heal(x) PROVE Orderly(c)' /\ Aware(c)' /\ Distinct'
      BY ZenonT(60), <1>2, <2>6, LinkView DEF Cut, Heal, serverVars, clientVars, TableKept
    <2>7. CASE ServerRestart
      BY <2>7, RestartView
    <2>8. CASE Tick
      BY ZenonT(60), <2>8, TickView
    <2>10. ASSUME NEW l \in leaves, SendLeave(l) PROVE Orderly(c)' /\ Aware(c)' /\ Distinct'
      <3>1. Distinct'
        BY Zenon, <1>1, <2>10, SameMembers DEF SendLeave
      <3> QED
        BY Zenon, <2>10, <3>1, SendLeaveView
    <2>9. CASE UNCHANGED vars
      BY ZenonT(60), <1>2, <2>9, LinkView DEF vars, serverVars, clientVars, TableKept
    <2> QED
      BY <2>1, <2>2, <2>3, <2>4, <2>5, <2>6, <2>7, <2>8, <2>9, <2>10, TunDAssumption,
         Zenon DEF Next, Step
  <1>4. Distinct'
    <2>1. CASE Clients = {}
      BY <2>1 DEF Distinct, Members
    <2>2. CASE Clients # {}
      BY <1>3, <2>2
    <2> QED
      BY <2>1, <2>2
  <1> QED
    BY <1>1, <1>3, <1>4 DEF ViewIInv

\* A client that is up, has missed nothing and has no news on its way, nor any
\* that the timeout thread has still to send, knows exactly the addresses of the
\* other members.
THEOREM ViewsSettle == Spec => []SettledView
  <1>1. ViewIInv => SettledView
    <2> SUFFICES ASSUME ViewIInv, NEW c \in Members, state[c] = "up", ~unsure[c],
                        ~\E d \in net : d.to = c /\ d.type \in News,
                        ~\E l \in leaves : l.to = c
                 PROVE  view[c] = AddressesOf(Members \ {c})
      BY Zenon DEF SettledView
    <2>1. c \in Clients /\ view[c] \subseteq Vips /\ TypeOK
      BY ZenonT(60) DEF Members, ViewIInv, TypeOK
    <2>2. Told(c)
      BY <2>1 DEF ViewIInv, Aware
    <2>3. NewsTo(c) = {}
      BY ZenonT(60) DEF NewsTo
    <2>6. \A v : ~Due(c, v)
      BY Zenon DEF Due, LeavesTo
    <2>4. \A v \in Vips : v \in view[c] <=> v \in Others(c)
      BY <2>2, <2>3, <2>6 DEF Told, Comes, Goes
    <2>5. Others(c) \subseteq Vips
      BY ZenonT(60), <2>1, AddressesType DEF Others
    <2> QED
      BY <2>1, <2>4, <2>5 DEF Others
  <1> QED
    BY <1>1, InitView, StepView, PTL DEF Spec

\* No two members of the server have the same address.
THEOREM MembersDiffer == Spec => []Distinct
  <1>1. ViewIInv => Distinct
    BY DEF ViewIInv
  <1> QED
    BY <1>1, InitView, StepView, PTL DEF Spec
=============================================================================
