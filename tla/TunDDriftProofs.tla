-------------------------- MODULE TunDDriftProofs ---------------------------
(***************************************************************************)
(* How long the two sides can disagree.                                    *)
(***************************************************************************)
EXTENDS TunDProofs

\* The process that has ended told the server so, and the message is on its way.
Leaving(c, n) ==
  \E d \in net : d.from = c /\ d.type = "DISCONNECT" /\ ~d.stale /\ n <= 2 + 2 * Lifetime + d.age

\* A client that refuses the numbers of a restarted server: what it still
\* accepts was on its way before the restart.
DeafBound(c, n) ==
  /\ state[c] = "register" => n <= silence[c]
  /\ state[c] = "up" => n <= Lifetime + silence[c]
  /\ c \in Members \cap cut => n <= 2 + Lifetime + quiet[c]
  /\ \A d \in net : d.to = c /\ ~d.stale => n <= d.age

\* What a process has asked for was asked for within a registration.
RequestBound(c, n) ==
  /\ \A d \in net : d.from = c /\ d.type = "REGISTER" /\ (deaf[c] \/ ~d.stale) => n <= 2 + d.age
  /\ \A d \in net : d.to = c /\ d.type = "ASSIGN" => n <= 2 + Lifetime + d.age

\* An entry that nobody answers for gets quieter, or will be told to go.
EntryBound(c, n) ==
  /\ n <= ServerTicks + 2 * Lifetime + 2 + quiet[c] \/ Leaving(c, n)
  /\ state[c] = "up" \/ (\E d \in net : d.to = c /\ d.type = "ASSIGN") =>
       n <= 2 + Lifetime + quiet[c] \/ Leaving(c, n)

\* A client that the server does not know hears less and less.
StrayBound(c, n) ==
  /\ n <= PeerTicks + 2 * Lifetime + 2 + silence[c]
  /\ \A d \in net : d.to = c => n <= PeerTicks + Lifetime + 2 + d.age

Bounds(c, n) ==
  /\ deaf[c] => DeafBound(c, n)
  /\ deaf[c] \/ c \in Members => RequestBound(c, n)
  /\ ~deaf[c] /\ c \in Members => EntryBound(c, n)
  /\ ~deaf[c] /\ c \notin Members => StrayBound(c, n)

\* The clocks stop at their limits, and the refused numbers belong to somebody.
Clocks(c) ==
  /\ c \in Members => quiet[c] <= PeerTicks
  /\ state[c] = "up" => silence[c] <= ServerTicks
  /\ state[c] = "register" => silence[c] <= 2
  /\ state[c] # "register" => attempt[c] = 0
  /\ deaf[c] => state[c] # "down" /\ ~low[c]
  /\ low[c] => c \in Members

\* A client that is to be told of a departure was a member at the last interval.
Owed(c) == \E l \in leaves : l.to = c
OwedBound(c, n) == ~deaf[c] /\ c \notin Members /\ Owed(c) => n <= PeerTicks + Lifetime + 2

DriftTypes == adrift \in [Clients -> Nat] /\ faults \in Nat

DriftIInv ==
  /\ TypeOK /\ StartTypes /\ DriftTypes
  /\ \A c \in Clients : /\ Clocks(c) /\ Bounds(c, adrift[c]) /\ OwedBound(c, adrift[c])
                        /\ ~Adrift(c) => adrift[c] = 0
-----------------------------------------------------------------------------
\* What the constants are
LEMMA Numbers ==
  /\ PeerTicks \in Nat /\ ServerTicks \in Nat /\ Lifetime \in Nat
  /\ 3 <= PeerTicks /\ 2 * Lifetime < PeerTicks /\ 1 <= ServerTicks
  BY TunDAssumption, TimingAssumption

\* What the clocks are
LEMMA ClockTypes ==
  ASSUME TypeOK, NEW c \in Clients
  PROVE  /\ quiet[c] \in Nat /\ quiet[c] + 0 = quiet[c]
         /\ silence[c] \in Nat /\ silence[c] + 0 = silence[c]
         /\ state[c] \in {"down", "register", "up"}
         /\ (\A n \in Nat : n + 0 = n) /\ 0 \in 0 .. 1 /\ 1 \in 0 .. 1
  BY DEF TypeOK

\* The same after a step
LEMMA ClockTypesNext ==
  ASSUME TypeOK', NEW c \in Clients
  PROVE  quiet'[c] \in Nat /\ silence'[c] \in Nat
  BY DEF TypeOK

\* A clock below its limit advances.
LEMMA OlderBelow ==
  ASSUME NEW n \in Nat, NEW k \in Nat, n <= k
  PROVE  Older(n, k) = n + 1
  BY DEF Older

\* How the bounds add up: q and s are clocks, a is an age.
LEMMA Sums ==
  /\ \A n, s \in Nat : n <= s /\ s <= 2 => n <= 2
  /\ \A n, a \in Nat : n <= a /\ a <= Lifetime => n <= Lifetime
  /\ \A s \in Nat : s < 2 \/ s <= ServerTicks => s <= ServerTicks
  /\ \A n, s \in Nat : n <= Lifetime + s /\ s <= ServerTicks => n + 1 <= ServerTicks + 2 * Lifetime + 2
  /\ \A n, a \in Nat : n <= 2 + 2 * Lifetime + a /\ a <= Lifetime => n <= PeerTicks + Lifetime + 2
  /\ \A n, q \in Nat : n <= 2 + Lifetime + q /\ q <= PeerTicks => n <= PeerTicks + Lifetime + 2
  /\ \A n, s \in Nat : n <= PeerTicks + Lifetime + 2 => n + 1 <= PeerTicks + 2 * Lifetime + 2 + (s + 1)
  /\ \A n, a \in Nat : n <= PeerTicks + Lifetime + 2 => n + 1 <= PeerTicks + Lifetime + 2 + (a + 1)
  BY Numbers

\* At the beginning of a disagreement every bound holds.
LEMMA ZeroBounds ==
  ASSUME TypeOK', NEW c \in Clients, NEW n \in 0 .. 1, n = 0 \/ ~deaf'[c]
  PROVE  Bounds(c, n)'
  <1>1. \A d \in net' : d.age \in Nat
    BY DEF TypeOK, Datagram
  <1>2. quiet'[c] \in Nat /\ silence'[c] \in Nat
    BY DEF TypeOK
  <1>3. n \in Nat /\ n <= 1
    OBVIOUS
  <1>4. RequestBound(c, n)'
    BY <1>1, <1>3, Numbers DEF RequestBound
  <1>5. EntryBound(c, n)'
    <2>1. n <= ServerTicks + 2 * Lifetime + 2 + quiet'[c] /\ n <= 2 + Lifetime + quiet'[c]
      BY <1>2, <1>3, Numbers
    <2> QED
      BY <2>1, Zenon DEF EntryBound
  <1>6. StrayBound(c, n)'
    BY <1>1, <1>2, <1>3, Numbers DEF StrayBound
  <1>7. n = 0 => DeafBound(c, n)'
    BY <1>1, <1>2, Numbers DEF DeafBound
  <1> QED
    BY <1>4, <1>5, <1>6, <1>7, Zenon DEF Bounds
-----------------------------------------------------------------------------
(* Steps at which nothing happens to c; k is 1 when an interval passes. *)

\* The requests of c and what comes to it were on their way, or are refused.
Delayed(c, k) ==
  /\ \A m \in net' : m.from = c /\ m.type = "REGISTER" /\ (deaf[c] \/ ~m.stale) =>
       \E x \in net : /\ x.from = c /\ x.type = "REGISTER" /\ (deaf[c] \/ ~x.stale)
                      /\ m.age = x.age + k
  /\ \A m \in net' : m.to = c =>
       \/ m.type # "ASSIGN" /\ (c \in Members \/ deaf[c]) /\ (deaf[c] => m.stale)
       \/ \E x \in net : /\ x.to = c /\ x.type = m.type /\ m.age = x.age + k
                         /\ deaf[c] /\ ~m.stale => ~x.stale
  /\ \A x \in net : c \in Members /\ x.from = c /\ x.type = "DISCONNECT" /\ ~x.stale =>
       \E m \in net' : m.from = c /\ m.type = "DISCONNECT" /\ ~m.stale /\ m.age = x.age + k

\* Requests and answers that are k intervals older allow a bound that is.
LEMMA DelayedRequests ==
  ASSUME TypeOK, TypeOK', NEW c \in Clients, NEW k \in 0 .. 1, NEW n \in Nat, Delayed(c, k),
         RequestBound(c, n), deaf'[c] => deaf[c]
  PROVE  RequestBound(c, n + k)'
  <1>1. (\A d \in net : d.age \in Nat) /\ (\A d \in net' : d.age \in Nat)
    BY DEF TypeOK, Datagram
  <1>2. ASSUME NEW m \in net', m.from = c, m.type = "REGISTER", deaf'[c] \/ ~m.stale
        PROVE  n + k <= 2 + m.age
    <2>1. PICK x \in net : /\ x.from = c /\ x.type = "REGISTER" /\ (deaf[c] \/ ~x.stale)
                           /\ m.age = x.age + k
      BY <1>2, Zenon DEF Delayed
    <2>2. n <= 2 + x.age
      BY <2>1, Zenon DEF RequestBound
    <2> QED
      BY <1>1, <2>1, <2>2
  <1>3. ASSUME NEW m \in net', m.to = c, m.type = "ASSIGN"
        PROVE  n + k <= 2 + Lifetime + m.age
    <2>1. PICK x \in net : x.to = c /\ x.type = m.type /\ m.age = x.age + k
      BY <1>3, ZenonT(60) DEF Delayed
    <2>2. n <= 2 + Lifetime + x.age
      BY <1>3, <2>1, Zenon DEF RequestBound
    <2> QED
      BY <1>1, <2>1, <2>2, Numbers
  <1> QED
    BY <1>2, <1>3, Zenon DEF RequestBound

\* So does a DISCONNECT on its way.
LEMMA DelayedLeaving ==
  ASSUME TypeOK, TypeOK', NEW c \in Clients, NEW k \in 0 .. 1, NEW n \in Nat, Delayed(c, k),
         Leaving(c, n), c \in Members
  PROVE  Leaving(c, n + k)'
  <1>1. (\A d \in net : d.age \in Nat) /\ (\A d \in net' : d.age \in Nat)
    BY DEF TypeOK, Datagram
  <1>2. PICK x \in net : x.from = c /\ x.type = "DISCONNECT" /\ ~x.stale /\ n <= 2 + 2 * Lifetime + x.age
    BY Zenon DEF Leaving
  <1>3. PICK m \in net' : m.from = c /\ m.type = "DISCONNECT" /\ ~m.stale /\ m.age = x.age + k
    BY <1>2, Zenon DEF Delayed
  <1>4. n + k <= 2 + 2 * Lifetime + m.age
    BY <1>1, <1>2, <1>3, Numbers
  <1> QED
    BY <1>3, <1>4, Zenon DEF Leaving

\* And so do the clocks: nothing happens to c, and its bounds stay.
LEMMA KeepsBounds ==
  ASSUME TypeOK, TypeOK', NEW c \in Clients, NEW k \in 0 .. 1, NEW n \in Nat,
         Bounds(c, n), Delayed(c, k),
         deaf'[c] = deaf[c], c \in cut' => c \in cut,
         c \in Members' => c \in Members, ~deaf[c] /\ c \in Members => c \in Members',
         deaf[c] => state'[c] = state[c],
         state'[c] = "up" => state[c] = "up" \/ \E d \in net : d.to = c /\ d.type = "ASSIGN",
         c \in Members' /\ (~deaf[c] \/ c \in cut) => quiet'[c] = quiet[c] + k,
         deaf[c] \/ c \notin Members => silence'[c] = silence[c] + k
  PROVE  Bounds(c, n + k)'
  <1>1. (\A d \in net : d.age \in Nat) /\ (\A d \in net' : d.age \in Nat)
    BY DEF TypeOK, Datagram
  <1>2. quiet[c] \in Nat /\ silence[c] \in Nat /\ quiet'[c] \in Nat /\ silence'[c] \in Nat
    BY DEF TypeOK
  <1>3. ASSUME deaf[c] \/ c \in Members PROVE RequestBound(c, n + k)'
    BY <1>3, DelayedRequests, Zenon DEF Bounds
  <1>4. ASSUME deaf[c] PROVE DeafBound(c, n + k)'
    <2>1. DeafBound(c, n)
      BY <1>4, Zenon DEF Bounds
    <2>2. silence'[c] = silence[c] + k /\ state'[c] = state[c]
      BY <1>4, Zenon
    <2>3. ASSUME NEW m \in net', m.to = c, ~m.stale PROVE n + k <= m.age
      <3>1. PICK x \in net : x.to = c /\ m.age = x.age + k /\ ~x.stale
        BY <1>4, <2>3, Zenon DEF Delayed
      <3>2. n <= x.age
        BY <2>1, <3>1, Zenon DEF DeafBound
      <3> QED
        BY <1>1, <3>1, <3>2
    <2>4. c \in Members' \cap cut' => n + k <= 2 + Lifetime + quiet'[c]
      <3> SUFFICES ASSUME c \in Members' \cap cut' PROVE n + k <= 2 + Lifetime + quiet'[c]
        OBVIOUS
      <3>1. c \in Members \cap cut /\ quiet'[c] = quiet[c] + k
        BY Zenon
      <3>2. n <= 2 + Lifetime + quiet[c]
        BY <2>1, <3>1, Zenon DEF DeafBound
      <3> QED
        BY <3>1, <3>2, <1>2, Numbers
    <2>5. state[c] = "register" => n + k <= silence'[c]
      BY <2>1, <2>2, <1>2 DEF DeafBound
    <2>6. state[c] = "up" => n + k <= Lifetime + silence'[c]
      BY <2>1, <2>2, <1>2, Numbers DEF DeafBound
    <2> QED
      BY <2>2, <2>3, <2>4, <2>5, <2>6, Zenon DEF DeafBound
  <1>5. ASSUME ~deaf[c], c \in Members PROVE EntryBound(c, n + k)'
    <2>1. EntryBound(c, n) /\ quiet'[c] = quiet[c] + k
      BY <1>5, Zenon DEF Bounds
    <2>2. Leaving(c, n) => Leaving(c, n + k)'
      BY <1>5, DelayedLeaving, Zenon
    <2>3. n <= ServerTicks + 2 * Lifetime + 2 + quiet[c] => n + k <= ServerTicks + 2 * Lifetime + 2 + quiet'[c]
      BY <2>1, <1>2, Numbers
    <2>4. n <= 2 + Lifetime + quiet[c] => n + k <= 2 + Lifetime + quiet'[c]
      BY <2>1, <1>2, Numbers
    <2>5. ASSUME state'[c] = "up" \/ \E d \in net' : d.to = c /\ d.type = "ASSIGN"
          PROVE  state[c] = "up" \/ \E d \in net : d.to = c /\ d.type = "ASSIGN"
      <3>1. ASSUME NEW m \in net', m.to = c, m.type = "ASSIGN" PROVE \E d \in net : d.to = c /\ d.type = "ASSIGN"
        <4>1. PICK x \in net : x.to = c /\ x.type = m.type
          BY <3>1, Zenon DEF Delayed
        <4> QED
          BY <3>1, <4>1, Zenon
      <3> QED
        BY <2>5, <3>1, Zenon
    <2> QED
      BY <2>1, <2>2, <2>3, <2>4, <2>5, Zenon DEF EntryBound
  <1>6. ASSUME ~deaf[c], c \notin Members PROVE StrayBound(c, n + k)'
    <2>1. StrayBound(c, n) /\ silence'[c] = silence[c] + k
      BY <1>6, Zenon DEF Bounds
    <2>2. n + k <= PeerTicks + 2 * Lifetime + 2 + silence'[c]
      BY <2>1, <1>2, Numbers DEF StrayBound
    <2>3. ASSUME NEW m \in net', m.to = c PROVE n + k <= PeerTicks + Lifetime + 2 + m.age
      <3>1. PICK x \in net : x.to = c /\ m.age = x.age + k
        BY <1>6, <2>3, Zenon DEF Delayed
      <3>2. n <= PeerTicks + Lifetime + 2 + x.age
        BY <2>1, <3>1, Zenon DEF StrayBound
      <3> QED
        BY <1>1, <3>1, <3>2, Numbers
    <2> QED
      BY <2>2, <2>3, Zenon DEF StrayBound
  <1> QED
    BY <1>3, <1>4, <1>5, <1>6, Zenon DEF Bounds

\* A client that refuses the server's numbers ends while the server has an
\* entry for it: it has not been adrift for long, or its DISCONNECT is on its
\* way, or the link is down and nothing new has reached the server.
LEMMA DeafEnds ==
  ASSUME TypeOK, TypeOK', NEW c \in Clients, NEW k \in 0 .. 1, NEW n \in Nat,
         Bounds(c, n), Delayed(c, k), deaf[c], ~deaf'[c], c \in Members', state'[c] = "down",
         n + k <= ServerTicks + 2 * Lifetime + 2,
         \/ n + k <= 2 + Lifetime
         \/ c \in cut /\ c \in Members /\ quiet'[c] = quiet[c] + k
         \/ \E m \in net' : m.from = c /\ m.type = "DISCONNECT" /\ ~m.stale
  PROVE  Bounds(c, n + k)'
  <1>1. (\A d \in net : d.age \in Nat) /\ (\A d \in net' : d.age \in Nat /\ d.age <= Lifetime)
    BY Numbers DEF TypeOK, Datagram
  <1>2. quiet[c] \in Nat /\ quiet'[c] \in Nat
    BY DEF TypeOK
  <1>3. RequestBound(c, n) /\ DeafBound(c, n)
    BY Zenon DEF Bounds
  <1>4. RequestBound(c, n + k)'
    BY <1>3, DelayedRequests, Zenon
  <1>5. n + k <= ServerTicks + 2 * Lifetime + 2 + quiet'[c]
    BY <1>2, Numbers
  <1>6. ASSUME NEW d \in net', d.to = c, d.type = "ASSIGN"
        PROVE  n + k <= 2 + Lifetime + quiet'[c] \/ Leaving(c, n + k)'
    <2>1. n + k <= 2 + Lifetime + d.age
      BY <1>4, <1>6, Zenon DEF RequestBound
    <2>2. CASE n + k <= 2 + Lifetime
      BY <2>2, <1>2, Numbers
    <2>3. CASE c \in cut /\ c \in Members /\ quiet'[c] = quiet[c] + k
      <3>1. n <= 2 + Lifetime + quiet[c]
        BY <2>3, <1>3, Zenon DEF DeafBound
      <3> QED
        BY <2>3, <3>1, <1>2, Numbers
    <2>4. CASE \E m \in net' : m.from = c /\ m.type = "DISCONNECT" /\ ~m.stale
      <3>1. PICK m \in net' : m.from = c /\ m.type = "DISCONNECT" /\ ~m.stale
        BY <2>4
      <3>2. n + k <= 2 + 2 * Lifetime + m.age
        BY <2>1, <1>1, Numbers
      <3> QED
        BY <3>1, <3>2, Zenon DEF Leaving
    <2> QED
      BY <2>2, <2>3, <2>4
  <1>7. EntryBound(c, n + k)'
    <2>1. state'[c] # "up"
      OBVIOUS
    <2> QED
      BY <1>5, <1>6, <2>1, Zenon DEF EntryBound
  <1> QED
    BY <1>4, <1>7, Zenon DEF Bounds

\* The client accepts something from the server, which shows that the server is alive.
LEMMA AcceptsBounds ==
  ASSUME TypeOK, TypeOK', NEW c \in Clients, NEW n \in Nat, Bounds(c, n), Delayed(c, 0),
         NEW d \in net, d.to = c, ~d.stale,
         deaf'[c] = deaf[c], c \in Members' <=> c \in Members, c \in cut' => c \in cut,
         state'[c] = "up", state[c] = "up" \/ d.type = "ASSIGN",
         quiet'[c] = quiet[c], silence'[c] = 0
  PROVE  Bounds(c, n)'
  <1>1. d.age \in Nat /\ d.age <= Lifetime
    BY Numbers DEF TypeOK, Datagram
  <1>2. quiet[c] \in Nat
    BY DEF TypeOK
  <1>3. n + 0 = n /\ quiet[c] + 0 = quiet[c]
    BY <1>2
  <1>4. CASE deaf[c]
    <2>1. DeafBound(c, n) /\ RequestBound(c, n)
      BY <1>4, Zenon DEF Bounds
    <2>2. n <= Lifetime
      <3>1. n <= d.age
        BY <2>1, Zenon DEF DeafBound
      <3> QED
        BY <3>1, <1>1, Numbers
    <2>3. RequestBound(c, n)'
      <3>1. RequestBound(c, n + 0)'
        BY <2>1, DelayedRequests
      <3> QED
        BY <3>1, <1>3 DEF RequestBound
    <2>4. ASSUME NEW m \in net', m.to = c, ~m.stale PROVE n <= m.age
      <3>1. PICK x \in net : x.to = c /\ m.age = x.age + 0 /\ ~x.stale
        BY <1>4, <2>4, Zenon DEF Delayed
      <3>2. n <= x.age /\ x.age \in Nat
        BY <2>1, <3>1 DEF DeafBound, TypeOK, Datagram
      <3> QED
        BY <3>1, <3>2
    <2>5. c \in Members' \cap cut' => n <= 2 + Lifetime + quiet'[c]
      BY <2>1, Zenon DEF DeafBound
    <2>6. state'[c] # "register" /\ n <= Lifetime + silence'[c]
      BY <2>2, Numbers
    <2>7. DeafBound(c, n)'
      BY <2>4, <2>5, <2>6, Zenon DEF DeafBound
    <2> QED
      BY <2>3, <2>7, <1>4, Zenon DEF Bounds
  <1>5. CASE ~deaf[c] /\ c \in Members
    <2>1. state[c] = "up" \/ \E x \in net : x.to = c /\ x.type = "ASSIGN"
      BY Zenon
    <2>2. Bounds(c, n + 0)'
      BY <2>1, <1>3, <1>5, KeepsBounds
    <2> QED
      BY <2>2, <1>3, Zenon
  <1>6. CASE ~deaf[c] /\ c \notin Members
    <2>1. StrayBound(c, n)
      BY <1>6, Zenon DEF Bounds
    <2>2. n <= PeerTicks + 2 * Lifetime + 2 + silence'[c]
      <3>1. n <= PeerTicks + Lifetime + 2 + d.age
        BY <2>1, Zenon DEF StrayBound
      <3> QED
        BY <3>1, <1>1, Numbers
    <2>3. ASSUME NEW m \in net', m.to = c PROVE n <= PeerTicks + Lifetime + 2 + m.age
      <3>1. PICK x \in net : x.to = c /\ m.age = x.age + 0
        BY <1>6, <2>3, Zenon DEF Delayed
      <3>2. n <= PeerTicks + Lifetime + 2 + x.age /\ x.age \in Nat
        BY <2>1, <3>1 DEF StrayBound, TypeOK, Datagram
      <3> QED
        BY <3>1, <3>2
    <2>4. StrayBound(c, n)'
      BY <2>2, <2>3, Zenon DEF StrayBound
    <2> QED
      BY <2>4, <1>6, Zenon DEF Bounds
  <1> QED
    BY Zenon, <1>4, <1>5, <1>6

\* The server answers a request of c: a new clock, and an ASSIGN.
LEMMA AnswerBounds ==
  ASSUME TypeOK, TypeOK', NEW c \in Clients, NEW n \in Nat, Bounds(c, n), RequestBound(c, n),
         n <= 2 + Lifetime, c \in Members', quiet'[c] = 0,
         deaf'[c] = deaf[c], state'[c] = state[c], silence'[c] = silence[c],
         \A m \in net' : m.from = c /\ m.type = "REGISTER" /\ (deaf[c] \/ ~m.stale) =>
           \E x \in net : /\ x.from = c /\ x.type = "REGISTER" /\ (deaf[c] \/ ~x.stale)
                          /\ m.age = x.age,
         deaf[c] => \A m \in net' : m.to = c => m.stale \/ m \in net
  PROVE  Bounds(c, n)'
  <1>1. \A d \in net' : d.age \in Nat
    BY DEF TypeOK, Datagram
  <1>2. RequestBound(c, n)'
    <2>1. ASSUME NEW m \in net', m.from = c, m.type = "REGISTER", deaf'[c] \/ ~m.stale
          PROVE  n <= 2 + m.age
      <3>1. PICK x \in net : /\ x.from = c /\ x.type = "REGISTER" /\ (deaf[c] \/ ~x.stale)
                             /\ m.age = x.age
        BY <2>1, Zenon
      <3>2. n <= 2 + x.age
        BY <3>1, Zenon DEF RequestBound
      <3> QED
        BY <3>1, <3>2, Zenon
    <2>2. ASSUME NEW m \in net' PROVE n <= 2 + Lifetime + m.age
      BY <1>1, Numbers
    <2> QED
      BY <2>1, <2>2, Zenon DEF RequestBound
  <1>3. n <= 2 + Lifetime + quiet'[c] /\ n <= ServerTicks + 2 * Lifetime + 2 + quiet'[c]
    BY Numbers
  <1>4. EntryBound(c, n)'
    BY <1>3, Zenon DEF EntryBound
  <1>5. ASSUME deaf[c] PROVE DeafBound(c, n)'
    <2>1. DeafBound(c, n)
      BY <1>5, Zenon DEF Bounds
    <2>2. ASSUME NEW m \in net', m.to = c, ~m.stale PROVE n <= m.age
      BY <1>5, <2>1, <2>2, Zenon DEF DeafBound
    <2> QED
      BY <2>1, <2>2, <1>3, Zenon DEF DeafBound
  <1> QED
    BY <1>2, <1>4, <1>5, Zenon DEF Bounds

\* N stays in flight and M is sent: nothing of it is an answer to c.
LEMMA DeliverDelayed ==
  ASSUME TypeOK, NEW c \in Clients, NEW N, NEW M, net' = N \cup Travels(M),
         \A m \in N : m.from = c \/ m.to = c => m \in net,
         \A x \in net : c \in Members /\ x.from = c /\ x.type = "DISCONNECT" /\ ~x.stale => x \in N,
         \A m \in M : m.from = c /\ m.type = "REGISTER" => ~deaf[c] /\ m.stale,
         \A m \in M : m.to = c => m.type # "ASSIGN" /\ (c \in Members \/ deaf[c]) /\ (deaf[c] => m.stale)
  PROVE  Delayed(c, 0)
  <1>1. \A d \in net : d.age = d.age + 0
    BY DEF TypeOK, Datagram
  <1>2. ASSUME NEW m \in net', m.from = c, m.type = "REGISTER", deaf[c] \/ ~m.stale
        PROVE  \E x \in net : /\ x.from = c /\ x.type = "REGISTER" /\ (deaf[c] \/ ~x.stale)
                              /\ m.age = x.age + 0
    <2>1. m \notin M
      BY <1>2, Zenon
    <2>2. m \in net
      BY <1>2, <2>1, Zenon DEF Travels
    <2> QED
      BY <1>1, <1>2, <2>2, Zenon
  <1>3. ASSUME NEW m \in net', m.to = c
        PROVE  \/ m.type # "ASSIGN" /\ (c \in Members \/ deaf[c]) /\ (deaf[c] => m.stale)
               \/ \E x \in net : /\ x.to = c /\ x.type = m.type /\ m.age = x.age + 0
                                 /\ deaf[c] /\ ~m.stale => ~x.stale
    <2>1. CASE m \in M
      BY <1>3, <2>1, Zenon
    <2>2. CASE m \in N
      <3>1. m \in net
        BY <1>3, <2>2, Zenon
      <3> QED
        BY <1>1, <1>3, <3>1, Zenon
    <2> QED
      BY <2>1, <2>2, Zenon DEF Travels
  <1>4. ASSUME NEW x \in net, c \in Members, x.from = c, x.type = "DISCONNECT", ~x.stale
        PROVE  \E m \in net' : m.from = c /\ m.type = "DISCONNECT" /\ ~m.stale /\ m.age = x.age + 0
    <2>1. x \in net'
      BY <1>4, Zenon
    <2> QED
      BY <1>1, <1>4, <2>1, Zenon
  <1> QED
    BY <1>2, <1>3, <1>4, Zenon DEF Delayed

\* Nothing of c's state changes.
LEMMA SameBounds ==
  ASSUME TypeOK, TypeOK', NEW c \in Clients, NEW n \in Nat, Bounds(c, n), Delayed(c, 0),
         deaf'[c] = deaf[c], state'[c] = state[c], silence'[c] = silence[c], quiet'[c] = quiet[c],
         c \in Members' <=> c \in Members, c \in cut' => c \in cut
  PROVE  Bounds(c, n)'
  <1>1. quiet[c] + 0 = quiet[c] /\ silence[c] + 0 = silence[c] /\ n + 0 = n
    BY ClockTypes, Zenon
  <1>2. Bounds(c, n + 0)'
    BY <1>1, KeepsBounds
  <1> QED
    BY <1>1, <1>2, Zenon
-----------------------------------------------------------------------------
(* The server's handlers. *)

\* server_handle_register, known endpoint
LEMMA KnownBounds ==
  ASSUME TypeOK, TypeOK', NEW d \in net, d.to = Hub, RegisterKnown(d, {}), UNCHANGED <<clientVars, cut>>,
         NEW c \in Clients, NEW n \in Nat, Bounds(c, n)
  PROVE  Bounds(c, n)'
  <1>1. d \in Datagram /\ c # Hub
    BY ZenonT(60), TunDAssumption DEF TypeOK
  <1> DEFINE a == Message(Hub, d.from, "ASSIGN", {peers[d.from]})
             M == {a}
             N == net \ {d}
  <1>2. net' = N \cup Travels(M)
    BY DEF RegisterKnown, Sends
  <1>3. a.from = Hub /\ a.to = d.from /\ a.stale = deaf[d.from]
    BY Zenon DEF Message
  <1>4. UNCHANGED <<state, silence, deaf, peers, cut>> /\ d.type = "REGISTER" /\ ~d.stale /\ d.from \in Members
    BY DEF RegisterKnown, clientVars
  <1>5. Members' = Members
    BY <1>4 DEF Members
  <1>6. quiet'[c] = IF c = d.from THEN 0 ELSE quiet[c]
    BY Zenon DEF RegisterKnown, TypeOK
  <1> HIDE DEF a
  <1>7. CASE d.from = c
    <2>1. RequestBound(c, n)
      BY <1>4, <1>7, Zenon DEF Bounds
    <2>2. n <= 2 + Lifetime
      <3>1. n <= 2 + d.age
        BY <2>1, <1>4, <1>7, Zenon DEF RequestBound
      <3>2. d.age \in Nat /\ d.age <= Lifetime
        BY <1>1, Numbers DEF Datagram
      <3> QED
        BY <3>1, <3>2, Numbers
    <2>3. ASSUME NEW m \in net', m.from = c PROVE m \in net
      BY <1>1, <1>2, <1>3, <2>3 DEF Travels
    <2>4. ASSUME NEW m \in net', deaf[c] PROVE m.stale \/ m \in net
      BY <1>2, <1>3, <1>7, <2>4, Zenon DEF Travels
    <2>5. quiet'[c] = 0 /\ c \in Members'
      BY <1>4, <1>5, <1>6, <1>7
    <2>6. \A m \in net' : m.from = c /\ m.type = "REGISTER" /\ (deaf[c] \/ ~m.stale) =>
           \E x \in net : /\ x.from = c /\ x.type = "REGISTER" /\ (deaf[c] \/ ~x.stale)
                          /\ m.age = x.age
      BY <2>3, Zenon
    <2>7. deaf[c] => \A m \in net' : m.to = c => m.stale \/ m \in net
      BY <2>4, Zenon
    <2> QED
      BY <2>1, <2>2, <2>5, <2>6, <2>7, <1>4, AnswerBounds
  <1>8. CASE d.from # c
    <2>1. \A m \in M : m.from # c /\ m.to # c
      BY <1>1, <1>3, <1>8
    <2>2. \A x \in net : x.from = c => x \in N
      BY <1>8
    <2>3. \A m \in N : m \in net
      OBVIOUS
    <2> HIDE DEF M, N
    <2>4. Delayed(c, 0)
      BY <1>2, <2>1, <2>2, <2>3, DeliverDelayed, Zenon
    <2> QED
      BY ZenonT(60), <2>4, <1>4, <1>5, <1>6, <1>8, SameBounds
  <1> QED
    BY <1>7, <1>8

\* A new window changes nothing but staleness, and that only on one way.
LEMMA NewWindowFrom ==
  ASSUME NEW from, NEW to, NEW N \in SUBSET Datagram, NEW m \in NewWindow(from, to, N)
  PROVE  \E y \in N : /\ m.from = y.from /\ m.to = y.to /\ m.type = y.type /\ m.age = y.age
                      /\ m = y \/ (y.from = from /\ y.to = to)
  <1>1. PICK y \in N : m = IF y.from = from /\ y.to = to THEN [y EXCEPT !.stale = FALSE] ELSE y
    BY Zenon DEF NewWindow
  <1>2. m.from = y.from /\ m.to = y.to /\ m.type = y.type /\ m.age = y.age
    BY <1>1 DEF Datagram
  <1>3. m = y \/ (y.from = from /\ y.to = to)
    BY <1>1, Zenon
  <1> QED
    BY <1>2, <1>3, Zenon

\* A new window concerns the packets of one endpoint only.
LEMMA NewWindowKeeps ==
  ASSUME NEW from, NEW to, NEW N, NEW x \in N, x.from # from \/ x.to # to
  PROVE  x \in NewWindow(from, to, N)
  BY Zenon DEF NewWindow

\* server_handle_register, unknown endpoint
LEMMA NewBounds ==
  ASSUME TypeOK, TypeOK', NEW d \in net, d.to = Hub, RegisterNew(d, {}), UNCHANGED <<clientVars, cut>>,
         NEW c \in Clients, NEW n \in Nat, Bounds(c, n), Clocks(c), Adrift(c), Adrift(c)'
  PROVE  Bounds(c, n)'
  <1>1. d \in Datagram /\ c # Hub /\ net \ {d} \in SUBSET Datagram /\ d.from \in Clients
    BY TunDAssumption DEF TypeOK, Datagram
  <1> DEFINE x == d.from
             L == Message(Hub, x, "PEER_LIST", AddressesOf(Members))
             J(v, y) == Message(Hub, y, "PEER_JOIN", {v})
             M(v) == {Message(Hub, x, "ASSIGN", {v}), L} \cup {J(v, y) : y \in Members}
             N == NewWindow(x, Hub, net \ {d})
  <1>2. PICK v \in Vips : peers' = [peers EXCEPT ![x] = v] /\ net' = N \cup Travels(M(v))
    <2>1. PICK v \in Vips : peers' = [peers EXCEPT ![x] = v] /\ Sends(M(v), N \cup {})
      BY Zenon DEF RegisterNew
    <2>2. N \cup {} = N
      OBVIOUS
    <2> QED
      BY <2>1, <2>2, Zenon DEF Sends
  <1>3. UNCHANGED <<state, silence, deaf, low, cut>> /\ d.type = "REGISTER" /\ x \notin Members
    BY Zenon DEF RegisterNew, clientVars
  <1>4. (c \in Members' <=> c \in Members \/ c = x) /\ quiet'[c] = IF c = x THEN 0 ELSE quiet[c]
    <2>1. quiet' = [quiet EXCEPT ![x] = 0] /\ v # None
      BY Zenon, TunDAssumption DEF RegisterNew
    <2>2. quiet \in [Clients -> Nat] /\ peers \in [Clients -> Vips \cup {None}]
      BY DEF TypeOK
    <2> QED
      BY <1>2, <2>1, <2>2 DEF Members
  <1>5. ASSUME NEW m \in M(v)
        PROVE  m.from = Hub /\ (m.to = c => m.stale = deaf[c] /\ (c = x \/ (c \in Members /\ m.type # "ASSIGN")))
    <2>1. CASE m = Message(Hub, x, "ASSIGN", {v})
      <3>1. m.from = Hub /\ m.to = x /\ m.stale = deaf[x]
        BY Zenon, <2>1 DEF Message
      <3> QED
        BY <3>1, Zenon
    <2>2. CASE m = L
      <3>1. m.from = Hub /\ m.to = x /\ m.stale = deaf[x]
        BY Zenon, <2>2 DEF Message
      <3> QED
        BY <3>1, Zenon
    <2>3. CASE m \in {J(v, y) : y \in Members}
      <3>1. PICK y \in Members : m = J(v, y)
        BY Zenon, <2>3
      <3>2. m.from = Hub /\ m.to = y /\ m.stale = deaf[y] /\ m.type = "PEER_JOIN"
        BY Zenon, <3>1 DEF Message
      <3>3. m.type # "ASSIGN"
        BY <3>2
      <3> QED
        BY <3>2, <3>3, Zenon
    <2> QED
      BY Zenon, <2>1, <2>2, <2>3
  <1>6. ASSUME NEW m \in N
        PROVE  \E y \in net : /\ m.from = y.from /\ m.to = y.to /\ m.type = y.type /\ m.age = y.age
                              /\ m = y \/ (y.from = x /\ y.to = Hub)
    <2>1. PICK y \in net \ {d} : /\ m.from = y.from /\ m.to = y.to /\ m.type = y.type /\ m.age = y.age
                                 /\ m = y \/ (y.from = x /\ y.to = Hub)
      BY SMTT(60), <1>1, NewWindowFrom
    <2> QED
      BY <2>1, Zenon
  <1> HIDE DEF M, N
  <1>7. CASE x = c
    <2>1. state[c] = "up" /\ deaf[c] /\ c \in Members'
      BY <1>3, <1>4, <1>7 DEF Adrift, Clocks
    <2>2. RequestBound(c, n)
      BY <2>1, Zenon DEF Bounds
    <2>3. n <= 2 + Lifetime
      <3>1. n <= 2 + d.age
        BY <2>1, <2>2, <1>3, <1>7, Zenon DEF RequestBound
      <3>2. d.age \in Nat /\ d.age <= Lifetime
        BY <1>1, Numbers DEF Datagram
      <3> QED
        BY <3>1, <3>2, Numbers
    <2>4. ASSUME NEW m \in net', m.from = c, m.type = "REGISTER"
          PROVE  \E y \in net : y.from = c /\ y.type = "REGISTER" /\ m.age = y.age
      <3>1. m \in N
        BY <2>4, <1>1, <1>2, <1>5, Zenon DEF Travels
      <3>2. PICK y \in net : m.from = y.from /\ m.type = y.type /\ m.age = y.age
        BY <3>1, <1>6, Zenon
      <3> QED
        BY <2>4, <3>2, Zenon
    <2>5. ASSUME NEW m \in net', m.to = c PROVE m.stale \/ m \in net
      <3>1. CASE m \in N
        BY <3>1, <2>5, <1>1, <1>6, Zenon
      <3>2. CASE m \in M(v)
        BY <3>2, <2>1, <2>5, <1>5, Zenon
      <3> QED
        BY <3>1, <3>2, <1>2, Zenon DEF Travels
    <2>6. \A m \in net' : m.from = c /\ m.type = "REGISTER" /\ (deaf[c] \/ ~m.stale) =>
           \E y \in net : /\ y.from = c /\ y.type = "REGISTER" /\ (deaf[c] \/ ~y.stale)
                          /\ m.age = y.age
      BY <2>1, <2>4, ZenonT(60)
    <2>7. quiet'[c] = 0 /\ deaf'[c] = deaf[c] /\ state'[c] = state[c] /\ silence'[c] = silence[c]
      BY Zenon, <1>3, <1>4, <1>7
    <2> QED
      BY Zenon, <2>1, <2>2, <2>3, <2>5, <2>6, <2>7, AnswerBounds
  <1>8. CASE x # c
    <2>1. ASSUME NEW m \in N, m.from = c \/ m.to = c PROVE m \in net
      BY <2>1, <1>1, <1>6, <1>8, Zenon
    <2>2. ASSUME NEW y \in net, y.from = c PROVE y \in N
      <3>1. y \in net \ {d} /\ y.from # x
        BY <2>2, <1>8
      <3> QED
        BY <3>1, NewWindowKeeps, Zenon DEF N
    <2>3. ASSUME NEW m \in M(v) PROVE m.from # c /\ (m.to = c => m.type # "ASSIGN" /\ c \in Members /\ (deaf[c] => m.stale))
      BY <1>1, <1>5, <1>8, Zenon
    <2> DEFINE Q == M(v)
    <2>4. net' = N \cup Travels(Q)
      BY Zenon, <1>2
    <2>5. (\A m \in Q : m.from # c) /\ \A m \in Q : m.to = c => m.type # "ASSIGN" /\ (c \in Members \/ deaf[c]) /\ (deaf[c] => m.stale)
      BY Zenon, <2>3
    <2> HIDE DEF Q
    <2>6. Delayed(c, 0)
      BY Zenon, <2>1, <2>2, <2>4, <2>5, DeliverDelayed
    <2> QED
      BY <2>6, <1>3, <1>4, <1>8, SameBounds
  <1> QED
    BY ZenonT(60), <1>7, <1>8

\* Messages about those who leave go to members only.
LEMMA FarewellFields ==
  ASSUME NEW S, NEW m \in Farewells(S)
  PROVE  \E c \in Members \ S : m.from = Hub /\ m.to = c /\ m.type = "PEER_LEAVE" /\ m.stale = deaf[c]
  <1>1. PICK c \in Members \ S, x \in S : m = Farewell([to |-> c, vip |-> peers[x]])
    BY DEF Farewells, Parting
  <1>3. m = Message(Hub, c, "PEER_LEAVE", {peers[x]})
    BY <1>1 DEF Farewell
  <1>2. m.from = Hub /\ m.to = c /\ m.type = "PEER_LEAVE" /\ m.stale = deaf[c]
    BY Zenon, <1>3 DEF Message
  <1> QED
    BY <1>2, Zenon

\* An entry whose client is up has not been adrift for long.
LEMMA UpEntry ==
  ASSUME TypeOK, NEW c \in Clients, NEW n \in Nat, Bounds(c, n), Clocks(c),
         state[c] = "up", ~deaf[c], c \in Members
  PROVE  n <= PeerTicks + Lifetime + 2
  <1>1. n <= 2 + Lifetime + quiet[c] \/ Leaving(c, n)
    BY Zenon DEF Bounds, EntryBound
  <1>2. quiet[c] \in Nat /\ quiet[c] <= PeerTicks
    BY ClockTypes, Zenon DEF Clocks
  <1>3. ASSUME Leaving(c, n) PROVE n <= PeerTicks + Lifetime + 2
    <2>1. PICK y \in net : n <= 2 + 2 * Lifetime + y.age
      BY Zenon, <1>3 DEF Leaving
    <2>2. y.age \in Nat /\ y.age <= Lifetime
      BY Ages, Zenon
    <2> QED
      BY <2>1, <2>2, Numbers
  <1> QED
    BY <1>1, <1>2, <1>3, Numbers

\* server_handle_disconnect
LEMMA DisconnectBounds ==
  ASSUME TypeOK, TypeOK', NEW d \in net, d.to = Hub, HandleDisconnect(d, {}), UNCHANGED <<clientVars, cut>>,
         NEW c \in Clients, NEW n \in Nat, Bounds(c, n), Clocks(c), Adrift(c), Adrift(c)'
  PROVE  Bounds(c, n)'
  <1>1. d \in Datagram /\ c # Hub
    BY TunDAssumption DEF TypeOK
  <1> DEFINE x == d.from
             N == net \ {d}
             M == Farewells({x})
  <1>2. net' = N \cup Travels(M)
    <2>1. net' = (net \ {d}) \cup {} \cup Travels(Farewells({x}))
      BY Zenon DEF HandleDisconnect
    <2>2. (net \ {d}) \cup {} = N
      OBVIOUS
    <2> QED
      BY <2>1, <2>2, Zenon
  <1>3. UNCHANGED <<state, silence, deaf, cut>> /\ x \in Members /\ d.type = "DISCONNECT"
    BY Zenon DEF HandleDisconnect, clientVars
  <1>4. (c \in Members' <=> c \in Members /\ c # x) /\ (c # x => quiet'[c] = quiet[c])
    BY <1>1, <1>3 DEF HandleDisconnect, TypeOK, Members
  <1>5. ASSUME NEW m \in M
        PROVE  m.from # c /\ (m.to = c => m.type # "ASSIGN" /\ c \in Members /\ c # x /\ (deaf[c] => m.stale))
    <2>1. PICK y \in Members \ {x} : m.from = Hub /\ m.to = y /\ m.type = "PEER_LEAVE" /\ m.stale = deaf[y]
      BY FarewellFields
    <2>2. m.type # "ASSIGN"
      BY <2>1
    <2> QED
      BY <1>1, <2>1, <2>2, ZenonT(60)
  <1> HIDE DEF M
  <1>6. \A m \in N : m \in net
    BY Zenon
  <1>7. CASE x # c
    <2>1. \A y \in net : y.from = c => y \in N
      BY Zenon, <1>7
    <2>2. Delayed(c, 0)
      BY Zenon, <2>1, <1>2, <1>5, <1>6, DeliverDelayed
    <2> QED
      BY <2>2, <1>3, <1>4, <1>7, SameBounds
  <1>8. CASE x = c /\ deaf[c]
    <2>1. ASSUME NEW m \in net', m.to = c PROVE m \in net
      BY <2>1, <1>2, <1>5, <1>8, Zenon DEF Travels
    <2>2. ASSUME NEW m \in net', m.from = c PROVE m \in net
      BY <2>2, <1>2, <1>5, Zenon DEF Travels
    <2>3. DeafBound(c, n) /\ RequestBound(c, n)
      BY <1>8, Zenon DEF Bounds
    <2>4. DeafBound(c, n)'
      BY <2>1, <2>3, <1>3, <1>4, <1>8, Zenon DEF DeafBound
    <2>5. RequestBound(c, n)'
      BY <2>1, <2>2, <2>3, <1>3, <1>4, <1>8, Zenon DEF RequestBound
    <2> QED
      BY <2>4, <2>5, <1>3, <1>8, Zenon DEF Bounds
  <1>9. CASE x = c /\ ~deaf[c]
    <2>1. state[c] = "up" /\ c \in Members /\ c \notin Members'
      BY <1>3, <1>4, <1>9 DEF Adrift
    <2>3. silence'[c] \in Nat
      BY ClockTypesNext, Zenon
    <2>4. n <= PeerTicks + Lifetime + 2
      BY <2>1, <1>9, UpEntry, Zenon
    <2>5. n <= PeerTicks + 2 * Lifetime + 2 + silence'[c]
      BY <2>3, <2>4, Numbers
    <2>6. \A m \in net' : n <= PeerTicks + Lifetime + 2 + m.age
      <3>1. \A m \in net' : m.age \in Nat
        BY DEF TypeOK, Datagram
      <3> QED
        BY ONLY SMTT(60), <3>1, <2>4, Numbers
    <2>7. StrayBound(c, n)'
      BY <2>5, <2>6, Zenon DEF StrayBound
    <2> QED
      BY <2>1, <2>7, <1>3, <1>9, Zenon DEF Bounds
  <1> QED
    BY Zenon, <1>7, <1>8, <1>9

\* A packet that the server refuses
LEMMA ServerDropsBounds ==
  ASSUME TypeOK, TypeOK', NEW d \in net, d.to = Hub, ServerDrops(d, {}), UNCHANGED <<clientVars, cut>>,
         NEW c \in Clients, NEW n \in Nat, Bounds(c, n)
  PROVE  Bounds(c, n)'
  <1> DEFINE M == {}
             N == net \ {d}
  <1>1. net' = N \cup Travels(M)
    BY DEF ServerDrops, Sends
  <1>2. UNCHANGED <<state, silence, deaf, peers, quiet, cut>> /\ (d.from \in Members => d.stale)
    BY DEF ServerDrops, serverVars, clientVars
  <1>3. \A y \in net : c \in Members /\ y.from = c /\ y.type = "DISCONNECT" /\ ~y.stale => y \in N
    BY <1>2, Zenon
  <1>4. (\A m \in N : m \in net) /\ \A m \in M : m.from # c /\ m.to # c
    BY Zenon
  <1> HIDE DEF M, N
  <1>5. Delayed(c, 0)
    BY Zenon, <1>1, <1>3, <1>4, DeliverDelayed
  <1>6. Members' = Members
    BY <1>2 DEF Members
  <1> QED
    BY <1>2, <1>5, <1>6, SameBounds

\* All that the server does when a packet arrives
LEMMA ServerBounds ==
  ASSUME TypeOK, TypeOK', NEW d \in net, ServerHandles(d, {}), cut' = cut,
         NEW c \in Clients, NEW n \in Nat, Bounds(c, n), Clocks(c), Adrift(c), Adrift(c)'
  PROVE  Bounds(c, n)'
  <1>1. d.to = Hub /\ UNCHANGED <<clientVars, cut>>
    BY DEF ServerHandles
  <1> QED
    BY <1>1, KnownBounds, NewBounds, DisconnectBounds, ServerDropsBounds, Zenon DEF ServerHandles
-----------------------------------------------------------------------------
(* The clients' handlers. *)

\* What a process forgets when it ends
LEMMA EndState ==
  ASSUME TypeOK, NEW x \in Clients, End(x), NEW c \in Clients
  PROVE  /\ c = x => state'[c] = "down" /\ ~deaf'[c]
         /\ c # x => state'[c] = state[c] /\ deaf'[c] = deaf[c] /\ silence'[c] = silence[c]
  <1>1. c = x => state'[c] = "down" /\ ~deaf'[c]
    BY Zenon DEF End, Forget
  <1>2. c # x => state'[c] = state[c] /\ silence'[c] = silence[c]
    BY ZenonT(60) DEF End, Forget, TypeOK
  <1>3. c # x => deaf'[c] = deaf[c]
    BY Zenon DEF End, Forget, TypeOK
  <1> QED
    BY <1>1, <1>2, <1>3

\* A process of c ends, and its DISCONNECT is sent if the server may hear of it:
\* by client_shutdown, after HandleStop or in a failed client_init.
LEMMA EndBounds ==
  ASSUME TypeOK, TypeOK', NEW c \in Clients, NEW n \in Nat, Bounds(c, n), Clocks(c), Delayed(c, 0),
         Adrift(c), Adrift(c)', peers' = peers, quiet' = quiet, cut' = cut,
         state'[c] = "down", ~deaf'[c], deaf[c] \/ state[c] # "down",
         deaf[c] => \/ n <= Lifetime \/ state[c] = "register"
                    \/ c \in cut
                    \/ \E m \in net' : m.from = c /\ m.type = "DISCONNECT" /\ ~m.stale
  PROVE  Bounds(c, n)'
  <1>1. Members' = Members
    BY Zenon DEF Members
  <1>2. c \in Members
    BY Zenon, <1>1 DEF Adrift
  <1>3. quiet[c] \in Nat /\ silence[c] \in Nat
    BY ClockTypes, Zenon
  <1>4. quiet[c] + 0 = quiet[c] /\ n + 0 = n
    BY <1>3
  <1>5. CASE ~deaf[c]
    <2>1. deaf'[c] = deaf[c]
      BY Zenon, <1>5 DEF TypeOK
    <2>2. quiet'[c] = quiet[c] + 0 /\ 0 \in 0 .. 1 /\ state'[c] # "up" /\ c \in Members'
      BY <1>1, <1>2, <1>4, ClockTypes, Zenon
    <2>3. Bounds(c, n + 0)'
      BY <2>1, <2>2, <1>2, <1>5, KeepsBounds, ZenonT(60)
    <2> QED
      BY <2>3, <1>4, Zenon
  <1>6. CASE deaf[c]
    <2>1. DeafBound(c, n) /\ state[c] \in {"register", "up"}
      BY Zenon, <1>6 DEF Bounds, Clocks, TypeOK
    <2>2. (state[c] = "register" => n <= 2) /\ n <= ServerTicks + 2 * Lifetime + 2
      BY <2>1, <1>3, Numbers DEF DeafBound, Clocks
    <2>3. \/ n + 0 <= 2 + Lifetime
          \/ c \in cut /\ c \in Members /\ quiet'[c] = quiet[c] + 0
          \/ \E m \in net' : m.from = c /\ m.type = "DISCONNECT" /\ ~m.stale
      <3>1. n <= Lifetime \/ state[c] = "register" => n <= 2 + Lifetime
        BY ONLY SMTT(60), <2>2, Numbers
      <3> QED
        BY <3>1, <1>2, <1>4, <1>6, Zenon
    <2>4. Bounds(c, n + 0)'
      BY SMTT(60), <2>2, <2>3, <1>1, <1>2, <1>4, <1>6, DeafEnds
    <2> QED
      BY <2>4, <1>4, Zenon
  <1> QED
    BY <1>5, <1>6

\* A packet for another client
LEMMA OthersBounds ==
  ASSUME TypeOK, TypeOK', NEW d \in net, d.to # Hub, NEW c \in Clients, d.to # c,
         NEW n \in Nat, Bounds(c, n),
         NEW M, net' = (net \ {d}) \cup Travels(M), \A m \in M : m.from # c /\ m.to = Hub,
         UNCHANGED <<peers, quiet, cut>>,
         state'[c] = state[c], deaf'[c] = deaf[c], silence'[c] = silence[c]
  PROVE  Bounds(c, n)'
  <1> DEFINE N == net \ {d}
  <1>1. d.from = Hub /\ c # Hub
    BY ZenonT(60), TunDAssumption DEF TypeOK, Datagram
  <1>2. \A y \in net : y.from = c => y \in N
    BY <1>1
  <1>3. \A m \in N : m \in net
    BY Zenon
  <1>4. net' = N \cup Travels(M)
    BY Zenon
  <1>5. \A m \in M : m.to # c
    BY Zenon, <1>1
  <1> HIDE DEF N
  <1>6. Delayed(c, 0)
    BY ZenonT(60), <1>2, <1>3, <1>4, <1>5, DeliverDelayed
  <1>7. Members' = Members
    BY DEF Members
  <1> QED
    BY ZenonT(60), <1>6, <1>7, SameBounds

\* A packet for c
LEMMA OwnDelayed ==
  ASSUME TypeOK, NEW d \in net, d.to # Hub, NEW c \in Clients, d.to = c,
         NEW M, net' = (net \ {d}) \cup Travels(M),
         \A m \in M : m.to = Hub /\ (m.type = "REGISTER" => ~deaf[c] /\ m.stale)
  PROVE  Delayed(c, 0)
  <1> DEFINE N == net \ {d}
  <1>1. d.from = Hub /\ c # Hub
    BY TunDAssumption DEF TypeOK, Datagram
  <1>2. \A y \in net : y.from = c => y \in N
    BY <1>1
  <1>3. \A m \in N : m \in net
    OBVIOUS
  <1>4. net' = N \cup Travels(M)
    OBVIOUS
  <1>5. \A m \in M : m.to # c
    BY <1>1
  <1> HIDE DEF N
  <1> QED
    BY ZenonT(60), <1>2, <1>3, <1>4, <1>5, DeliverDelayed

\* client_register: the turn is used up, while N stays in flight.
LEMMA NextTurnBounds ==
  ASSUME TypeOK, TypeOK', NEW x \in Clients, NEW N \in SUBSET net, NextTurn(x, N), state[x] = "register",
         UNCHANGED <<peers, quiet, cut>>,
         NEW c \in Clients, \A y \in net : y.from = c => y \in N,
         NEW n \in Nat, Bounds(c, n), Clocks(c), Adrift(c), Adrift(c)'
  PROVE  Bounds(c, n)'
  <1>1. Members' = Members /\ c # Hub
    BY Zenon, TunDAssumption DEF Members
  <1>2. CASE /\ net' = N \cup Travels({Message(x, Hub, "REGISTER", {})})
             /\ UNCHANGED <<state, virtIp, silence, view, deaf>>
    <2> DEFINE r == Message(x, Hub, "REGISTER", {})
               M == {r}
    <2>1. r.from = x /\ r.to = Hub /\ r.stale = low[x]
      BY Zenon, TunDAssumption DEF Message
    <2>2. net' = N \cup Travels(M)
      BY Zenon, <1>2
    <2> HIDE DEF r
    <2>3. CASE c # x \/ ~deaf[c]
      <3>1. \A m \in M : m.from = c => ~deaf[c] /\ m.stale
        <4>1. c = x => ~deaf[c] /\ low[c]
          BY Zenon, <2>3 DEF Adrift, TypeOK
        <4> QED
          BY Zenon, <2>1, <4>1
      <3>2. \A m \in M : m.to # c
        BY Zenon, <2>1, <1>1
      <3> HIDE DEF M
      <3>3. \A m \in N : m \in net
        OBVIOUS
      <3>4. Delayed(c, 0)
        BY <2>2, <3>1, <3>2, <3>3, DeliverDelayed, ZenonT(60)
      <3> QED
        BY ZenonT(60), <3>4, <1>1, <1>2, SameBounds
    <2>4. CASE c = x /\ deaf[c]
      <3>1. DeafBound(c, n)
        BY <2>4, Zenon DEF Bounds
      <3>2. n <= 2
        <4>1. silence[c] \in Nat /\ n <= silence[c] /\ silence[c] <= 2
          BY SMTT(60), <2>4, <3>1 DEF DeafBound, Clocks, TypeOK
        <4> QED
          BY <4>1, Sums, Zenon
      <3>3. ASSUME NEW m \in net', m.to = c PROVE m \in net
        BY <2>1, <2>2, <3>3, <1>1, Zenon DEF Travels
      <3>4. DeafBound(c, n)'
        BY <3>1, <3>3, <1>1, <1>2, ZenonT(60) DEF DeafBound
      <3>5. RequestBound(c, n)'
        <4>1. \A m \in net' : m.age \in Nat
          BY SMTT(60) DEF TypeOK, Datagram
        <4> QED
          BY ONLY SMTT(60), <4>1, <3>2, Numbers DEF RequestBound
      <3> QED
        BY <2>4, <3>4, <3>5, <1>2, Zenon DEF Bounds
    <2> QED
      BY ZenonT(60), <2>3, <2>4
  <1>3. CASE End(x) /\ net' = N
    <2> DEFINE M == {}
    <2>1. net' = N \cup Travels(M) /\ (\A m \in M : m.from # c /\ m.to # c) /\ \A m \in N : m \in net
      BY <1>3 DEF Travels
    <2> HIDE DEF M
    <2>2. Delayed(c, 0)
      BY <2>1, DeliverDelayed, ZenonT(60)
    <2>3. CASE c # x
      <3>1. state'[c] = state[c] /\ deaf'[c] = deaf[c] /\ silence'[c] = silence[c]
        BY ZenonT(60), <1>3, <2>3, EndState
      <3> QED
        BY ZenonT(60), <2>2, <3>1, <1>1, SameBounds
    <2>4. CASE c = x
      <3>1. state'[c] = "down" /\ ~deaf'[c]
        BY Zenon, <1>3, <2>4, EndState
      <3> QED
        BY ZenonT(60), <2>2, <2>4, <3>1, EndBounds
    <2> QED
      BY ZenonT(60), <2>3, <2>4
  <1> QED
    BY ZenonT(60), <1>2, <1>3 DEF NextTurn

\* client_register: another message uses up the turn.
LEMMA RegisterOtherBounds ==
  ASSUME TypeOK, TypeOK', NEW d \in net, d.to # Hub, RegisterOther(d, {}), UNCHANGED <<peers, quiet, cut>>,
         NEW c \in Clients, NEW n \in Nat, Bounds(c, n), Clocks(c), Adrift(c), Adrift(c)'
  PROVE  Bounds(c, n)'
  <1> DEFINE N == net \ {d}
  <1>1. d.from = Hub /\ c # Hub /\ d.to \in Clients
    BY TunDAssumption DEF TypeOK, Datagram
  <1>2. NextTurn(d.to, N) /\ state[d.to] = "register"
    <2>1. N \cup {} = N
      OBVIOUS
    <2>2. NextTurn(d.to, N \cup {}) /\ state[d.to] = "register"
      BY Zenon DEF RegisterOther
    <2> QED
      BY <2>1, <2>2, Zenon
  <1>3. N \in SUBSET net /\ \A y \in net : y.from = c => y \in N
    BY ZenonT(60), <1>1
  <1> HIDE DEF N
  <1> QED
    BY ZenonT(60), <1>1, <1>2, <1>3, NextTurnBounds

\* client_register: ASSIGN, and what client_init does next
LEMMA HandleAssignBounds ==
  ASSUME TypeOK, TypeOK', NEW d \in net, d.to # Hub, HandleAssign(d, {}), UNCHANGED <<peers, quiet, cut>>,
         NEW c \in Clients, NEW n \in Nat, Bounds(c, n), Clocks(c), Adrift(c), Adrift(c)'
  PROVE  Bounds(c, n)'
  <1> DEFINE M == {}
  <1>1. d.to \in Clients /\ Members' = Members
    BY ZenonT(60), TunDAssumption DEF TypeOK, Datagram, Members
  <1>2. net' = (net \ {d}) \cup Travels(M) /\ \A m \in M : m.from # c /\ m.to = Hub /\ m.type # "REGISTER"
    BY ZenonT(60) DEF HandleAssign, Sends
  <1>3. state[d.to] = "register" /\ d.type = "ASSIGN" /\ ~d.stale
    BY Zenon DEF HandleAssign
  <1> HIDE DEF M
  <1>4. ASSUME d.to = c PROVE Delayed(c, 0)
    BY <1>2, <1>4, OwnDelayed
  <1>5. CASE /\ state' = [state EXCEPT ![d.to] = "up"]
             /\ silence' = [silence EXCEPT ![d.to] = 0]
             /\ deaf' = deaf
    <2>1. CASE d.to # c
      <3>1. state'[c] = state[c] /\ deaf'[c] = deaf[c] /\ silence'[c] = silence[c]
        BY ZenonT(60), <1>5, <2>1 DEF TypeOK
      <3> QED
        BY ZenonT(60), <2>1, <3>1, <1>2, OthersBounds
    <2>2. CASE d.to = c
      <3>1. state'[c] = "up" /\ deaf'[c] = deaf[c] /\ silence'[c] = 0
        BY ZenonT(60), <1>5, <2>2 DEF TypeOK
      <3> QED
        BY ZenonT(60), <2>2, <3>1, <1>1, <1>3, <1>4, AcceptsBounds
    <2> QED
      BY Zenon, <2>1, <2>2
  <1>6. CASE End(d.to)
    <2>1. CASE d.to # c
      <3>1. state'[c] = state[c] /\ deaf'[c] = deaf[c] /\ silence'[c] = silence[c]
        BY ZenonT(60), <1>1, <1>6, <2>1, EndState
      <3> QED
        BY <2>1, <3>1, <1>2, OthersBounds
    <2>2. CASE d.to = c
      <3>1. state'[c] = "down" /\ ~deaf'[c]
        BY ZenonT(60), <1>1, <1>6, <2>2, EndState
      <3> QED
        BY ZenonT(60), <2>2, <3>1, <1>3, <1>4, EndBounds
    <2> QED
      BY Zenon, <2>1, <2>2
  <1> QED
    BY Zenon, <1>5, <1>6 DEF HandleAssign

\* client_handle_server_packet: a number that the client accepts
LEMMA AcceptedBounds ==
  ASSUME TypeOK, TypeOK', NEW d \in net, d.to # Hub, HandleNews(d, {}) \/ HandleUnknown(d, {}),
         UNCHANGED <<peers, quiet, cut>>,
         NEW c \in Clients, NEW n \in Nat, Bounds(c, n)
  PROVE  Bounds(c, n)'
  <1> DEFINE M == {}
  <1>1. Members' = Members
    BY Zenon DEF Members
  <1>2. net' = (net \ {d}) \cup Travels(M) /\ \A m \in M : m.from # c /\ m.to = Hub /\ m.type # "REGISTER"
    BY Zenon DEF HandleNews, HandleUnknown, Sends
  <1>3. state[d.to] = "up" /\ ~d.stale /\ UNCHANGED <<state, deaf>> /\ silence' = [silence EXCEPT ![d.to] = 0]
    BY Zenon DEF HandleNews, HandleUnknown
  <1> HIDE DEF M
  <1>4. CASE d.to # c
    <2>1. silence'[c] = silence[c]
      BY ZenonT(60), <1>3, <1>4 DEF TypeOK
    <2> QED
      BY ZenonT(60), <2>1, <1>2, <1>3, <1>4, OthersBounds
  <1>5. CASE d.to = c
    <2>1. silence'[c] = 0
      BY ZenonT(60), <1>3, <1>5 DEF TypeOK
    <2>2. Delayed(c, 0)
      BY ZenonT(60), <1>2, <1>5, OwnDelayed
    <2> QED
      BY ZenonT(60), <2>1, <2>2, <1>1, <1>3, <1>5, AcceptsBounds
  <1> QED
    BY ZenonT(60), <1>4, <1>5

\* The server has stopped: the client ends and says so.
LEMMA HandleStopBounds ==
  ASSUME TypeOK, TypeOK', NEW d \in net, d.to # Hub, HandleStop(d, {}), UNCHANGED <<peers, quiet, cut>>,
         NEW c \in Clients, NEW n \in Nat, Bounds(c, n), Clocks(c), Adrift(c), Adrift(c)'
  PROVE  Bounds(c, n)'
  <1> DEFINE M == {Message(d.to, Hub, "DISCONNECT", {})}
  <1>1. d.to \in Clients
    BY ZenonT(60), TunDAssumption DEF TypeOK, Datagram
  <1>2. net' = (net \ {d}) \cup Travels(M)
    BY ZenonT(60) DEF HandleStop, Sends
  <1>3. \A m \in M : m.from = d.to /\ m.to = Hub /\ m.type # "REGISTER"
    <2>1. LET m == Message(d.to, Hub, "DISCONNECT", {}) IN
          m.from = d.to /\ m.to = Hub /\ m.type # "REGISTER"
      BY Zenon DEF Message
    <2> QED
      BY Zenon, <2>1
  <1>4. state[d.to] = "up" /\ ~d.stale /\ End(d.to)
    BY ZenonT(60) DEF HandleStop
  <1> HIDE DEF M
  <1>5. CASE d.to # c
    <2>1. state'[c] = state[c] /\ deaf'[c] = deaf[c] /\ silence'[c] = silence[c]
      BY ZenonT(60), <1>1, <1>4, <1>5, EndState
    <2> QED
      BY Zenon, <2>1, <1>2, <1>3, <1>5, OthersBounds
  <1>6. CASE d.to = c
    <2>1. state'[c] = "down" /\ ~deaf'[c]
      BY Zenon, <1>1, <1>4, <1>6, EndState
    <2>2. Delayed(c, 0)
      BY Zenon, <1>2, <1>3, <1>6, OwnDelayed
    <2>3. deaf[c] => n <= Lifetime
      <3>1. d.age \in Nat /\ d.age <= Lifetime
        BY Numbers DEF TypeOK, Datagram
      <3>2. deaf[c] => n <= d.age
        BY <1>4, <1>6, Zenon DEF Bounds, DeafBound
      <3> QED
        BY <3>1, <3>2, Sums, Zenon
    <2> QED
      BY Zenon, <2>1, <2>2, <2>3, <1>4, <1>6, EndBounds
  <1> QED
    BY <1>5, <1>6

\* A packet that the client refuses
LEMMA ClientDropsBounds ==
  ASSUME TypeOK, TypeOK', NEW d \in net, d.to # Hub, ClientDrops(d, {}), UNCHANGED <<peers, quiet, cut>>,
         NEW c \in Clients, NEW n \in Nat, Bounds(c, n)
  PROVE  Bounds(c, n)'
  <1> DEFINE M == {}
  <1>1. Members' = Members
    BY Zenon DEF Members
  <1>2. net' = (net \ {d}) \cup Travels(M) /\ \A m \in M : m.from # c /\ m.to = Hub /\ m.type # "REGISTER"
    BY Zenon DEF ClientDrops, Sends
  <1>3. UNCHANGED <<state, deaf, silence>>
    BY Zenon DEF ClientDrops, clientVars
  <1> HIDE DEF M
  <1>4. CASE d.to # c
    BY Zenon, <1>2, <1>3, <1>4, OthersBounds
  <1>5. CASE d.to = c
    <2>1. Delayed(c, 0)
      BY <1>2, <1>5, OwnDelayed
    <2> QED
      BY Zenon, <2>1, <1>1, <1>3, SameBounds
  <1> QED
    BY <1>4, <1>5

\* All that a client does when a packet arrives
LEMMA ClientBounds ==
  ASSUME TypeOK, TypeOK', NEW d \in net, ClientHandles(d, {}), cut' = cut,
         NEW c \in Clients, NEW n \in Nat, Bounds(c, n), Clocks(c), Adrift(c), Adrift(c)'
  PROVE  Bounds(c, n)'
  <1>1. d.to # Hub /\ UNCHANGED <<peers, quiet, cut>>
    BY DEF ClientHandles, serverVars
  <1> QED
    BY <1>1, HandleAssignBounds, RegisterOtherBounds, AcceptedBounds, HandleStopBounds, ClientDropsBounds,
       Zenon DEF ClientHandles
-----------------------------------------------------------------------------
(* The other steps that are no faults. *)

\* main, client_init: a process starts, and its numbers may be refused.
LEMMA StartBounds ==
  ASSUME TypeOK, TypeOK', NEW x \in Clients, Start(x),
         NEW c \in Clients, NEW n \in Nat, Bounds(c, n), Clocks(c), Adrift(c), Adrift(c)'
  PROVE  Bounds(c, n)'
  <1>1. c # Hub /\ net \in SUBSET Datagram
    BY ZenonT(60), TunDAssumption DEF TypeOK
  <1>2. /\ state[x] = "down" /\ state' = [state EXCEPT ![x] = "register"]
        /\ silence' = [silence EXCEPT ![x] = 0]
        /\ UNCHANGED <<peers, quiet, deaf, cut>>
    BY DEF Start, serverVars
  <1>3. Members' = Members
    BY <1>2 DEF Members
  <1>4. PICK below \in BOOLEAN :
          /\ low' = [low EXCEPT ![x] = below]
          /\ net' = NewWindow(Hub, x, net)
               \cup Travels({[Message(x, Hub, "REGISTER", {}) EXCEPT !.stale = below]})
    BY Zenon DEF Start
  <1> DEFINE r == [Message(x, Hub, "REGISTER", {}) EXCEPT !.stale = below]
             M == {r}
             N == NewWindow(Hub, x, net)
  <1>5. r.from = x /\ r.to = Hub /\ r.stale = below
    BY DEF Message
  <1>6. net' = N \cup Travels(M)
    BY Zenon, <1>4
  <1>7. ASSUME NEW m \in N
        PROVE  \E y \in net : /\ m.from = y.from /\ m.to = y.to /\ m.type = y.type /\ m.age = y.age
                              /\ m = y \/ (y.from = Hub /\ y.to = x)
    BY <1>1, NewWindowFrom
  <1>8. ASSUME NEW y \in net, y.from # Hub PROVE y \in N
    BY Zenon, <1>8, NewWindowKeeps
  <1> HIDE DEF r, N
  <1>9. CASE c # x
    <2>1. state'[c] = state[c] /\ silence'[c] = silence[c]
      BY Zenon, <1>2, <1>9 DEF TypeOK
    <2>2. \A m \in M : m.from # c /\ m.to # c
      BY <1>1, <1>5, <1>9
    <2>3. \A m \in N : m.from = c \/ m.to = c => m \in net
      BY <1>1, <1>7, <1>9, Zenon
    <2>4. \A y \in net : y.from = c => y \in N
      BY <1>1, <1>8, Zenon
    <2> HIDE DEF M
    <2>5. Delayed(c, 0)
      BY <2>2, <2>3, <2>4, <1>6, DeliverDelayed, Zenon
    <2> QED
      BY Zenon, <2>1, <2>5, <1>2, <1>3, SameBounds
  <1>10. CASE c = x
    <2>1. state'[c] = "register" /\ ~deaf[c] /\ c \in Members
      BY Zenon, <1>2, <1>10 DEF TypeOK, Clocks, Adrift
    <2>2. low'[c] /\ low'[c] = below
      BY Zenon, <1>2, <1>3, <1>4, <1>10, <2>1 DEF Adrift, TypeOK
    <2>3. r.stale
      BY Zenon, <1>5, <2>2
    <2>4. \A y \in net : y.age = y.age + 0
      BY DEF TypeOK, Datagram
    <2>5. ASSUME NEW m \in net', m.from = c, ~m.stale PROVE m \in net
      <3>1. m \in N
        BY <2>3, <2>5, <1>6, Zenon DEF Travels
      <3>2. PICK y \in net : m.from = y.from /\ (m = y \/ (y.from = Hub /\ y.to = x))
        BY <3>1, <1>7, Zenon
      <3> QED
        BY <2>5, <3>2, <1>1, Zenon
    <2>6. ASSUME NEW m \in net', m.to = c PROVE \E y \in net : y.to = c /\ y.type = m.type /\ m.age = y.age + 0
      <3>1. m \in N
        BY <2>6, <1>1, <1>5, <1>6, Zenon DEF Travels
      <3>2. PICK y \in net : m.to = y.to /\ m.type = y.type /\ m.age = y.age
        BY <3>1, <1>7, Zenon
      <3> QED
        BY <2>4, <2>6, <3>2, Zenon
    <2>7. ASSUME NEW y \in net, y.from = c PROVE y \in net'
      BY <2>7, <1>1, <1>6, <1>8, Zenon
    <2>8. Delayed(c, 0)
      <3>1. \A m \in net' : m.from = c /\ m.type = "REGISTER" /\ (deaf[c] \/ ~m.stale) =>
              \E y \in net : /\ y.from = c /\ y.type = "REGISTER" /\ (deaf[c] \/ ~y.stale)
                             /\ m.age = y.age + 0
        BY <2>1, <2>4, <2>5, Zenon
      <3>2. \A m \in net' : m.to = c =>
              \E y \in net : /\ y.to = c /\ y.type = m.type /\ m.age = y.age + 0
                             /\ deaf[c] /\ ~m.stale => ~y.stale
        BY <2>1, <2>6, Zenon
      <3>3. \A y \in net : c \in Members /\ y.from = c /\ y.type = "DISCONNECT" /\ ~y.stale =>
              \E m \in net' : m.from = c /\ m.type = "DISCONNECT" /\ ~m.stale /\ m.age = y.age + 0
        BY <2>4, <2>7, ZenonT(60)
      <3> QED
        BY <3>1, <3>2, <3>3, Zenon DEF Delayed
    <2>9. quiet[c] + 0 = quiet[c] /\ n + 0 = n
      BY ClockTypes, Zenon
    <2>10. Bounds(c, n + 0)'
      BY <2>1, <2>8, <2>9, <1>2, <1>3, KeepsBounds
    <2> QED
      BY <2>9, <2>10, ZenonT(60)
  <1> QED
    BY Zenon, <1>9, <1>10

\* client_register: nothing arrives in time.
LEMMA TimeoutBounds ==
  ASSUME TypeOK, TypeOK', NEW x \in Clients, RegisterTimeout(x),
         NEW c \in Clients, NEW n \in Nat, Bounds(c, n), Clocks(c), Adrift(c), Adrift(c)'
  PROVE  Bounds(c, n)'
  <1>1. NextTurn(x, net) /\ state[x] = "register" /\ UNCHANGED <<peers, quiet, cut>>
    BY DEF RegisterTimeout, serverVars
  <1>2. net \in SUBSET net /\ \A y \in net : y.from = c => y \in net
    OBVIOUS
  <1> QED
    BY Zenon, <1>1, <1>2, NextTurnBounds

\* client_shutdown tells the server, once.
LEMMA QuitBounds ==
  ASSUME TypeOK, TypeOK', NEW x \in Clients, Quit(x),
         NEW c \in Clients, NEW n \in Nat, Bounds(c, n), Clocks(c), Adrift(c), Adrift(c)'
  PROVE  Bounds(c, n)'
  <1> DEFINE b == Message(x, Hub, "DISCONNECT", {})
             M == {b}
  <1>1. /\ End(x) /\ state[x] = "up" /\ UNCHANGED <<peers, quiet, cut>> /\ net' = net \cup Travels(M)
    BY Zenon DEF Quit, Sends, serverVars
  <1>2. b.from = x /\ b.to = Hub /\ b.type = "DISCONNECT" /\ b.stale = low[x] /\ x # Hub /\ c # Hub
    BY Zenon, TunDAssumption DEF Message
  <1>3. Members' = Members
    BY Zenon, <1>1 DEF Members
  <1>4. (\A m \in M : m.to # c /\ m.type # "REGISTER") /\ \A m \in net : m \in net
    BY <1>2
  <1> HIDE DEF b
  <1>5. Delayed(c, 0)
    <2> HIDE DEF M
    <2> QED
      BY <1>1, <1>4, DeliverDelayed, Zenon
  <1>6. CASE c # x
    <2>1. state'[c] = state[c] /\ deaf'[c] = deaf[c] /\ silence'[c] = silence[c]
      BY ZenonT(60), <1>1, <1>6, EndState
    <2> QED
      BY ZenonT(60), <2>1, <1>1, <1>3, <1>5, SameBounds
  <1>7. CASE c = x
    <2>1. state'[c] = "down" /\ ~deaf'[c]
      BY Zenon, <1>1, <1>7, EndState
    <2>2. ASSUME deaf[c], c \notin cut PROVE \E m \in net' : m.from = c /\ m.type = "DISCONNECT" /\ ~m.stale
      <3>1. EndpointOf(b) = c
        BY ZenonT(60), <1>2, <1>7 DEF EndpointOf
      <3>2. b \in net'
        BY <2>2, <3>1, <1>1, ZenonT(60) DEF Travels
      <3>3. ~b.stale
        BY ZenonT(60), <2>2, <1>2, <1>7 DEF Clocks
      <3> QED
        BY <3>2, <3>3, <1>2, <1>7, ZenonT(60)
    <2> QED
      BY Zenon, <2>1, <2>2, <1>1, <1>5, <1>7, EndBounds
  <1> QED
    BY Zenon, <1>6, <1>7

\* A link works again, or nothing happens.
LEMMA HealBounds ==
  ASSUME TypeOK, TypeOK', UNCHANGED <<serverVars, clientVars, net>>, cut' \subseteq cut,
         NEW c \in Clients, NEW n \in Nat, Bounds(c, n)
  PROVE  Bounds(c, n)'
  <1> DEFINE M == {}
  <1>1. UNCHANGED <<peers, quiet, state, silence, deaf>> /\ net' = net \cup Travels(M)
    BY Zenon DEF serverVars, clientVars, Travels
  <1>2. (\A m \in M : m.to # c /\ m.from # c) /\ \A m \in net : m \in net
    OBVIOUS
  <1> HIDE DEF M
  <1>3. Delayed(c, 0)
    BY <1>1, <1>2, DeliverDelayed, Zenon
  <1>4. Members' = Members
    BY Zenon, <1>1 DEF Members
  <1> QED
    BY ZenonT(60), <1>1, <1>3, <1>4, SameBounds

\* server_timeout_thread, one PEER_LEAVE: c was a member when it was decided, and
\* has not been adrift for long if it is none any more.
LEMMA SendLeaveBounds ==
  ASSUME TypeOK, TypeOK', NEW l \in leaves, SendLeave(l),
         NEW c \in Clients, NEW n \in Nat, Bounds(c, n), OwedBound(c, n)
  PROVE  Bounds(c, n)'
  <1> DEFINE f == Farewell(l)
             M == {f}
  <1>1. UNCHANGED <<peers, quiet, state, silence, deaf, cut>> /\ net' = net \cup Travels(M)
    BY Zenon DEF SendLeave, clientVars
  <1>2. l.to \in Clients /\ c # Hub
    BY TunDAssumption DEF TypeOK
  <1>3. f.from = Hub /\ f.to = l.to /\ f.type = "PEER_LEAVE" /\ f.stale = deaf[l.to] /\ f.age = 0
    BY Zenon DEF Farewell, Message
  <1>4. f.type # "ASSIGN" /\ f.from # c
    BY <1>2, <1>3
  <1> HIDE DEF f
  <1>5. Members' = Members
    BY Zenon, <1>1 DEF Members
  <1>6. CASE l.to # c \/ c \in Members \/ deaf[c]
    <2>1. \A m \in M : m.from # c /\ (m.to = c => m.type # "ASSIGN" /\ (c \in Members \/ deaf[c]) /\ (deaf[c] => m.stale))
      BY <1>3, <1>4, <1>6, ZenonT(60)
    <2>2. \A m \in net : m \in net
      OBVIOUS
    <2> HIDE DEF M
    <2>3. Delayed(c, 0)
      BY <1>1, <2>1, <2>2, DeliverDelayed, ZenonT(60)
    <2> QED
      BY ZenonT(60), <1>1, <1>5, <2>3, SameBounds
  <1>7. CASE l.to = c /\ c \notin Members /\ ~deaf[c]
    <2>1. StrayBound(c, n) /\ n <= PeerTicks + Lifetime + 2
      BY <1>7, Zenon DEF Bounds, OwedBound, Owed
    <2>2. ASSUME NEW m \in net', m.to = c PROVE n <= PeerTicks + Lifetime + 2 + m.age
      <3>1. CASE m \in net
        BY <2>1, <2>2, <3>1, Zenon DEF StrayBound
      <3>2. CASE m = f
        BY <1>3, <2>1, <3>2, Numbers
      <3> QED
        BY <3>1, <3>2, <1>1, Zenon DEF Travels
    <2>3. StrayBound(c, n)'
      BY <1>1, <2>1, <2>2, Zenon DEF StrayBound
    <2> QED
      BY <1>1, <1>5, <1>7, <2>3, Zenon DEF Bounds
  <1> QED
    BY <1>6, <1>7, Zenon
-----------------------------------------------------------------------------
(* An interval passes. *)

\* What the clients of T say when they stop, and what was on its way, an
\* interval later
Stopping(T) == {Message(y, Hub, "DISCONNECT", {}) : y \in T}
Aged == {[d EXCEPT !.age = @ + 1] : d \in net}


\* What is in flight gets older; what is sent is no request and no answer.
LEMMA TickDelayed ==
  ASSUME TypeOK, NEW T, net' = Aged \cup Travels(Stopping(T)),
         NEW c \in Clients
  PROVE  /\ Delayed(c, 1)
         /\ \A m \in net' : m.to = c => \E y \in net : y.to = c /\ m.age = y.age + 1
         /\ c \in T /\ c \notin cut =>
              \E m \in net' : m.from = c /\ m.type = "DISCONNECT" /\ m.stale = low[c]
  <1>1. c # Hub
    BY TunDAssumption, Zenon
  <1>2. ASSUME NEW m \in Aged
        PROVE  \E y \in net : /\ m.from = y.from /\ m.to = y.to /\ m.type = y.type
                              /\ m.stale = y.stale /\ m.age = y.age + 1
    <2>1. PICK y \in net : m = [y EXCEPT !.age = @ + 1]
      BY Zenon DEF Aged
    <2>2. y \in Datagram
      BY DEF TypeOK
    <2>3. /\ m.from = y.from /\ m.to = y.to /\ m.type = y.type
          /\ m.stale = y.stale /\ m.age = y.age + 1
      BY <2>1, <2>2 DEF Datagram
    <2> QED
      BY <2>3, Zenon
  <1>3. ASSUME NEW y \in net
        PROVE  \E m \in Aged : /\ m.from = y.from /\ m.to = y.to /\ m.type = y.type
                            /\ m.stale = y.stale /\ m.age = y.age + 1
    <2> DEFINE m == [y EXCEPT !.age = @ + 1]
    <2>1. y \in Datagram
      BY DEF TypeOK
    <2>2. /\ m.from = y.from /\ m.to = y.to /\ m.type = y.type
          /\ m.stale = y.stale /\ m.age = y.age + 1
      BY <2>1 DEF Datagram
    <2>3. m \in Aged
      BY ZenonT(60) DEF Aged
    <2> HIDE DEF m
    <2> QED
      BY <2>2, <2>3, Zenon
  <1>4. ASSUME NEW m \in Stopping(T) PROVE m.to = Hub /\ m.type = "DISCONNECT" /\ m.age = 0
    <2>1. PICK y \in T : m = Message(y, Hub, "DISCONNECT", {})
      BY Zenon DEF Stopping
    <2> QED
      BY Zenon, <2>1 DEF Message
  <1>6. c \in T => Message(c, Hub, "DISCONNECT", {}) \in Stopping(T)
    BY Zenon DEF Stopping
  <1>7. ASSUME NEW m \in net' PROVE m \in Aged \/ m \in Stopping(T)
    BY Zenon DEF Travels
  <1>8. ASSUME NEW m \in net', m.from = c, m.type = "REGISTER" PROVE m \in Aged
    <2>1. m \notin Stopping(T)
      BY <1>4, <1>8
    <2> QED
      BY <2>1, <1>7, Zenon
  <1>9. ASSUME NEW m \in net', m.to = c PROVE m \in Aged
    <2>1. m \notin Stopping(T)
      BY <1>1, <1>4, <1>9
    <2> QED
      BY <2>1, <1>7, Zenon
  <1>10. Delayed(c, 1)
    <2>1. ASSUME NEW m \in net', m.from = c, m.type = "REGISTER", deaf[c] \/ ~m.stale
          PROVE  \E x \in net : /\ x.from = c /\ x.type = "REGISTER" /\ (deaf[c] \/ ~x.stale)
                                /\ m.age = x.age + 1
      <3>1. m \in Aged
        BY Zenon, <2>1, <1>8
      <3>2. PICK y \in net : /\ m.from = y.from /\ m.to = y.to /\ m.type = y.type
                             /\ m.stale = y.stale /\ m.age = y.age + 1
        BY <3>1, <1>2
      <3> QED
        BY <2>1, <3>2, ZenonT(60)
    <2>2. ASSUME NEW m \in net', m.to = c
          PROVE  \/ m.type # "ASSIGN" /\ (c \in Members \/ deaf[c]) /\ (deaf[c] => m.stale)
                 \/ \E x \in net : /\ x.to = c /\ x.type = m.type /\ m.age = x.age + 1
                                   /\ deaf[c] /\ ~m.stale => ~x.stale
      <3>1. m \in Aged
        BY Zenon, <2>2, <1>9
      <3>2. PICK y \in net : /\ m.from = y.from /\ m.to = y.to /\ m.type = y.type
                             /\ m.stale = y.stale /\ m.age = y.age + 1
        BY Zenon, <3>1, <1>2
      <3> QED
        BY <2>2, <3>2, ZenonT(60)
    <2>3. ASSUME NEW x \in net, c \in Members, x.from = c, x.type = "DISCONNECT", ~x.stale
          PROVE  \E m \in net' : m.from = c /\ m.type = "DISCONNECT" /\ ~m.stale /\ m.age = x.age + 1
      <3>1. PICK m \in Aged : /\ m.from = x.from /\ m.to = x.to /\ m.type = x.type
                           /\ m.stale = x.stale /\ m.age = x.age + 1
        BY <1>3
      <3>2. m \in net'
        BY <3>1, Zenon
      <3> QED
        BY <2>3, <3>1, <3>2, ZenonT(60)
    <2> QED
      BY <2>1, <2>2, <2>3, Zenon DEF Delayed
  <1>11. ASSUME NEW m \in net', m.to = c
         PROVE  \E y \in net : y.to = c /\ m.age = y.age + 1
    <2>1. m \in Aged
      BY <1>9, <1>11, Zenon
    <2>2. PICK y \in net : m.to = y.to /\ m.age = y.age + 1
      BY <2>1, <1>2, Zenon
    <2> QED
      BY <1>11, <2>2, Zenon
  <1>12. ASSUME c \in T, c \notin cut PROVE \E m \in net' : m.from = c /\ m.type = "DISCONNECT" /\ m.stale = low[c]
    <2> DEFINE b == Message(c, Hub, "DISCONNECT", {})
    <2>1. b.from = c /\ b.type = "DISCONNECT" /\ b.stale = low[c]
      BY Zenon, <1>1 DEF Message
    <2>2. EndpointOf(b) = c
      BY Zenon, <2>1, <1>1 DEF EndpointOf
    <2>3. b \in Stopping(T)
      BY <1>6, <1>12
    <2> HIDE DEF b
    <2>4. b \in net'
      BY <2>2, <2>3, <1>1, <1>12, Zenon DEF Travels
    <2> QED
      BY <2>1, <2>4, ZenonT(60)
  <1> QED
    BY <1>10, <1>11, <1>12

\* An interval passes, and what bounds a disagreement is an interval older.
LEMMA TickBounds ==
  ASSUME TypeOK, TypeOK', Tick, NEW c \in Clients, NEW n \in Nat, Bounds(c, n), Clocks(c),
         Adrift(c) \/ n = 0, Adrift(c)'
  PROVE  Bounds(c, n + 1)'
  <1>1. PICK evicted \in Overdue(Members, quiet, PeerTicks), stopped \in Overdue(Up, silence, ServerTicks) :
          /\ peers' = [y \in Clients |-> IF y \in evicted THEN None ELSE peers[y]]
          /\ quiet' = [y \in Clients |-> IF y \in Members \ (evicted \cup (Heard \ stopped))
                                         THEN Older(quiet[y], PeerTicks) ELSE 0]
          /\ Forget(stopped)
          /\ silence' = [y \in Clients |->
                           IF state[y] = "down" \/ y \in stopped \cup (Hears \ evicted)
                           THEN 0 ELSE Older(silence[y], ServerTicks)]
          /\ net' = {[d EXCEPT !.age = @ + 1] : d \in net}
                      \cup Travels({Message(y, Hub, "DISCONNECT", {}) : y \in stopped})
    BY Zenon DEF Tick
  <1>2. evicted \subseteq Members /\ stopped \subseteq Up /\ cut' = cut
    BY DEF Overdue, Tick
  <1>3. c \in Members' <=> c \in Members /\ c \notin evicted
    BY <1>1 DEF Members
  <1>4. /\ c \in stopped => state[c] = "up" /\ state'[c] = "down" /\ ~deaf'[c]
        /\ c \notin stopped => state'[c] = state[c] /\ deaf'[c] = deaf[c]
    <2>1. c \in stopped => state[c] = "up"
      BY <1>2 DEF Up
    <2>2. state'[c] = (IF c \in stopped THEN "down" ELSE state[c]) /\ deaf'[c] = (deaf[c] /\ c \notin stopped)
      BY ZenonT(60), <1>1 DEF Forget
    <2>3. deaf[c] \in BOOLEAN
      BY ZenonT(60) DEF TypeOK
    <2> QED
      BY <2>1, <2>2, <2>3, Zenon
  <1>5. quiet[c] \in Nat /\ silence[c] \in Nat /\ quiet'[c] \in Nat /\ silence'[c] \in Nat
    BY ClockTypes, ClockTypesNext, Zenon
  <1>6. /\ Delayed(c, 1)
        /\ \A m \in net' : m.to = c => \E y \in net : y.to = c /\ m.age = y.age + 1
        /\ c \in stopped /\ c \notin cut =>
             \E m \in net' : m.from = c /\ m.type = "DISCONNECT" /\ m.stale = low[c]
    <2>1. net' = Aged \cup Travels(Stopping(stopped))
      BY <1>1, Zenon DEF Stopping, Aged
    <2>2. TypeOK /\ c \in Clients
      BY ZenonT(60)
    <2> QED
      BY ONLY <2>1, <2>2, TickDelayed
  <1>7. ASSUME c \in Members', c \notin Heard PROVE quiet'[c] = quiet[c] + 1
    <2>1. c \in Members \ (evicted \cup (Heard \ stopped)) /\ quiet[c] <= PeerTicks
      BY Zenon, <1>3, <1>7 DEF Clocks
    <2>2. quiet'[c] = Older(quiet[c], PeerTicks)
      BY Zenon, <1>1, <2>1
    <2> QED
      BY <2>1, <2>2, <1>5, Numbers, OlderBelow, Zenon
  <1>8. ASSUME state[c] # "down", c \notin stopped, c \notin Hears \/ c \in evicted PROVE silence'[c] = silence[c] + 1
    <2>1. silence[c] <= ServerTicks
      <3>1. state[c] = "register" => silence[c] < 2
        BY ZenonT(60) DEF Tick
      <3>2. state[c] = "register" \/ state[c] = "up"
        BY ZenonT(60), <1>8 DEF TypeOK
      <3> QED
        BY <3>1, <3>2, <1>5, Sums, Zenon DEF Clocks
    <2>2. silence'[c] = Older(silence[c], ServerTicks)
      BY ZenonT(60), <1>1, <1>8
    <2> QED
      BY <2>1, <2>2, <1>5, Numbers, OlderBelow, Zenon
  <1>9. CASE ~Adrift(c)
    <2>1. n = 0 /\ n + 1 = 1
      BY SMTT(60), <1>9
    <2>2. ~deaf'[c]
      BY ZenonT(60), <1>3, <1>4, <1>9 DEF Adrift
    <2>3. Bounds(c, 1)'
      BY <2>2, ClockTypes, ZeroBounds, Zenon
    <2> QED
      BY ZenonT(60), <2>1, <2>3
  <1>10. CASE Adrift(c) /\ deaf[c] /\ c \in stopped
    <2>1. c \in Members' /\ state'[c] = "down" /\ state[c] = "up" /\ ~low[c]
      BY ZenonT(60), <1>4, <1>10 DEF Adrift, Clocks
    <2>2. n + 1 <= ServerTicks + 2 * Lifetime + 2
      <3>1. n <= Lifetime + silence[c] /\ silence[c] <= ServerTicks
        BY <2>1, <1>10, ZenonT(60) DEF Bounds, DeafBound, Clocks
      <3> QED
        BY <3>1, <1>5, Sums, Zenon
    <2>3. c \in cut => c \in Members /\ quiet'[c] = quiet[c] + 1
      BY ZenonT(60), <2>1, <1>3, <1>7 DEF Heard, Linked
    <2>4. c \notin cut => \E m \in net' : m.from = c /\ m.type = "DISCONNECT" /\ ~m.stale
      BY <2>1, <1>6, <1>10, ZenonT(60)
    <2>5. ~deaf'[c]
      BY <1>4, <1>10
    <2> QED
      BY SMTT(60), <2>1, <2>2, <2>3, <2>4, <2>5, <1>6, <1>10, DeafEnds
  <1>11. CASE Adrift(c) /\ ~deaf[c] /\ c \in evicted
    <2>1. c \in Members /\ c \notin Members' /\ state'[c] = "up" /\ state[c] = "up" /\ c \notin stopped
      BY ZenonT(60), <1>2, <1>3, <1>4, <1>11 DEF Adrift
    <2>3. n <= PeerTicks + Lifetime + 2
      BY <2>1, <1>11, UpEntry, ZenonT(60)
    <2>4. silence'[c] = silence[c] + 1
      BY Zenon, <2>1, <1>8, <1>11
    <2>5. n + 1 <= PeerTicks + 2 * Lifetime + 2 + silence'[c]
      BY <2>3, <2>4, <1>5, Sums, Zenon
    <2>6. ASSUME NEW m \in net', m.to = c PROVE n + 1 <= PeerTicks + Lifetime + 2 + m.age
      <3>1. PICK y \in net : m.age = y.age + 1
        BY <2>6, <1>6, <1>11, ZenonT(60)
      <3>2. y.age \in Nat
        BY Ages, Zenon
      <3> QED
        BY <2>3, <3>1, <3>2, Sums, Zenon
    <2>7. StrayBound(c, n + 1)'
      BY <2>5, <2>6, Zenon DEF StrayBound
    <2>8. ~deaf'[c]
      BY <2>1, <1>4, <1>11, ZenonT(60)
    <2> QED
      BY <2>1, <2>7, <2>8, ZenonT(60) DEF Bounds
  <1>12. CASE Adrift(c) /\ (deaf[c] => c \notin stopped) /\ (~deaf[c] => c \notin evicted)
    <2>1. deaf'[c] = deaf[c] /\ (deaf[c] => state'[c] = state[c]) /\ (state'[c] = "up" => state[c] = "up")
      BY Zenon, <1>4, <1>12 DEF TypeOK
    <2>2. c \in Members' /\ (~deaf[c] \/ c \in cut) => quiet'[c] = quiet[c] + 1
      <3> SUFFICES ASSUME c \in Members', ~deaf[c] \/ c \in cut PROVE c \notin Heard
        BY Zenon, <1>7
      <3>1. c \in Members
        BY Zenon, <1>3
      <3>2. c \in cut \/ state[c] = "down" \/ low[c]
        BY Zenon, <3>1, <1>12 DEF Adrift
      <3> QED
        BY Zenon, <3>2 DEF Heard, Linked, Up
    <2>3. deaf[c] \/ c \notin Members => silence'[c] = silence[c] + 1
      <3> SUFFICES ASSUME deaf[c] \/ c \notin Members PROVE state[c] # "down" /\ c \notin stopped /\ c \notin Hears
        BY Zenon, <1>8
      <3>1. CASE deaf[c]
        BY Zenon, <3>1, <1>12 DEF Hears, Clocks
      <3>2. CASE ~deaf[c] /\ c \notin Members
        <4>1. c \notin Members' /\ state'[c] = "up"
          BY Zenon, <3>2, <1>3 DEF Adrift
        <4> QED
          BY Zenon, <3>2, <4>1, <1>4 DEF Hears, Linked
      <3> QED
        BY Zenon, <3>1, <3>2
    <2>4. /\ c \in cut' => c \in cut
          /\ c \in Members' => c \in Members
          /\ ~deaf[c] /\ c \in Members => c \in Members'
      BY <1>2, <1>3, <1>12, Zenon
    <2>5. Delayed(c, 1) /\ 1 \in 0 .. 1
      BY <1>6, ClockTypes, Zenon
    <2> QED
      BY <2>1, <2>2, <2>3, <2>4, <2>5, KeepsBounds, ZenonT(60)
  <1> QED
    BY ZenonT(60), <1>9, <1>10, <1>11, <1>12
-----------------------------------------------------------------------------
(* The clocks. *)

\* The server's handlers
LEMMA ServerClocks ==
  ASSUME TypeOK, NEW d \in net, NEW copy, ServerHandles(d, copy), NEW c \in Clients, Clocks(c)
  PROVE  Clocks(c)'
  <1>1. UNCHANGED <<state, silence, attempt, deaf>>
    BY Zenon DEF ServerHandles, clientVars
  <1>2. d.from \in Clients
    BY Zenon DEF ServerHandles, TypeOK, Datagram
  <1>3. CASE RegisterKnown(d, copy)
    <2>1. UNCHANGED <<peers, low>> /\ (quiet'[c] = 0 \/ quiet'[c] = quiet[c])
      BY ZenonT(60), <1>3 DEF RegisterKnown, TypeOK
    <2> QED
      BY SMTT(60), <2>1, <1>1, Numbers DEF Clocks, Members
  <1>4. CASE RegisterNew(d, copy)
    <2>1. PICK v \in Vips : peers' = [peers EXCEPT ![d.from] = v]
      BY <1>4, Zenon DEF RegisterNew
    <2>2. low' = low /\ quiet' = [quiet EXCEPT ![d.from] = 0]
      BY ZenonT(60), <1>4 DEF RegisterNew
    <2>3. IF c = d.from THEN c \in Members' /\ quiet'[c] = 0
                        ELSE (c \in Members' <=> c \in Members) /\ quiet'[c] = quiet[c]
      BY ZenonT(60), <2>1, <2>2, <1>2, TunDAssumption DEF TypeOK, Members
    <2> QED
      BY <2>2, <2>3, <1>1, Numbers DEF Clocks
  <1>5. CASE HandleDisconnect(d, copy)
    <2>1. IF c = d.from THEN c \notin Members' /\ ~low'[c]
                        ELSE (c \in Members' <=> c \in Members) /\ quiet'[c] = quiet[c] /\ low'[c] = low[c]
      BY ZenonT(60), <1>2, <1>5 DEF HandleDisconnect, TypeOK, Members
    <2> QED
      BY ZenonT(60), <2>1, <1>1 DEF Clocks
  <1>6. CASE ServerDrops(d, copy)
    BY Zenon, <1>1, <1>6 DEF ServerDrops, serverVars, Clocks, Members
  <1> QED
    BY Zenon, <1>3, <1>4, <1>5, <1>6 DEF ServerHandles

\* A process ends.
LEMMA EndClocks ==
  ASSUME TypeOK, NEW x \in Clients, End(x), UNCHANGED <<peers, quiet, low>>, NEW c \in Clients, Clocks(c)
  PROVE  Clocks(c)'
  <1>1. CASE c = x
    <2>1. state'[c] = "down" /\ attempt'[c] = 0 /\ ~deaf'[c]
      BY ZenonT(60), <1>1 DEF End, Forget
    <2> QED
      BY <2>1, ZenonT(60) DEF Clocks, Members
  <1>2. CASE c # x
    <2>1. state'[c] = state[c] /\ attempt'[c] = attempt[c] /\ silence'[c] = silence[c]
      BY ZenonT(60), <1>2 DEF End, Forget, TypeOK
    <2>2. deaf'[c] = deaf[c]
      BY ZenonT(60), <1>2 DEF End, Forget, TypeOK
    <2> QED
      BY ZenonT(60), <2>1, <2>2 DEF Clocks, Members
  <1> QED
    BY <1>1, <1>2

\* client_register: a turn that is used up stops no clock.
LEMMA NextTurnClocks ==
  ASSUME TypeOK, NEW x \in Clients, NEW N, NextTurn(x, N), state[x] = "register",
         UNCHANGED <<peers, quiet, low>>, NEW c \in Clients, Clocks(c)
  PROVE  Clocks(c)'
  <1>1. CASE /\ attempt' = [attempt EXCEPT ![x] = @ + 1]
             /\ UNCHANGED <<state, virtIp, silence, view, deaf>>
    <2>1. c # x => attempt'[c] = attempt[c]
      BY ZenonT(60), <1>1 DEF TypeOK
    <2> QED
      BY ZenonT(60), <2>1, <1>1 DEF Clocks, Members
  <1>2. CASE End(x)
    BY ZenonT(60), <1>2, EndClocks
  <1> QED
    BY ZenonT(60), <1>1, <1>2 DEF NextTurn

\* The clients' handlers
LEMMA ClientClocks ==
  ASSUME TypeOK, NEW d \in net, NEW copy, ClientHandles(d, copy), NEW c \in Clients, Clocks(c)
  PROVE  Clocks(c)'
  <1>1. UNCHANGED <<peers, quiet, low>> /\ d.to \in Clients
    BY ZenonT(60) DEF ClientHandles, serverVars, TypeOK, Datagram
  <1>2. CASE HandleAssign(d, copy)
    <2>1. CASE /\ state' = [state EXCEPT ![d.to] = "up"]
               /\ attempt' = [attempt EXCEPT ![d.to] = 0]
               /\ silence' = [silence EXCEPT ![d.to] = 0]
               /\ deaf' = deaf
      <3>1. IF c = d.to THEN state'[c] = "up" /\ attempt'[c] = 0 /\ silence'[c] = 0
                        ELSE state'[c] = state[c] /\ attempt'[c] = attempt[c] /\ silence'[c] = silence[c]
        BY Zenon, <2>1 DEF TypeOK
      <3> QED
        BY SMTT(60), <2>1, <3>1, <1>1, Numbers DEF Clocks, Members
    <2>2. CASE End(d.to)
      BY Zenon, <2>2, <1>1, EndClocks
    <2> QED
      BY ZenonT(60), <1>2, <2>1, <2>2 DEF HandleAssign
  <1>3. CASE RegisterOther(d, copy)
    <2>1. NextTurn(d.to, (net \ {d}) \cup copy) /\ state[d.to] = "register"
      BY Zenon, <1>3 DEF RegisterOther
    <2> QED
      BY Zenon, <2>1, <1>1, NextTurnClocks
  <1>4. CASE HandleNews(d, copy) \/ HandleUnknown(d, copy)
    <2>1. /\ UNCHANGED <<state, attempt, deaf>> /\ silence' = [silence EXCEPT ![d.to] = 0]
      BY ZenonT(60), <1>4 DEF HandleNews, HandleUnknown
    <2>2. silence'[c] = 0 \/ silence'[c] = silence[c]
      BY Zenon, <2>1 DEF TypeOK
    <2> QED
      BY SMTT(60), <2>1, <2>2, <1>1, Numbers DEF Clocks, Members
  <1>5. CASE HandleStop(d, copy)
    BY Zenon, <1>1, <1>5, EndClocks DEF HandleStop
  <1>6. CASE ClientDrops(d, copy)
    BY Zenon, <1>1, <1>6 DEF ClientDrops, clientVars, Clocks, Members
  <1> QED
    BY ZenonT(60), <1>2, <1>3, <1>4, <1>5, <1>6 DEF ClientHandles

\* A process starts: its numbers are refused only if the server has an entry.
LEMMA StartClocks ==
  ASSUME TypeOK, NEW x \in Clients, Start(x), NEW c \in Clients, Clocks(c)
  PROVE  Clocks(c)'
  <1>1. PICK below \in BOOLEAN : (below => x \in Members) /\ low' = [low EXCEPT ![x] = below]
    BY Zenon DEF Start
  <1>2. /\ state[x] = "down" /\ state' = [state EXCEPT ![x] = "register"]
        /\ silence' = [silence EXCEPT ![x] = 0] /\ UNCHANGED <<peers, quiet, attempt, deaf>>
    BY Zenon DEF Start, serverVars
  <1>3. IF c = x THEN state'[c] = "register" /\ silence'[c] = 0 /\ low'[c] = below
                 ELSE state'[c] = state[c] /\ silence'[c] = silence[c] /\ low'[c] = low[c]
    BY Zenon, <1>1, <1>2 DEF TypeOK
  <1> QED
    BY <1>1, <1>2, <1>3 DEF Clocks, Members

\* A new server has no entries.
LEMMA RestartClocks ==
  ASSUME TypeOK, ServerRestart, NEW c \in Clients, Clocks(c)
  PROVE  Clocks(c)'
  <1>1. peers'[c] = None /\ ~low'[c] /\ UNCHANGED <<state, silence, attempt>>
    BY Zenon DEF ServerRestart
  <1>2. PICK S \in SUBSET {y \in Faulty : state[y] = "up" \/ attempt[y] > 0} :
          deaf' = [y \in Clients |-> y \in S]
    BY Zenon DEF ServerRestart
  <1>3. deaf'[c] => state[c] # "down"
    BY <1>2 DEF Clocks, TypeOK
  <1> QED
    BY Zenon, <1>1, <1>3 DEF Clocks, Members

\* A clock that would pass its limit ends what it measures.
LEMMA TickClocks ==
  ASSUME TypeOK, Tick, NEW c \in Clients, Clocks(c)
  PROVE  Clocks(c)'
  <1>1. PICK evicted \in Overdue(Members, quiet, PeerTicks), stopped \in Overdue(Up, silence, ServerTicks) :
          /\ peers' = [y \in Clients |-> IF y \in evicted THEN None ELSE peers[y]]
          /\ low' = [y \in Clients |-> low[y] /\ y \notin evicted]
          /\ quiet' = [y \in Clients |-> IF y \in Members \ (evicted \cup (Heard \ stopped))
                                         THEN Older(quiet[y], PeerTicks) ELSE 0]
          /\ Forget(stopped)
          /\ silence' = [y \in Clients |->
                           IF state[y] = "down" \/ y \in stopped \cup (Hears \ evicted)
                           THEN 0 ELSE Older(silence[y], ServerTicks)]
    BY ZenonT(60) DEF Tick
  <1>2. quiet[c] \in Nat /\ silence[c] \in Nat
    BY DEF TypeOK
  <1>3. c \in Members' <=> c \in Members /\ c \notin evicted
    BY ZenonT(60), <1>1 DEF Members
  <1>4. c \in Members' => quiet'[c] <= PeerTicks
    <2> SUFFICES ASSUME c \in Members' PROVE quiet'[c] <= PeerTicks
      BY Zenon
    <2>1. ~(quiet[c] + 1 > PeerTicks)
      BY ZenonT(60), <1>3 DEF Overdue
    <2>2. quiet'[c] = Older(quiet[c], PeerTicks) \/ quiet'[c] = 0
      BY <1>1
    <2> QED
      BY ONLY SMTT(60), <2>1, <2>2, <1>2, Numbers DEF Older
  <1>5. /\ c \in stopped => state'[c] = "down" /\ attempt'[c] = 0 /\ ~deaf'[c]
        /\ c \notin stopped => state'[c] = state[c] /\ attempt'[c] = attempt[c]
        /\ deaf'[c] => deaf[c]
    BY <1>1, ZenonT(60) DEF Forget
  <1>6. silence'[c] = Older(silence[c], ServerTicks) \/ silence'[c] = 0
    BY Zenon, <1>1
  <1>7. state'[c] = "up" => silence'[c] <= ServerTicks
    <2> SUFFICES ASSUME state'[c] = "up" PROVE silence'[c] <= ServerTicks
      BY Zenon
    <2>1. c \in Up /\ c \notin stopped
      BY ZenonT(60), <1>5 DEF Up
    <2>2. ~(silence[c] + 1 > ServerTicks)
      BY ZenonT(60), <2>1 DEF Overdue
    <2> QED
      BY ONLY SMTT(60), <2>2, <1>2, <1>6, Numbers DEF Older
  <1>8. state'[c] = "register" => silence'[c] <= 2
    <2> SUFFICES ASSUME state'[c] = "register" PROVE silence'[c] <= 2
      OBVIOUS
    <2>1. silence[c] < 2
      BY Zenon, <1>5 DEF Tick
    <2> QED
      BY ONLY SMTT(60), <2>1, <1>2, <1>6, Numbers DEF Older
  <1>9. (low'[c] => low[c] /\ c \notin evicted)
    BY Zenon, <1>1
  <1>10. (state'[c] # "register" => attempt'[c] = 0) /\ (deaf'[c] => state'[c] # "down" /\ ~low'[c])
    BY <1>5, <1>9, Zenon DEF Clocks
  <1>11. low'[c] => c \in Members'
    BY <1>3, <1>9 DEF Clocks
  <1> QED
    BY <1>4, <1>7, <1>8, <1>10, <1>11, Zenon DEF Clocks

\* The clocks stay within their limits, whatever happens.
LEMMA StepClocks ==
  ASSUME TypeOK, [Next]_vars, NEW c \in Clients, Clocks(c)
  PROVE  Clocks(c)'
  <1>1. ASSUME NEW d \in net, Deliver(d) PROVE Clocks(c)'
    <2>1. PICK copy \in Copies(d) : ServerHandles(d, copy) \/ ClientHandles(d, copy)
      BY <1>1 DEF Deliver
    <2> QED
      BY <2>1, ServerClocks, ClientClocks, Zenon
  <1>2. ASSUME NEW x \in Clients, Start(x) PROVE Clocks(c)'
    BY <1>2, StartClocks, Zenon
  <1>3. ASSUME NEW x \in Clients, RegisterTimeout(x) PROVE Clocks(c)'
    <2>1. NextTurn(x, net) /\ state[x] = "register" /\ UNCHANGED <<peers, quiet, low>>
      BY <1>3 DEF RegisterTimeout, serverVars
    <2> QED
      BY <2>1, NextTurnClocks, Zenon
  <1>4. ASSUME NEW x \in Clients, Quit(x) \/ Crash(x) PROVE Clocks(c)'
    <2>1. End(x) /\ UNCHANGED <<peers, quiet, low>>
      BY ZenonT(60), <1>4 DEF Quit, Crash, serverVars
    <2> QED
      BY <2>1, EndClocks, Zenon
  <1>5. ASSUME UNCHANGED <<peers, quiet, state, silence, attempt, deaf, low>> PROVE Clocks(c)'
    BY Zenon, <1>5 DEF Clocks, Members
  <1>6. ASSUME NEW x \in Clients, Cut(x) \/ Heal(x) PROVE Clocks(c)'
    BY Zenon, <1>5, <1>6 DEF Cut, Heal, serverVars, clientVars
  <1>7. ASSUME UNCHANGED vars PROVE Clocks(c)'
    BY <1>5, <1>7 DEF vars, serverVars, clientVars
  <1>9. ASSUME NEW l \in leaves, SendLeave(l) PROVE Clocks(c)'
    BY <1>5, <1>9 DEF SendLeave, clientVars
  <1>8. ASSUME Step PROVE Clocks(c)'
    BY <1>1, <1>2, <1>3, <1>4, <1>6, <1>8, <1>9, RestartClocks, TunDAssumption, Zenon DEF Step
  <1> QED
    BY <1>7, <1>8, TickClocks, Zenon DEF Next

\* A step that is no fault and takes no time leaves the bounds of a client that
\* was adrift and still is.
LEMMA StepBounds ==
  ASSUME TypeOK, TypeOK', Step, faults \in Nat, faults' = faults,
         NEW c \in Clients, NEW n \in Nat, Bounds(c, n), OwedBound(c, n), Clocks(c), Adrift(c), Adrift(c)'
  PROVE  Bounds(c, n)'
  <1>1. ~Fault
    BY DEF Fault
  <1>2. ASSUME NEW d \in net, Deliver(d) PROVE Bounds(c, n)'
    <2>1. PICK copy \in Copies(d) :
            /\ IF copy = {} THEN UNCHANGED faults ELSE EndpointOf(d) \in Faulty /\ Fault
            /\ ServerHandles(d, copy) \/ ClientHandles(d, copy)
            /\ cut' = cut
      BY <1>2, Zenon DEF Deliver
    <2>2. copy = {}
      BY <1>1, <2>1, Zenon
    <2>3. ServerHandles(d, {}) \/ ClientHandles(d, {})
      BY <2>1, <2>2, Zenon
    <2>4. CASE ServerHandles(d, {})
      BY <2>1, <2>4, ServerBounds, Zenon
    <2>5. CASE ClientHandles(d, {})
      BY <2>1, <2>5, ClientBounds, Zenon
    <2> QED
      BY <2>3, <2>4, <2>5
  <1>3. ASSUME NEW x \in Clients, Start(x) PROVE Bounds(c, n)'
    BY <1>3, StartBounds, Zenon
  <1>4. ASSUME NEW x \in Clients, RegisterTimeout(x) PROVE Bounds(c, n)'
    BY <1>4, TimeoutBounds, Zenon
  <1>5. ASSUME NEW x \in Clients, Quit(x) PROVE Bounds(c, n)'
    BY <1>5, QuitBounds, Zenon
  <1>6. ASSUME NEW x \in Clients, Heal(x) PROVE Bounds(c, n)'
    <2>1. UNCHANGED <<serverVars, clientVars, net>> /\ cut' \subseteq cut
      BY <1>6 DEF Heal
    <2> QED
      BY <2>1, HealBounds, Zenon
  <1>7. ASSUME NEW x \in Clients PROVE ~Crash(x) /\ ~Cut(x)
    BY <1>1, Zenon DEF Crash, Cut
  <1>8. ~ServerRestart
    BY <1>1, Zenon DEF ServerRestart
  <1>9. ASSUME NEW l \in leaves, SendLeave(l) PROVE Bounds(c, n)'
    BY <1>9, SendLeaveBounds, Zenon
  <1> QED
    BY <1>2, <1>3, <1>4, <1>5, <1>6, <1>7, <1>8, <1>9, TunDAssumption, Zenon DEF Step

\* An entry goes with a DISCONNECT, and the clients know nothing of it; what is
\* to be sent gets less.
LEMMA EntryGoes ==
  ASSUME TypeOK, Step, faults \in Nat, faults' = faults, NEW c \in Clients
  PROVE  /\ leaves' \subseteq leaves
         /\ UNCHANGED peers \/ UNCHANGED <<state, deaf>>
         /\ state'[c] = "up" /\ ~deaf'[c] => ~deaf[c]
  <1> DEFINE Goal == /\ leaves' \subseteq leaves
                     /\ UNCHANGED peers \/ UNCHANGED <<state, deaf>>
                     /\ state'[c] = "up" /\ ~deaf'[c] => ~deaf[c]
  <1>1. ~Fault
    BY DEF Fault
  <1>2. ASSUME NEW x, End(x) \/ UNCHANGED deaf, UNCHANGED serverVars PROVE Goal
    <2>1. leaves' \subseteq leaves /\ UNCHANGED peers
      BY <1>2 DEF serverVars
    <2>2. state'[c] = "up" /\ ~deaf'[c] => ~deaf[c]
      <3>1. CASE End(x)
        <4>1. c = x => state'[c] # "up"
          BY <3>1, ZenonT(60) DEF End, Forget
        <4>2. c # x => deaf'[c] = (deaf[c] /\ TRUE)
          BY <3>1, ZenonT(60) DEF End, Forget
        <4> QED
          BY <4>1, <4>2, Zenon
      <3> QED
        BY <1>2, <3>1, Zenon
    <2> QED
      BY <2>1, <2>2, Zenon
  <1>3. ASSUME UNCHANGED clientVars, leaves' \subseteq leaves PROVE Goal
    BY <1>3, Zenon DEF clientVars
  <1> HIDE DEF Goal
  <1>4. ASSUME NEW d \in net, Deliver(d) PROVE Goal
    <2>1. PICK copy \in Copies(d) : ServerHandles(d, copy) \/ ClientHandles(d, copy)
      BY <1>4 DEF Deliver
    <2>2. CASE ServerHandles(d, copy)
      <3>1. UNCHANGED <<clientVars, leaves>>
        BY <2>2, ZenonT(60) DEF ServerHandles, RegisterKnown, RegisterNew, HandleDisconnect, ServerDrops, serverVars
      <3> QED
        BY <3>1, <1>3, Zenon
    <2>3. CASE ClientHandles(d, copy)
      <3>1. UNCHANGED serverVars /\ (End(d.to) \/ UNCHANGED deaf)
        BY <2>3, ZenonT(60) DEF ClientHandles, HandleAssign, RegisterOther, NextTurn, HandleNews,
             HandleStop, HandleUnknown, ClientDrops, clientVars
      <3> QED
        BY <3>1, <1>2, Zenon
    <2> QED
      BY <2>1, <2>2, <2>3
  <1>5. ASSUME NEW x \in Clients, Start(x) \/ RegisterTimeout(x) \/ Quit(x) \/ Heal(x) PROVE Goal
    <2>1. UNCHANGED serverVars /\ (End(x) \/ UNCHANGED deaf)
      BY <1>5, ZenonT(60) DEF Start, RegisterTimeout, NextTurn, Quit, Heal, clientVars
    <2> QED
      BY <2>1, <1>2, Zenon
  <1>6. ASSUME NEW x PROVE ~Crash(x) /\ ~Cut(x) /\ ~ServerRestart
    BY <1>1, Zenon DEF Crash, Cut, ServerRestart
  <1>7. ASSUME NEW l \in leaves, SendLeave(l) PROVE Goal
    <2>1. UNCHANGED clientVars /\ leaves' \subseteq leaves
      BY <1>7 DEF SendLeave
    <2> QED
      BY <2>1, <1>3, Zenon
  <1>8. Goal
    BY <1>4, <1>5, <1>6, <1>7, TunDAssumption, ZenonT(60) DEF Step
  <1> QED
    BY <1>8 DEF Goal

\* So does a step leave the bound of a client that is to be told of a departure.
LEMMA StepOwed ==
  ASSUME TypeOK, Step, faults \in Nat, faults' = faults,
         NEW c \in Clients, NEW n \in Nat, Bounds(c, n), OwedBound(c, n), Clocks(c), Adrift(c), Adrift(c)'
  PROVE  OwedBound(c, n)'
  <1> SUFFICES ASSUME ~deaf'[c], c \notin Members', Owed(c)' PROVE n <= PeerTicks + Lifetime + 2
    BY Zenon DEF OwedBound
  <1>1. Owed(c) /\ state'[c] = "up"
    BY EntryGoes, ZenonT(60) DEF Owed, Adrift
  <1>2. CASE c \notin Members
    BY <1>1, <1>2, EntryGoes, Zenon DEF OwedBound
  <1>3. CASE c \in Members
    <2>1. ~UNCHANGED peers
      BY <1>3, Zenon DEF Members
    <2>2. UNCHANGED <<state, deaf>>
      BY <2>1, EntryGoes, Zenon
    <2> QED
      BY <1>1, <1>3, <2>2, UpEntry, Zenon
  <1> QED
    BY <1>2, <1>3

\* Only members are to be told of a departure when an interval has passed.
LEMMA TickOwed ==
  ASSUME Tick, NEW c \in Clients, NEW n
  PROVE  OwedBound(c, n)'
  <1>1. PICK evicted : /\ peers' = [y \in Clients |-> IF y \in evicted THEN None ELSE peers[y]]
                       /\ leaves' = Parting(evicted)
    BY Zenon DEF Tick
  <1>2. ASSUME Owed(c)' PROVE c \in Members'
    <2>1. PICK l \in Parting(evicted) : l.to = c
      BY <1>1, <1>2, Zenon DEF Owed
    <2>2. c \in Members \ evicted
      BY <2>1 DEF Parting
    <2> QED
      BY <1>1, <2>2 DEF Members
  <1> QED
    BY <1>2, Zenon DEF OwedBound

\* At the start nobody is adrift.
LEMMA DriftInit == Init => DriftIInv
  <1> SUFFICES ASSUME Init PROVE DriftIInv
    OBVIOUS
  <1>1. TypeOK /\ StartTypes
    BY ZenonT(60), TypesInit
  <1>2. DriftTypes
    BY DEF Init, DriftTypes
  <1>3. ASSUME NEW c \in Clients 
        PROVE  Clocks(c) /\ Bounds(c, adrift[c]) /\ OwedBound(c, adrift[c]) /\ (~Adrift(c) => adrift[c] = 0)
    <2>1. /\ state[c] = "down" /\ adrift[c] = 0 /\ attempt[c] = 0 /\ ~deaf[c] /\ ~low[c]
          /\ c \notin Members /\ silence[c] = 0 /\ net = {} /\ leaves = {}
      BY Zenon DEF Init, Members
    <2>2. Clocks(c)
      BY Zenon, <2>1 DEF Clocks
    <2>3. StrayBound(c, 0)
      BY <2>1, Numbers DEF StrayBound
    <2>4. OwedBound(c, adrift[c])
      BY <2>1, Zenon DEF OwedBound, Owed
    <2> QED
      BY <2>1, <2>2, <2>3, <2>4, ZenonT(60) DEF Bounds
  <1> QED
    BY <1>1, <1>2, <1>3, Zenon DEF DriftIInv

\* Every step keeps the bounds: a disagreement that is one interval older has a
\* clock that is one interval older, or a datagram.
LEMMA DriftStep ==
  ASSUME DriftIInv, [Next]_vars
  PROVE  DriftIInv'
  <1>1. TypeOK /\ StartTypes /\ adrift \in [Clients -> Nat] /\ faults \in Nat
    BY DEF DriftIInv, DriftTypes
  <1>2. TypeOK' /\ StartTypes'
    BY <1>1, TypesStep, Zenon
  <1>3. faults' \in Nat
    <2>1. faults' = faults \/ Fault
      BY Zenon DEF Next, Step, Deliver, Start, RegisterTimeout, Quit, Crash, Cut, Heal, SendLeave,
                  ServerRestart, Tick, vars
    <2> QED
      BY SMTT(60), <2>1, <1>1 DEF Fault
  <1>4. adrift' \in [Clients -> Nat]
    BY <1>1 DEF Next, vars
  <1>5. ASSUME NEW c \in Clients
        PROVE  Clocks(c)' /\ Bounds(c, adrift[c])' /\ OwedBound(c, adrift[c])' /\ (~Adrift(c)' => adrift'[c] = 0)
    <2>1. Clocks(c) /\ Bounds(c, adrift[c]) /\ OwedBound(c, adrift[c]) /\ (~Adrift(c) => adrift[c] = 0)
      BY DEF DriftIInv
    <2>2. Clocks(c)'
      BY <1>1, <2>1, StepClocks, Zenon
    <2>3. PICK n \in Nat : n = adrift[c]
      BY <1>1
    <2>4. PICK k \in Nat : k = adrift'[c]
      BY <1>4
    <2>5. Bounds(c, n) /\ OwedBound(c, n)
      BY <2>1, <2>3, Zenon
    <2>6. CASE k = 0
      <3>1. Bounds(c, 0)'
        BY <1>2, ZeroBounds
      <3>2. OwedBound(c, 0)'
        BY SMTT(60), Numbers DEF OwedBound
      <3> QED
        BY <2>2, <2>4, <2>6, <3>1, <3>2, Zenon
    <2>7. CASE k # 0
      <3>1. CASE Step /\ adrift' = [y \in Clients |-> IF Adrift(y)' /\ faults' = faults THEN adrift[y] ELSE 0]
        <4>1. Adrift(c)' /\ faults' = faults /\ k = n
          BY <2>3, <2>4, <2>7, <3>1, Zenon
        <4>2. Adrift(c)
          BY ZenonT(60), <2>1, <2>3, <2>7, <4>1
        <4>3. Bounds(c, n)'
          BY <1>1, <1>2, <2>1, <2>5, <3>1, <4>1, <4>2, StepBounds, Zenon
        <4>4. OwedBound(c, n)'
          BY <1>1, <2>1, <2>5, <3>1, <4>1, <4>2, StepOwed, Zenon
        <4> QED
          BY <2>2, <2>4, <4>1, <4>3, <4>4, Zenon
      <3>2. CASE Tick /\ adrift' = [y \in Clients |-> IF Adrift(y)' THEN adrift[y] + 1 ELSE 0]
        <4>1. Adrift(c)' /\ k = n + 1
          BY <2>3, <2>4, <2>7, <3>2, Zenon
        <4>2. Adrift(c) \/ n = 0
          BY <2>1, <2>3
        <4>3. Bounds(c, n + 1)'
          BY <1>1, <1>2, <2>1, <2>5, <3>2, <4>1, <4>2, TickBounds, Zenon
        <4>4. OwedBound(c, n + 1)'
          BY <3>2, TickOwed, Zenon
        <4> QED
          BY <2>2, <2>4, <4>1, <4>3, <4>4, Zenon
      <3>3. CASE UNCHANGED vars
        <4>1. UNCHANGED <<serverVars, clientVars, net, cut, adrift, low>>
          BY ZenonT(60), <3>3 DEF vars
        <4>2. k = n /\ Adrift(c)' = Adrift(c)
          BY ZenonT(60), <2>3, <2>4, <4>1 DEF Adrift, Members, serverVars, clientVars
        <4>3. Bounds(c, n)'
          BY ZenonT(60), <1>1, <1>2, <2>5, <4>1, HealBounds
        <4>4. OwedBound(c, n)'
          BY ZenonT(60), <2>5, <4>1 DEF OwedBound, Owed, Members, serverVars, clientVars
        <4> QED
          BY <2>1, <2>2, <2>3, <2>4, <4>2, <4>3, <4>4, ZenonT(60)
      <3> QED
        BY <3>1, <3>2, <3>3, Zenon DEF Next
    <2> QED
      BY Zenon, <2>6, <2>7
  <1> QED
    BY <1>2, <1>3, <1>4, <1>5, Zenon DEF DriftIInv, DriftTypes

\* The bounds, with the clocks at their limits and the datagrams at their age
LEMMA BoundsReconcile == DriftIInv => Reconciled
  <1> SUFFICES ASSUME DriftIInv, NEW c \in Clients
               PROVE  adrift[c] <= PeerTicks + ServerTicks + 2 * Lifetime + 2
    BY Zenon DEF Reconciled
  <1>1. /\ TypeOK /\ Clocks(c) /\ Bounds(c, adrift[c]) /\ (~Adrift(c) => adrift[c] = 0) /\ adrift[c] \in Nat
    BY DEF DriftIInv, DriftTypes
  <1>2. PICK n \in Nat : n = adrift[c]
    BY <1>1
  <1>3. Bounds(c, n)
    BY <1>1, <1>2, ZenonT(60)
  <1>4. quiet[c] \in Nat /\ silence[c] \in Nat /\ state[c] \in {"down", "register", "up"}
    BY <1>1, ClockTypes, Zenon
  <1>5. ASSUME Leaving(c, n) PROVE n <= PeerTicks + ServerTicks + 2 * Lifetime + 2
    <2>1. PICK d \in net : n <= 2 + 2 * Lifetime + d.age
      BY <1>5, ZenonT(60) DEF Leaving
    <2>2. d.age \in Nat /\ d.age <= Lifetime
      BY <1>1, Ages, Zenon
    <2> QED
      BY <2>1, <2>2, Numbers
  <1>6. CASE ~Adrift(c)
    <2>1. 0 <= PeerTicks + ServerTicks + 2 * Lifetime + 2
      BY ONLY SMTT(60), Numbers
    <2> QED
      BY <1>1, <1>6, <2>1, Zenon
  <1>7. CASE Adrift(c) /\ deaf[c]
    <2>1. DeafBound(c, n) /\ state[c] # "down"
      BY ZenonT(60), <1>1, <1>3, <1>7 DEF Bounds, Clocks
    <2> QED
      BY ONLY SMTT(60), <1>1, <1>2, <1>4, <2>1, Numbers DEF DeafBound, Clocks
  <1>8. CASE Adrift(c) /\ ~deaf[c] /\ c \in Members
    <2>1. n <= ServerTicks + 2 * Lifetime + 2 + quiet[c] \/ Leaving(c, n)
      BY ZenonT(60), <1>3, <1>8 DEF Bounds, EntryBound
    <2>2. quiet[c] <= PeerTicks
      BY ZenonT(60), <1>1, <1>8 DEF Clocks
    <2> QED
      BY ONLY SMTT(60), <1>2, <1>4, <1>5, <2>1, <2>2, Numbers
  <1>9. CASE Adrift(c) /\ ~deaf[c] /\ c \notin Members
    <2>1. n <= PeerTicks + 2 * Lifetime + 2 + silence[c]
      BY ZenonT(60), <1>3, <1>9 DEF Bounds, StrayBound
    <2>2. silence[c] <= ServerTicks
      BY <1>1, <1>9 DEF Clocks, Adrift
    <2> QED
      BY ONLY SMTT(60), <1>2, <1>4, <2>1, <2>2, Numbers
  <1> QED
    BY ZenonT(60), <1>6, <1>7, <1>8, <1>9

\* The two sides do not disagree for ever: whatever mix of crashes, restarts,
\* late datagrams and broken links led there, both timeouts, a registration and
\* a datagram that is late both ways are enough (threads.c:30, session.c:14).
THEOREM DisagreementEnds == Spec => []Reconciled
  <1>1. DriftIInv /\ [Next]_vars => DriftIInv'
    BY Zenon, DriftStep
  <1> QED
    BY <1>1, DriftInit, BoundsReconcile, PTL DEF Spec
=============================================================================
