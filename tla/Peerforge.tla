----------------------------- MODULE Peerforge -----------------------------
(***************************************************************************)
(* peerforge (tools/peerforge), the load generator: it registers clients   *)
(* with a server, sends rounds of keepalives and probes from client to     *)
(* client, waits a bounded time for each answer, prints what it has        *)
(* counted and ends with 0 only if nothing was missing.  The server and    *)
(* the network answer a request once, at any time, or never.               *)
(***************************************************************************)
EXTENDS Integers, FiniteSets

CONSTANTS
  ForgeClients,         \* opts->clients
  ForgeRounds,          \* opts->keepalives
  ForgePairs,           \* opts->data_pairs
  ForgeTimeout          \* opts->timeout_ms

ASSUME ForgeAssumption ==
  /\ ForgeClients \in Nat \ {0} /\ ForgeTimeout \in Nat \ {0}
  /\ ForgeRounds \in Nat /\ ForgePairs \in Nat

VARIABLES
  forge,                \* [step, i, round]: where run_peerforge is
  waiting,              \* the request it waits for an answer to, or Unasked
  now,                  \* peerforge_now_ms
  deadline,
  assigned,             \* clients with an address; the address is the client
  inbox,                \* messages each socket holds
  flying,               \* requests not answered so far
  total,                \* registered, keepalive_ok, data_ok
  missed                \* history: has a request been given up or not been made?

forgeVars ==
  <<forge, waiting, now, deadline, assigned, inbox, flying, total, missed>>

Forged == 0 .. ForgeClients - 1
Unasked == [kind |-> "none"]
Zero == [register |-> 0, keepalive |-> 0, data |-> 0]
-----------------------------------------------------------------------------
\* run_peerforge up to its first loop
ForgeInit ==
  /\ forge = [step |-> "register", i |-> 0, round |-> 0]
  /\ waiting = Unasked /\ now = 0 /\ deadline = 0
  /\ assigned = {}
  /\ inbox = [c \in Forged |-> {}]
  /\ flying = {} /\ total = Zero
  /\ missed = FALSE

\* The loops of run_peerforge, one inside the other
After(f) ==
  LET next == [f EXCEPT !.i = f.i + 1] IN
  CASE f.step = "register" /\ next.i = ForgeClients ->
         [step |-> IF ForgeRounds = 0 THEN "data" ELSE "keepalive", i |-> 0, round |-> 0]
    [] f.step = "keepalive" /\ next.i = ForgeClients ->
         IF f.round + 1 = ForgeRounds THEN [step |-> "data", i |-> 0, round |-> 0]
         ELSE [step |-> "keepalive", i |-> 0, round |-> f.round + 1]
    [] OTHER -> next

\* The i-th of the clients that have an address
NthActive(i) == CHOOSE c \in assigned : Cardinality({b \in assigned : b < c}) = i

\* The request to make now: by whom, who gets the answer, and what identifies it
Request ==
  CASE forge.step = "register" -> [kind |-> "register", from |-> forge.i, at |-> forge.i]
    [] forge.step = "keepalive" ->
         [kind |-> "keepalive", from |-> forge.i, at |-> forge.i, stamp |-> now]
    [] forge.step = "data" ->
         LET n == Cardinality(assigned)
         IN  [kind |-> "data", from |-> NthActive(forge.i % n), at |-> NthActive((forge.i + 1) % n)]

\* The number of the request: what no answer carries
Numbered(r) == [request |-> r, number |-> <<forge.round, forge.i>>]

\* A keepalive is sent for a client with an address; a probe needs two of them.
Possible ==
  CASE forge.step = "register" -> TRUE
    [] forge.step = "keepalive" -> forge.i \in assigned
    [] forge.step = "data" -> forge.i < ForgePairs /\ Cardinality(assigned) >= 2

\* Does the program go on to its next request, or to its report?
Over == forge.step = "data" /\ (forge.i >= ForgePairs \/ Cardinality(assigned) < 2)

\* peerforge_register_client, peerforge_keepalive_round, peerforge_data_probe
\* up to their loops: the message is built, encrypted and sent.
Ask ==
  /\ waiting = Unasked /\ Possible
  /\ waiting' = Numbered(Request)
  /\ flying' = flying \cup {Numbered(Request)}
  /\ deadline' = now + ForgeTimeout
  /\ UNCHANGED <<forge, now, assigned, inbox, total, missed>>

\* peerforge_client_drain: after each registration, the sockets opened so far
\* are emptied, each up to a message that is malformed or cannot be decrypted.
\* What is behind such a message stays; in this phase that is a late answer.
Drained ==
  IF forge.step = "register"
  THEN {[c \in Forged |-> IF c <= forge.i /\ c \notin stuck THEN {} ELSE inbox[c]] :
          stuck \in SUBSET Forged}
  ELSE {inbox}

\* No socket, the message cannot be sent, or the client has no address
PassOver ==
  /\ waiting = Unasked /\ ~Over
  /\ forge' = After(forge)
  /\ inbox' \in Drained
  /\ missed' = TRUE
  /\ UNCHANGED <<waiting, now, deadline, assigned, flying, total>>

\* Is this the answer?  An acknowledgement returns the timestamp; a probe has
\* the two addresses.
Matches(m) == m.request = waiting.request

\* recv_message and what follows, while now < deadline.  Messages of other
\* types, which are ignored or, if they are keepalives of the server, answered,
\* are left out.
Receive ==
  /\ waiting # Unasked /\ now < deadline
  /\ \E m \in inbox[waiting.request.at] :
       IF Matches(m)
       THEN /\ total' = [total EXCEPT ![m.request.kind] = @ + 1]
            /\ assigned' = IF m.request.kind = "register" THEN assigned \cup {m.request.at}
                           ELSE assigned
            /\ \E left \in Drained : inbox' = [left EXCEPT ![m.request.at] = @ \ {m}]
            /\ waiting' = Unasked
            /\ forge' = After(forge)
       ELSE /\ inbox' = [inbox EXCEPT ![waiting.request.at] = @ \ {m}]
            /\ UNCHANGED <<forge, waiting, assigned, total>>
  /\ UNCHANGED <<now, deadline, flying, missed>>

\* The time to wait is over; remaining is never less than 1.
TimeOut ==
  /\ waiting # Unasked /\ now >= deadline
  /\ waiting' = Unasked
  /\ forge' = After(forge)
  /\ inbox' \in Drained
  /\ missed' = TRUE
  /\ UNCHANGED <<now, deadline, assigned, flying, total>>

Pass ==
  /\ waiting # Unasked /\ now < deadline
  /\ now' = now + 1
  /\ UNCHANGED <<forge, waiting, deadline, assigned, inbox, flying, total, missed>>

\* The server answers a request, or passes a probe on.
Answer ==
  /\ \E m \in flying :
       /\ flying' = flying \ {m}
       /\ inbox' = [inbox EXCEPT ![m.request.at] = @ \cup {m}]
  /\ UNCHANGED <<forge, waiting, now, deadline, assigned, total, missed>>
-----------------------------------------------------------------------------
\* Faulty variant: one probe that passes is enough.
FaultyExitStatus ==
  IF \/ total.register # ForgeClients
     \/ ForgeRounds > 0 /\ total.keepalive # total.register * ForgeRounds
     \/ ForgePairs > 0 /\ total.data = 0
  THEN 1 ELSE 0

\* The status run_peerforge returns
ExitStatus ==
  IF \/ total.register # ForgeClients
     \/ ForgeRounds > 0 /\ total.keepalive # total.register * ForgeRounds
     \/ ForgePairs > 0 /\ total.data # ForgePairs
  THEN 1 ELSE 0

\* The report is printed, and the tool may be run again.
Report ==
  /\ waiting = Unasked /\ Over
  /\ forge' = [step |-> "register", i |-> 0, round |-> 0]
  /\ now' = 0 /\ deadline' = 0 /\ assigned' = {}
  /\ inbox' = [c \in Forged |-> {}] /\ flying' = {} /\ total' = Zero
  /\ missed' = FALSE
  /\ UNCHANGED waiting

ForgeNext == Ask \/ PassOver \/ Receive \/ TimeOut \/ Pass \/ Answer \/ Report

ForgeSpec == ForgeInit /\ [][ForgeNext]_forgeVars
-----------------------------------------------------------------------------
\* Status 0 means that every registration, every keepalive and every probe was
\* made and answered in its time, although a probe is not numbered and a late
\* one may be taken for another: then an earlier one is missing in the total.
ZeroMeansAll == (waiting = Unasked /\ Over /\ ExitStatus = 0) => ~missed

\* Where run_peerforge may be, and how many requests of each kind lie behind it
Position(f) ==
  /\ f \in [step : {"register", "keepalive", "data"}, i : Nat, round : Nat]
  /\ f.step \in {"register", "keepalive"} => f.i < ForgeClients
  /\ f.step = "keepalive" => f.round < ForgeRounds
  /\ f.step = "data" => f.i <= ForgePairs

Behind(f) ==
  [register |-> IF f.step = "register" THEN f.i ELSE ForgeClients,
   keepalive |-> IF f.step = "register" THEN 0
                 ELSE IF f.step = "keepalive" THEN f.round * ForgeClients + f.i
                 ELSE ForgeRounds * ForgeClients,
   data |-> IF f.step = "data" THEN f.i ELSE 0]

\* No total is larger than the number of requests behind the program, and one
\* is smaller if a request was missed.
ForgeIInv ==
  /\ Position(forge)
  /\ waiting # Unasked => /\ waiting.request.kind = forge.step
                          /\ forge.step = "data" => forge.i < ForgePairs
  /\ total \in [DOMAIN Zero -> Nat]
  /\ \A kind \in DOMAIN Zero : total[kind] <= Behind(forge)[kind]
  /\ missed => \E kind \in DOMAIN Zero : total[kind] < Behind(forge)[kind]
=============================================================================
