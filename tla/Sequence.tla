------------------------------ MODULE Sequence ------------------------------
(***************************************************************************)
(* The sequence numbers of outgoing datagrams (proto_next_sequence in      *)
(* src/protocol/protocol.c): one process-wide atomic counter, seeded at    *)
(* random by whichever thread comes first.  Every message costs a number   *)
(* when it is built and another one when net_send encrypts it; only the    *)
(* second one goes over the wire, some time after it was drawn.            *)
(***************************************************************************)
EXTENDS Naturals

CONSTANTS
  Threads,
  Half,                 \* half the range of the counter: 2^63 in the code
  MaxDraws              \* bound: numbers drawn in the life of the process

\* The first seed leaves at least this many numbers before the counter wraps.
ASSUME SequenceAssumption == Half \in Nat \ {0, 1} /\ MaxDraws \in 0 .. Half

Numbers == 0 .. 2 * Half - 1
Seeds == 1 .. Half - 1

VARIABLES
  counter,              \* g_proto_next_sequence
  point,                \* where each thread is
  phase,                \* is its message being built or encrypted?
  initial,              \* `initial' of proto_next_sequence
  header,               \* the number last written into its message
  draws,                \* history: numbers drawn
  wire                  \* history: numbers sent

seqVars == <<counter, point, phase, initial, header, draws, wire>>
-----------------------------------------------------------------------------
SeqInit ==
  /\ counter = 0
  /\ point = [t \in Threads |-> "idle"]
  /\ phase = [t \in Threads |-> "build"]
  /\ initial = [t \in Threads |-> 0]
  /\ header = [t \in Threads |-> 0]
  /\ draws = 0
  /\ wire = {}

\* proto_write_hdr calls proto_next_sequence, in phase p.
Enter(t, p) ==
  /\ phase' = [phase EXCEPT ![t] = p]
  /\ point' = [point EXCEPT ![t] = "load"]

\* proto_build_*: a new message
Build(t) ==
  /\ point[t] = "idle"
  /\ Enter(t, "build")
  /\ UNCHANGED <<counter, initial, header, draws, wire>>

\* The first load of the counter; zero means that it has no seed yet.
Load(t) ==
  /\ point[t] = "load"
  /\ point' = [point EXCEPT ![t] = IF counter = 0 THEN "seed" ELSE "add"]
  /\ UNCHANGED <<counter, phase, initial, header, draws, wire>>

\* proto_initial_sequence
Seed(t) ==
  /\ point[t] = "seed"
  /\ \E s \in Seeds : initial' = [initial EXCEPT ![t] = s]
  /\ point' = [point EXCEPT ![t] = "exchange"]
  /\ UNCHANGED <<counter, phase, header, draws, wire>>

\* The compare-and-exchange: a thread that comes too late uses the seed that
\* is there.
Exchange(t) ==
  /\ point[t] = "exchange"
  /\ counter' = IF counter = 0 THEN initial[t] ELSE counter
  /\ point' = [point EXCEPT ![t] = "add"]
  /\ UNCHANGED <<phase, initial, header, draws, wire>>

\* The number is written; a message that has been built goes on to net_send.
Write(t, n) ==
  /\ n # 0
  /\ header' = [header EXCEPT ![t] = n]
  /\ IF phase[t] = "build"
     THEN Enter(t, "encrypt")
     ELSE point' = [point EXCEPT ![t] = "send"] /\ UNCHANGED phase

\* No datagram comes of it: proto_write_hdr returns -1.  The server's PEER_LIST
\* is encrypted all the same.
GiveUp(t) ==
  \/ point' = [point EXCEPT ![t] = "idle"] /\ UNCHANGED phase
  \/ phase[t] = "build" /\ Enter(t, "encrypt")

\* Faulty variant: two threads may read the counter before either adds.
FaultyAdd(t) ==
  /\ point[t] = "add"
  /\ draws < MaxDraws
  /\ draws' = draws + 1
  /\ counter' \in {counter, (counter + 1) % (2 * Half)}
  /\ \/ Write(t, counter)
     \/ GiveUp(t) /\ UNCHANGED header
  /\ UNCHANGED <<initial, wire>>

\* The atomic addition.  Zero is no number, and the nonce may still fail.
Add(t) ==
  /\ point[t] = "add"
  /\ draws < MaxDraws
  /\ draws' = draws + 1
  /\ counter' = (counter + 1) % (2 * Half)
  /\ \/ Write(t, counter)
     \/ GiveUp(t) /\ UNCHANGED header
  /\ UNCHANGED <<initial, wire>>

\* proto_random_bytes fails while the seed is drawn.
NoSeed(t) ==
  /\ point[t] = "seed"
  /\ GiveUp(t)
  /\ UNCHANGED <<counter, initial, header, draws, wire>>

\* sendto; it may fail.  The same message may go to the next peer
\* (send_peer_snapshots), encrypted afresh.
Send(t) ==
  /\ point[t] = "send"
  /\ wire' \in {wire, wire \cup {header[t]}}
  /\ \/ point' = [point EXCEPT ![t] = "idle"] /\ UNCHANGED phase
     \/ Enter(t, "encrypt")
  /\ UNCHANGED <<counter, initial, header, draws>>

SeqStep(t) ==
  \/ Build(t) \/ Load(t) \/ Seed(t) \/ NoSeed(t) \/ Exchange(t) \/ Add(t) \/ Send(t)

SeqNext == \E t \in Threads : SeqStep(t)
SeqSpec == SeqInit /\ [][SeqNext]_seqVars
-----------------------------------------------------------------------------
Sending == {t \in Threads : point[t] = "send"}

SeqTypeOK ==
  /\ counter \in Numbers
  /\ point \in [Threads -> {"idle", "load", "seed", "exchange", "add", "send"}]
  /\ phase \in [Threads -> {"build", "encrypt"}]
  /\ initial \in [Threads -> 0 .. Half - 1]
  /\ header \in [Threads -> Numbers]
  /\ draws \in 0 .. MaxDraws
  /\ wire \subseteq Numbers

\* No two datagrams of a process carry the same number, although threads draw
\* their first seeds concurrently and send some time after they draw: a repeat
\* would be dropped as a replay.
UniqueNumbers ==
  /\ \A t \in Sending : header[t] \notin wire
  /\ \A t, u \in Sending : t # u => header[t] # header[u]

\* A thread that gets to the addition never meets an unseeded or wrapped
\* counter: "if (next == 0) return false" is never what fails.
SeededBeforeAdd == \A t \in Threads : point[t] = "add" => counter # 0

\* The numbers of one thread only go up, whatever the others do in between.
NumbersIncrease ==
  [][\A t \in Threads : header'[t] # header[t] => header'[t] > header[t]]_seqVars

\* Every number that was drawn is below the counter, which has not wrapped.
SeqIInv ==
  /\ SeqTypeOK
  /\ SeededBeforeAdd
  /\ UniqueNumbers
  /\ \A t \in Threads : point[t] = "exchange" => initial[t] \in Seeds
  /\ counter <= Half - 1 + draws
  /\ \A t \in Threads : header[t] # 0 => header[t] < counter
  /\ \A t \in Sending : header[t] # 0
  /\ \A n \in wire : n < counter
=============================================================================
