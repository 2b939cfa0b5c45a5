---------------------------- MODULE NumberProofs ----------------------------
(***************************************************************************)
(* The code that computes with numbers of a fixed width, for every width:  *)
(* packet lengths and addresses and the replay window (src/protocol), the  *)
(* averaged round-trip time (tund.h), the counter that numbers datagrams,  *)
(* the counts of the load generator, and the netmask, the addresses and    *)
(* the setup of the virtual device (src/tun).                              *)
(***************************************************************************)
EXTENDS ReplayChannel, ReplayWord, Ipv4, Rtt, Sequence, Peerforge, TunDevice,
        NaturalsInduction, WellFoundedInduction, TLAPS
-----------------------------------------------------------------------------
(* The validation of packets. *)

\* The mask test is a range test.
LEMMA SubnetIsARange ==
  ASSUME NEW a \in Nat
  PROVE  InSubnet(a) <=> SUBNET <= a /\ a <= Broadcast
BY Ipv4Assumption DEF InSubnet, Broadcast, Byte

\* What Validate answers is right for every packet.
LEMMA ValidateIsExact ==
  ASSUME NEW p \in Packet
  PROVE  Validate(p) = "OK" <=> WellFormed(p)
<1>1. /\ p.len \in Nat /\ p.total \in Nat /\ p.src \in Nat /\ p.dst \in Nat
      /\ p.version \in 0 .. 15 /\ p.ihl \in 0 .. 15
  BY DEF Packet
<1>2. (p.ihl * 4) % Byte = 4 * p.ihl
  BY <1>1 DEF Byte
<1>3. SUBNET \in Nat
  BY Ipv4Assumption
<1>4. /\ InSubnet(p.src) <=> SUBNET <= p.src /\ p.src <= Broadcast
      /\ InSubnet(p.dst) <=> SUBNET <= p.dst /\ p.dst <= Broadcast
  BY <1>1, SubnetIsARange
<1>5. p.src \in Hosts <=> InSubnet(p.src) /\ p.src # SUBNET /\ p.src # Broadcast
  BY <1>1, <1>3, <1>4 DEF Hosts, ServerAddress, PoolAddresses, Broadcast
<1>6. p.dst \in Hosts \cup {Broadcast} <=>
        p.dst # SUBNET /\ (p.dst = Broadcast \/ InSubnet(p.dst))
  BY <1>1, <1>3, <1>4 DEF Hosts, ServerAddress, PoolAddresses, Broadcast
<1> HIDE DEF Hosts, InSubnet, Broadcast
<1> QED
  BY <1>1, <1>2, <1>5, <1>6 DEF Validate, WellFormed

\* proto_validate_ipv4_packet passes exactly the well-formed packets, whatever
\* packets arrive.
THEOREM ValidationIsExact == Ipv4Spec => []Ipv4Exact
<1>1. Ipv4Init => Ipv4Exact
  BY DEF Ipv4Init, Ipv4Exact
<1>2. Ipv4Exact /\ [Ipv4Next]_packet => Ipv4Exact'
  BY Ipv4Assumption, ValidateIsExact DEF Ipv4Next, ReadPacket, PassOn, Ipv4Exact
<1> QED
  BY <1>1, <1>2, PTL DEF Ipv4Spec
-----------------------------------------------------------------------------
(* The round-trip time. *)

\* The average lies between the old average and the sample, and moves unless
\* they are within four milliseconds of each other.
LEMMA SmoothIsBetween ==
  ASSUME NEW c \in Nat, NEW s \in Nat
  PROVE  /\ Smooth(c, s) \in Nat
         /\ c <= s => c <= Smooth(c, s) /\ Smooth(c, s) <= s
         /\ s <= c => s <= Smooth(c, s) /\ Smooth(c, s) <= c
         /\ s > c + 4 => Smooth(c, s) > c
         /\ c > s + 4 => Smooth(c, s) < c
<1>1. Smooth(c, s) = (7 * c + s + 3) \div 8
  BY RttAssumption DEF Smooth, Weight
<1> QED
  BY <1>1

\* For every sequence of samples the average stays within their range.
THEOREM AverageStaysWithin == RttSpec => []RttWithin
<1>1. RttInit => RttWithin
  BY DEF RttInit, RttWithin
<1>2. RttWithin /\ [RttNext]_rttVars => RttWithin'
  <2> SUFFICES ASSUME RttWithin, [RttNext]_rttVars PROVE RttWithin'
    OBVIOUS
  <2>1. CASE UNCHANGED rttVars
    BY <2>1 DEF rttVars, RttWithin
  <2>2. ASSUME NEW at \in Times, NEW sentAt \in Times, HandleAck(at, sentAt)
        PROVE  RttWithin'
    <3> DEFINE sample == at - sentAt
    <3>1. sample \in Nat
      BY <2>2, RttAssumption DEF HandleAck
    <3>2. CASE rtt = NoRtt
      <4>1. rtt' = sample /\ least' = sample /\ most' = sample
        BY Zenon, <2>2, <3>2, RttAssumption DEF HandleAck, Smooth, RttWithin
      <4> QED
        BY <3>1, <4>1 DEF RttWithin
    <3>3. CASE rtt # NoRtt
      <4>1. rtt \in Nat /\ least \in Nat /\ most \in Nat /\ least <= rtt /\ rtt <= most
        BY <3>3 DEF RttWithin
      <4>2. /\ rtt' = Smooth(rtt, sample)
            /\ least' = IF sample < least THEN sample ELSE least
            /\ most' = IF sample > most THEN sample ELSE most
        BY <2>2, <4>1, RttAssumption DEF HandleAck
      <4> HIDE DEF sample
      <4>3. /\ rtt' \in Nat
            /\ rtt <= sample => rtt <= rtt' /\ rtt' <= sample
            /\ sample <= rtt => sample <= rtt' /\ rtt' <= rtt
        BY Zenon, <3>1, <4>1, <4>2, SmoothIsBetween
      <4> QED
        BY <3>1, <4>1, <4>2, <4>3 DEF RttWithin
    <3> QED
      BY <3>2, <3>3
  <2> QED
    BY <2>1, <2>2 DEF RttNext
<1> QED
  BY <1>1, <1>2, PTL DEF RttSpec

\* What lies between is not farther away.
LEMMA NearerIsCloser ==
  ASSUME NEW c \in Nat, NEW d \in Nat, NEW s \in Nat,
         c <= s => c <= d /\ d <= s,
         s <= c => s <= d /\ d <= c,
         s > c + 4 => d > c,
         c > s + 4 => d < c
  PROVE  /\ Distance(d, s) <= Distance(c, s)
         /\ Distance(c, s) > 4 => Distance(d, s) < Distance(c, s)
BY DEF Distance

\* For every sequence of samples each one draws the average nearer.
THEOREM AverageApproaches == RttSpec => RttApproaches
<1> DEFINE Approach(at, sentAt) ==
      HandleAck(at, sentAt) /\ rtt # NoRtt =>
        LET before == Distance(rtt, at - sentAt)
            after == Distance(rtt', at - sentAt)
        IN after <= before /\ (before > 4 => after < before)
<1>1. RttWithin /\ [RttNext]_rttVars => [\A at, sentAt \in Times : Approach(at, sentAt)]_rttVars
  <2> SUFFICES ASSUME RttWithin, NEW at \in Times, NEW sentAt \in Times,
                      HandleAck(at, sentAt), rtt # NoRtt
               PROVE  LET before == Distance(rtt, at - sentAt)
                          after == Distance(rtt', at - sentAt)
                      IN after <= before /\ (before > 4 => after < before)
    OBVIOUS
  <2> DEFINE sample == at - sentAt
  <2>1. sample \in Nat /\ rtt \in Nat
    BY RttAssumption DEF HandleAck, RttWithin
  <2>2. rtt' = Smooth(rtt, sample)
    BY DEF HandleAck
  <2> HIDE DEF sample
  <2>3. /\ rtt' \in Nat
        /\ rtt <= sample => rtt <= rtt' /\ rtt' <= sample
        /\ sample <= rtt => sample <= rtt' /\ rtt' <= rtt
        /\ sample > rtt + 4 => rtt' > rtt
        /\ rtt > sample + 4 => rtt' < rtt
    BY Zenon, <2>1, <2>2, SmoothIsBetween
  <2>4. /\ Distance(rtt', sample) <= Distance(rtt, sample)
        /\ Distance(rtt, sample) > 4 => Distance(rtt', sample) < Distance(rtt, sample)
    BY <2>1, <2>3, NearerIsCloser
  <2> QED
    BY <2>4 DEF sample
<1> QED
  BY <1>1, AverageStaysWithin, PTL DEF RttSpec, RttApproaches
-----------------------------------------------------------------------------
(* The counter: as long as no more numbers are drawn than half the range,  *)
(* no number is sent twice.                                                *)

USE SequenceAssumption

\* A process starts with the invariant ...
LEMMA SeqInitIInv == SeqInit => SeqIInv
  BY DEF SeqInit, SeqIInv, SeqTypeOK, SeededBeforeAdd, UniqueNumbers, Sending, Numbers, Seeds

\* Where the counter may be when a number is drawn: it cannot wrap.
LEMMA NoWrap ==
  ASSUME SeqIInv, draws < MaxDraws
  PROVE  /\ (counter + 1) % (2 * Half) = counter + 1
         /\ counter + 1 \in Numbers
         /\ counter + 1 <= Half - 1 + (draws + 1)
  <1>1. counter \in Nat /\ counter + 1 \in 0 .. 2 * Half - 1 /\ draws \in Nat
    BY DEF SeqIInv, SeqTypeOK, Numbers
  <1>2. \A a, b \in Nat : a < b => a % b = a
    OBVIOUS
  <1>3. (counter + 1) % (2 * Half) = counter + 1
    BY <1>1, <1>2
  <1> QED
    BY <1>1, <1>3 DEF SeqIInv, Numbers

\* ... and every step of a thread preserves it.
LEMMA SeqStepIInv == SeqIInv /\ [SeqNext]_seqVars => SeqIInv'
  <1> SUFFICES ASSUME SeqIInv, [SeqNext]_seqVars PROVE SeqIInv'
    OBVIOUS
  <1> USE DEF SeqIInv, SeqTypeOK, SeededBeforeAdd, UniqueNumbers, Sending, Numbers, Seeds
  <1>1. CASE UNCHANGED seqVars
    BY <1>1 DEF seqVars
  <1>2. ASSUME NEW t \in Threads, Build(t) PROVE SeqIInv'
    BY Zenon, <1>2 DEF Build, Enter
  <1>3. ASSUME NEW t \in Threads, Load(t) PROVE SeqIInv'
    BY SMTT(60), <1>3 DEF Load
  <1>4. ASSUME NEW t \in Threads, Seed(t) PROVE SeqIInv'
    BY <1>4 DEF Seed
  <1>5. ASSUME NEW t \in Threads, NoSeed(t) PROVE SeqIInv'
    BY ZenonT(60), <1>5 DEF NoSeed, GiveUp, Enter
  <1>6. ASSUME NEW t \in Threads, Exchange(t) PROVE SeqIInv'
    BY <1>6 DEF Exchange
  <1>7. ASSUME NEW t \in Threads, Add(t) PROVE SeqIInv'
    <2>1. /\ counter' = counter + 1 /\ counter + 1 \in Numbers
          /\ counter + 1 <= Half - 1 + (draws + 1)
          /\ draws' = draws + 1 /\ draws' \in 0 .. MaxDraws
          /\ point[t] = "add" /\ counter # 0
          /\ UNCHANGED <<initial, wire>>
      BY SMTT(60), <1>7, NoWrap DEF Add
    <2>2. CASE Write(t, counter)
      BY <2>1, <2>2, SMTT(60) DEF Write, Enter
    <2>3. CASE GiveUp(t) /\ UNCHANGED header
      BY <2>1, <2>3, SMTT(60) DEF GiveUp, Enter
    <2> QED
      BY Zenon, <1>7, <2>2, <2>3 DEF Add
  <1>8. ASSUME NEW t \in Threads, Send(t) PROVE SeqIInv'
    BY <1>8, SMTT(30) DEF Send, Enter
  <1> HIDE DEF SeqIInv
  <1> QED
    BY Zenon, <1>1, <1>2, <1>3, <1>4, <1>5, <1>6, <1>7, <1>8 DEF SeqNext, SeqStep

\* The invariant of the counter holds throughout.
THEOREM SequenceInvariant == SeqSpec => []SeqIInv
  BY SeqInitIInv, SeqStepIInv, PTL DEF SeqSpec

\* No two datagrams of a process carry the same number.
THEOREM NumbersAreUnique == SeqSpec => []UniqueNumbers
  <1>1. SeqIInv => UniqueNumbers
    BY DEF SeqIInv
  <1> QED
    BY <1>1, SequenceInvariant, PTL

\* proto_next_sequence never meets a zero counter at its addition.
THEOREM CounterIsSeeded == SeqSpec => []SeededBeforeAdd
  <1>1. SeqIInv => SeededBeforeAdd
    BY DEF SeqIInv
  <1> QED
    BY <1>1, SequenceInvariant, PTL

\* The numbers that one thread writes only go up.
THEOREM ThreadNumbersIncrease == SeqSpec => NumbersIncrease
  <1> DEFINE A == \A t \in Threads : header'[t] # header[t] => header'[t] > header[t]
  <1>1. SeqIInv /\ [SeqNext]_seqVars => [A]_seqVars
    <2> SUFFICES ASSUME SeqIInv, SeqNext, NEW t \in Threads, header'[t] # header[t]
                 PROVE  header'[t] > header[t]
      OBVIOUS
    <2>1. PICK u \in Threads : SeqStep(u)
      BY ZenonT(60) DEF SeqNext
    <2>2. Add(u) /\ Write(u, counter)
      BY SMTT(60), <2>1 DEF SeqStep, Build, Load, Seed, NoSeed, Exchange, Add, Send
    <2>3. header' = [header EXCEPT ![u] = counter] /\ counter # 0
      BY <2>2 DEF Write
    <2>4. t = u /\ header'[t] = counter
      BY <2>3 DEF SeqIInv, SeqTypeOK
    <2>5. header[t] \in Nat /\ counter \in Nat /\ (header[t] # 0 => header[t] < counter)
      BY SMTT(60) DEF SeqIInv, SeqTypeOK, Numbers
    <2> QED
      BY <2>3, <2>4, <2>5
  <1> QED
    BY <1>1, SequenceInvariant, PTL DEF SeqSpec, NumbersIncrease
-----------------------------------------------------------------------------
(* The load generator: status 0 means that nothing was missed, for any     *)
(* number of clients, rounds and probes and any time to wait.              *)

\* The totals have three kinds.
LEMMA Kinds == DOMAIN Zero = {"register", "keepalive", "data"}
  BY SMTT(60) DEF Zero

\* The loops of run_peerforge: a request more of the kind at hand lies behind,
\* and none of another kind.
LEMMA AfterOne ==
  ASSUME NEW f, Position(f), f.step = "data" => f.i < ForgePairs
  PROVE  /\ Position(After(f))
         /\ Behind(f) \in [DOMAIN Zero -> Nat]
         /\ Behind(After(f)) = [Behind(f) EXCEPT ![f.step] = @ + 1]
  <1> USE ForgeAssumption
  <1>1. /\ f.step \in {"register", "keepalive", "data"} /\ f.i \in Nat /\ f.round \in Nat
        /\ f \in [step : {"register", "keepalive", "data"}, i : Nat, round : Nat]
    BY DEF Position
  <1> DEFINE C == ForgeClients
             R == ForgeRounds
             n == [f EXCEPT !.i = f.i + 1]
             OneMore(g) ==
               \A k \in {"register", "keepalive", "data"} :
                 Behind(g)[k] = IF k = f.step THEN Behind(f)[k] + 1 ELSE Behind(f)[k]
  <1>2. /\ n \in [step : {"register", "keepalive", "data"}, i : Nat, round : Nat]
        /\ n.step = f.step /\ n.i = f.i + 1 /\ n.round = f.round
    BY <1>1
  <1>3. f.round * C \in Nat /\ R * C \in Nat /\ (f.round + 1) * C = f.round * C + C
    BY SMTT(60), <1>1
  <1>4. Behind(f) \in [{"register", "keepalive", "data"} -> Nat]
    BY <1>1, <1>3 DEF Behind
  <1>5. ASSUME NEW g, After(f) = g, Position(g), OneMore(g)
        PROVE  /\ Position(After(f))
               /\ Behind(f) \in [DOMAIN Zero -> Nat]
               /\ Behind(After(f)) = [Behind(f) EXCEPT ![f.step] = @ + 1]
    <2>1. Behind(g) = [k \in {"register", "keepalive", "data"} |-> Behind(g)[k]]
      BY DEF Behind
    <2> QED
      BY ZenonT(60), <1>1, <1>4, <1>5, <2>1, Kinds
  <1>6. CASE f.step = "register" /\ f.i + 1 = C /\ R = 0
    <2> DEFINE g == [step |-> "data", i |-> 0, round |-> 0]
    <2>1. After(f) = g
      BY <1>2, <1>6 DEF After
    <2>2. Position(g)
      BY DEF Position
    <2>3. R * C = 0
      BY SMTT(60), <1>6
    <2>4. OneMore(g)
      BY SMTT(60), <1>1, <1>6, <2>3 DEF Behind
    <2> HIDE DEF g, OneMore
    <2> QED
      BY Zenon, <1>5, <2>1, <2>2, <2>4
  <1>7. CASE f.step = "register" /\ f.i + 1 = C /\ R # 0
    <2> DEFINE g == [step |-> "keepalive", i |-> 0, round |-> 0]
    <2>1. After(f) = g
      BY <1>2, <1>7 DEF After
    <2>2. Position(g)
      BY <1>7 DEF Position
    <2>3. 0 * C = 0
      OBVIOUS
    <2>4. OneMore(g)
      BY SMTT(60), <1>1, <1>7, <2>3 DEF Behind
    <2> HIDE DEF g, OneMore
    <2> QED
      BY Zenon, <1>5, <2>1, <2>2, <2>4
  <1>8. CASE f.step = "keepalive" /\ f.i + 1 = C /\ f.round + 1 = R
    <2> DEFINE g == [step |-> "data", i |-> 0, round |-> 0]
    <2>1. After(f) = g
      BY SMTT(60), <1>2, <1>8 DEF After
    <2>2. Position(g)
      BY DEF Position
    <2>3. OneMore(g)
      BY <1>1, <1>3, <1>8 DEF Behind
    <2> HIDE DEF g, OneMore
    <2> QED
      BY Zenon, <1>5, <2>1, <2>2, <2>3
  <1>9. CASE f.step = "keepalive" /\ f.i + 1 = C /\ f.round + 1 # R
    <2> DEFINE g == [step |-> "keepalive", i |-> 0, round |-> f.round + 1]
    <2>1. After(f) = g
      BY SMTT(60), <1>2, <1>9 DEF After
    <2>2. Position(g) /\ g.i = 0 /\ g.step = "keepalive" /\ g.round = f.round + 1
      BY SMTT(60), <1>1, <1>9 DEF Position
    <2>3. OneMore(g)
      BY SMTT(60), <1>1, <1>3, <1>9, <2>2 DEF Behind
    <2> HIDE DEF g, OneMore
    <2> QED
      BY Zenon, <1>5, <2>1, <2>2, <2>3
  <1>10. CASE f.step = "data" \/ f.i + 1 # C
    <2>1. After(f) = n
      BY <1>1, <1>2, <1>10 DEF After
    <2>2. Position(n)
      BY SMTT(60), <1>1, <1>2, <1>10 DEF Position
    <2> HIDE DEF n
    <2>3. OneMore(n)
      BY <1>1, <1>2, <1>3 DEF Behind
    <2> HIDE DEF OneMore
    <2> QED
      BY Zenon, <1>5, <2>1, <2>2, <2>3
  <1> QED
    BY SMTT(60), <1>1, <1>4, <1>6, <1>7, <1>8, <1>9, <1>10, Kinds

\* What is asked for is of the kind that the loop is about.
LEMMA AskedKind ==
  ASSUME Position(forge), Possible
  PROVE  /\ Numbered(Request).request.kind = forge.step
         /\ forge.step = "data" => forge.i < ForgePairs
  BY Zenon DEF Position, Numbered, Request, Possible

\* Where nothing is asked for and the program is not done, a probe is to come.
LEMMA NotOver == ASSUME Position(forge), ~Over, forge.step = "data" PROVE forge.i < ForgePairs
  <1>1. ~(forge.i >= ForgePairs)
    BY Zenon DEF Over
  <1>2. forge.i \in Nat
    BY DEF Position
  <1> QED
    BY <1>1, <1>2, ForgeAssumption

\* A request that is passed over or given up is missing in its total from now on.
LEMMA ForgeMisses ==
  ASSUME ForgeIInv, forge.step = "data" => forge.i < ForgePairs,
         forge' = After(forge), waiting' = Unasked, missed' = TRUE, UNCHANGED total
  PROVE  ForgeIInv'
  <1>1. /\ Position(forge)'
        /\ Behind(forge) \in [DOMAIN Zero -> Nat]
        /\ Behind(forge)' = [Behind(forge) EXCEPT ![forge.step] = @ + 1]
    BY ZenonT(60), AfterOne DEF ForgeIInv
  <1>2. forge.step \in DOMAIN Zero
    BY Kinds DEF ForgeIInv, Position
  <1> DEFINE old == Behind(forge)
             new == Behind(forge)'
  <1>3. old \in [DOMAIN Zero -> Nat] /\ new = [old EXCEPT ![forge.step] = @ + 1]
        /\ total \in [DOMAIN Zero -> Nat] /\ \A kind \in DOMAIN Zero : total[kind] <= old[kind]
    BY Zenon, <1>1 DEF ForgeIInv
  <1> HIDE DEF old, new
  <1>4. (\A kind \in DOMAIN Zero : total[kind] <= new[kind]) /\ total[forge.step] < new[forge.step]
    BY <1>2, <1>3
  <1> QED
    BY Zenon, <1>1, <1>2, <1>3, <1>4 DEF ForgeIInv, new

\* An answer in time adds one to the total and leaves one more request behind.
LEMMA ForgeCounts ==
  ASSUME ForgeIInv, waiting # Unasked,
         forge' = After(forge), waiting' = Unasked, UNCHANGED missed,
         total' = [total EXCEPT ![waiting.request.kind] = @ + 1]
  PROVE  ForgeIInv'
  <1>1. /\ Position(forge)'
        /\ Behind(forge) \in [DOMAIN Zero -> Nat]
        /\ Behind(forge)' = [Behind(forge) EXCEPT ![forge.step] = @ + 1]
    BY Zenon, AfterOne DEF ForgeIInv
  <1>2. forge.step \in DOMAIN Zero
    BY Kinds DEF ForgeIInv, Position
  <1> DEFINE old == Behind(forge)
             new == Behind(forge)'
  <1>3. /\ old \in [DOMAIN Zero -> Nat] /\ new = [old EXCEPT ![forge.step] = @ + 1]
        /\ total \in [DOMAIN Zero -> Nat] /\ \A kind \in DOMAIN Zero : total[kind] <= old[kind]
        /\ total' = [total EXCEPT ![forge.step] = @ + 1]
        /\ missed => \E kind \in DOMAIN Zero : total[kind] < old[kind]
    BY Zenon, <1>1 DEF ForgeIInv
  <1> HIDE DEF old, new
  <1>4. /\ total' \in [DOMAIN Zero -> Nat]
        /\ \A kind \in DOMAIN Zero : total'[kind] <= new[kind]
        /\ \A kind \in DOMAIN Zero : total[kind] < old[kind] => total'[kind] < new[kind]
    BY <1>2, <1>3
  <1>5. missed' => \E kind \in DOMAIN Zero : total'[kind] < new[kind]
    BY Zenon, <1>3, <1>4
  <1> QED
    BY Zenon, <1>1, <1>4, <1>5 DEF ForgeIInv, new

\* The totals stay behind the requests, and a request missed shows in one.
THEOREM ForgeInvariant == ForgeSpec => []ForgeIInv
  <1>1. ASSUME forge = [step |-> "register", i |-> 0, round |-> 0], waiting = Unasked,
               total = Zero, missed = FALSE
        PROVE  ForgeIInv
    <2>1. Position(forge)
      BY SMTT(60), <1>1, ForgeAssumption DEF Position
    <2>2. /\ total \in [DOMAIN Zero -> Nat]
          /\ \A kind \in DOMAIN Zero : total[kind] <= Behind(forge)[kind]
      BY <1>1 DEF Zero, Behind
    <2> QED
      BY Zenon, <1>1, <2>1, <2>2 DEF ForgeIInv
  <1>2. ForgeInit => ForgeIInv
    BY Zenon, <1>1 DEF ForgeInit
  <1>3. ForgeIInv /\ [ForgeNext]_forgeVars => ForgeIInv'
    <2> SUFFICES ASSUME ForgeIInv, [ForgeNext]_forgeVars PROVE ForgeIInv'
      BY Zenon
    <2>1. CASE UNCHANGED <<forge, waiting, total, missed>>
      BY Zenon, <2>1 DEF ForgeIInv
    <2>2. CASE Ask
      <3>1. waiting' = Numbered(Request) /\ UNCHANGED <<forge, total, missed>>
        BY Zenon, <2>2 DEF Ask
      <3>2. waiting'.request.kind = forge.step /\ (forge.step = "data" => forge.i < ForgePairs)
        BY Zenon, <2>2, <3>1, AskedKind DEF Ask, ForgeIInv
      <3> QED
        BY Zenon, <3>1, <3>2 DEF ForgeIInv
    <2>3. CASE PassOver
      BY Zenon, <2>3, NotOver, ForgeMisses DEF PassOver, ForgeIInv
    <2>4. CASE Receive
      <3>1. PICK m \in inbox[waiting.request.at] :
              IF Matches(m)
              THEN /\ total' = [total EXCEPT ![m.request.kind] = @ + 1]
                   /\ waiting' = Unasked
                   /\ forge' = After(forge)
              ELSE UNCHANGED <<forge, waiting, total>>
        BY Zenon, <2>4 DEF Receive
      <3>2. waiting # Unasked /\ UNCHANGED missed
        BY Zenon, <2>4 DEF Receive
      <3>3. CASE Matches(m)
        <4>1. m.request.kind = waiting.request.kind
          BY Zenon, <3>3 DEF Matches
        <4> QED
          BY Zenon, <3>1, <3>2, <3>3, <4>1, ForgeCounts
      <3>4. CASE ~Matches(m)
        BY Zenon, <2>1, <3>1, <3>2, <3>4
      <3> QED
        BY Zenon, <3>3, <3>4
    <2>5. CASE TimeOut
      BY Zenon, <2>5, ForgeMisses DEF TimeOut, ForgeIInv
    <2>6. CASE Pass \/ Answer \/ UNCHANGED forgeVars
      BY Zenon, <2>1, <2>6 DEF Pass, Answer, forgeVars
    <2>7. CASE Report
      <3>1. Position(forge')
        BY SMTT(60), <2>7, ForgeAssumption DEF Report, Position
      <3>2. /\ total' \in [DOMAIN Zero -> Nat]
            /\ \A kind \in DOMAIN Zero : total'[kind] <= Behind(forge')[kind]
        BY SMTT(60), <2>7 DEF Report, Zero, Behind
      <3> QED
        BY Zenon, <2>7, <3>1, <3>2 DEF Report, ForgeIInv
    <2> QED
      BY Zenon, <2>2, <2>3, <2>4, <2>5, <2>6, <2>7 DEF ForgeNext
  <1> QED
    BY <1>2, <1>3, PTL DEF ForgeSpec

\* peerforge ends with 0 only if every request was made and answered in time.
THEOREM ForgeZeroMeansAll == ForgeSpec => []ZeroMeansAll
  <1>1. ForgeIInv => ZeroMeansAll
    <2> SUFFICES ASSUME ForgeIInv, Over, ExitStatus = 0, missed PROVE FALSE
      BY Zenon DEF ZeroMeansAll
    <2>1. PICK kind \in {"register", "keepalive", "data"} : total[kind] < Behind(forge)[kind]
      BY Zenon, Kinds DEF ForgeIInv
    <2>2. /\ total.register = ForgeClients
          /\ ForgeRounds > 0 => total.keepalive = total.register * ForgeRounds
          /\ ForgePairs > 0 => total.data = ForgePairs
      BY DEF ExitStatus
    <2>3. /\ forge.step = "data" /\ forge.i \in Nat /\ forge.i <= ForgePairs
          /\ total["register"] \in Nat /\ total["keepalive"] \in Nat /\ total["data"] \in Nat
      BY SMTT(60), Kinds DEF ForgeIInv, Position, Over
    <2>4. /\ Behind(forge)["register"] = ForgeClients
          /\ Behind(forge)["keepalive"] = ForgeRounds * ForgeClients
          /\ Behind(forge)["data"] = forge.i
      BY <2>3 DEF Behind
    <2>5. ForgeRounds = 0 => ForgeRounds * ForgeClients = 0
      BY ForgeAssumption
    <2>6. ForgeClients * ForgeRounds = ForgeRounds * ForgeClients
      BY ForgeAssumption
    <2> QED
      BY SMTT(60), <2>1, <2>2, <2>3, <2>4, <2>5, <2>6, ForgeAssumption
  <1> QED
    BY <1>1, ForgeInvariant, PTL
-----------------------------------------------------------------------------
(* Induction, division with remainder, powers of two *)

\* Every nonempty set of natural numbers has a least element.
LEMMA NatMin ==
  ASSUME NEW T \in SUBSET Nat, T # {}
  PROVE  \E n \in T : \A m \in T : n <= m
  <1>1. IsWellFoundedOn(OpToRel(<, Nat), Nat)
    BY NatLessThanWellFounded, Zenon
  <1>2. PICK x \in T : \A y \in T : ~(<<y, x>> \in OpToRel(<, Nat))
    BY <1>1, WFMin, Zenon
  <1>3. \A y \in T : ~(<<y, x>> \in {ss \in Nat \X Nat : ss[1] < ss[2]})
    BY <1>2, Zenon DEF OpToRel
  <1>4. \A y \in T : ~(y < x)
    <2> SUFFICES ASSUME NEW y \in T, y < x PROVE FALSE
      BY Zenon
    <2>1. /\ <<y, x>>[1] = y
          /\ <<y, x>>[2] = x
          /\ <<y, x>> \in Nat \X Nat
      BY SMT
    <2> QED
      BY <2>1, <1>3, Zenon
  <1> QED
    BY <1>4, SMT

\* Induction over the natural numbers, stated with a set.
LEMMA SetInduction ==
  ASSUME NEW S, 0 \in S, \A n \in Nat : n \in S => n + 1 \in S
  PROVE  \A n \in Nat : n \in S
  <1> SUFFICES ASSUME NEW k \in Nat, k \notin S PROVE FALSE
    BY Zenon
  <1> DEFINE T == Nat \ S
  <1>1. PICK n \in T : \A m \in T : n <= m
    <2>1. T \in SUBSET Nat /\ T # {}
      BY Zenon
    <2> QED
      BY <2>1, NatMin, Zenon
  <1>2. n \in Nat \ {0}
    BY <1>1, Zenon
  <1>3. n - 1 \in Nat /\ (n - 1) + 1 = n /\ ~(n <= n - 1)
    BY <1>2, SMT
  <1>4. n - 1 \in S
    BY <1>1, <1>3, Zenon
  <1> QED
    BY <1>1, <1>3, <1>4, Zenon

\* Powers of two are what they are called, and positive.
LEMMA PowersOfTwo ==
  /\ Pow2[0] = 1
  /\ \A n \in Nat : Pow2[n + 1] = 2 * Pow2[n]
  /\ \A n \in Nat : Pow2[n] \in Nat \ {0}
  <1> DEFINE Positive == {n \in Nat : Pow2[n] \in Nat \ {0}}
  <1>1. NatInductiveDefHypothesis(Pow2, 1, LAMBDA v, n : 2 * v)
    BY Zenon DEF NatInductiveDefHypothesis, Pow2
  <1>2. NatInductiveDefConclusion(Pow2, 1, LAMBDA v, n : 2 * v)
    BY <1>1, NatInductiveDef, Zenon
  <1>3. Pow2 = [n \in Nat |-> IF n = 0 THEN 1 ELSE 2 * Pow2[n - 1]]
    BY <1>2, Zenon DEF NatInductiveDefConclusion
  <1>4. Pow2[0] = 1 /\ \A n \in Nat : Pow2[n + 1] = 2 * Pow2[n]
    BY <1>3, SMT
  <1>5. 0 \in Positive
    BY <1>4, SMT
  <1>6. \A n \in Nat : n \in Positive => n + 1 \in Positive
    BY <1>4, SMT
  <1> HIDE DEF Positive
  <1>7. \A n \in Nat : n \in Positive
    BY <1>5, <1>6, SetInduction, Zenon
  <1> QED
    BY <1>4, <1>7, Zenon DEF Positive

\* Division with remainder.
LEMMA DivMod ==
  ASSUME NEW x \in Nat, NEW d \in Nat \ {0}
  PROVE  \E q \in Nat, r \in Nat :
           /\ q = x \div d
           /\ r = x % d
           /\ r < d
           /\ x = q * d + r
  <1> DEFINE q == x \div d
             r == x % d
  <1>1. q \in Nat /\ r \in Nat /\ r < d /\ x = q * d + r
    BY SMT
  <1> QED
    BY <1>1, Zenon

\* A quotient is the only number with a remainder below the divisor.
LEMMA DivUnique ==
  ASSUME NEW x \in Nat, NEW d \in Nat \ {0}, NEW q \in Nat, NEW r \in Nat,
         x = q * d + r, r < d
  PROVE  x \div d = q /\ x % d = r
  <1> DEFINE p == x \div d
             s == x % d
  <1>1. p \in Nat /\ s \in Nat /\ s < d /\ x = p * d + s
    BY SMT
  <1> HIDE DEF p, s
  <1>2. ~(p < q)
    <2> SUFFICES ASSUME p < q PROVE FALSE
      OBVIOUS
    <2>1. PICK k \in Nat : q = p + 1 + k
      <3>1. q - p - 1 \in Nat /\ q = p + 1 + (q - p - 1)
        BY <1>1, SMT
      <3> QED
        BY <3>1, Zenon
    <2>2. q * d = p * d + d + k * d /\ k * d >= 0
      BY <2>1, <1>1, SMT
    <2> QED
      BY <2>2, <1>1, SMTT(60)
  <1>3. ~(q < p)
    <2> SUFFICES ASSUME q < p PROVE FALSE
      OBVIOUS
    <2>1. PICK k \in Nat : p = q + 1 + k
      <3>1. p - q - 1 \in Nat /\ p = q + 1 + (p - q - 1)
        BY <1>1, SMTT(60)
      <3> QED
        BY <3>1, Zenon
    <2>2. p * d = q * d + d + k * d /\ k * d >= 0
      BY <2>1, <1>1, SMTT(60)
    <2> QED
      BY <2>2, <1>1, SMTT(30)
  <1>4. p = q
    BY <1>1, <1>2, <1>3, SMTT(60)
  <1> QED
    BY <1>1, <1>4, SMTT(60) DEF p, s

\* Halving a remainder, and its parity.
LEMMA HalfOfRemainder ==
  ASSUME NEW y \in Nat, NEW k \in Nat \ {0}
  PROVE  /\ (y % (2 * k)) \div 2 = (y \div 2) % k
         /\ (y % (2 * k)) % 2 = y % 2
  <1>1. PICK d \in Nat \ {0} : d = 2 * k
    BY SMT
  <1>2. PICK q \in Nat, r \in Nat : r = y % d /\ r < d /\ y = q * d + r
    BY DivMod, ZenonT(60)
  <1>3. PICK m \in Nat : m = q * k
    BY SMT
  <1>4. y = 2 * m + r
    BY <1>1, <1>2, <1>3, SMT
  <1>5. PICK h \in Nat : h = r \div 2
    BY SMT
  <1>6. /\ h < k
        /\ y \div 2 = m + h
        /\ y % 2 = r % 2
        /\ y \div 2 \in Nat
    <2>1. h < k
      BY <1>1, <1>2, <1>5, SMT
    <2>2. y \div 2 = m + h /\ y % 2 = r % 2
      BY <1>4, <1>5, SMT
    <2>3. y \div 2 \in Nat
      BY SMT
    <2> QED
      BY <2>1, <2>2, <2>3, Zenon
  <1>7. (y \div 2) % k = h
    BY <1>3, <1>6, DivUnique, Zenon
  <1> QED
    BY <1>1, <1>2, <1>5, <1>6, <1>7, Zenon
-----------------------------------------------------------------------------
(* Powers of two, netmasks and the macOS peer address *)

\* A larger power of two is larger.
LEMMA PowersGrow ==
  ASSUME NEW a \in Nat, NEW b \in Nat, a < b
  PROVE  2 * Pow2[a] <= Pow2[b]
  <1> DEFINE S == {k \in Nat : 2 * Pow2[a] <= Pow2[a + 1 + k]}
  <1>1. 0 \in S
    <2>1. a + 1 + 0 = a + 1 /\ Pow2[a + 1] = 2 * Pow2[a] /\ Pow2[a] \in Nat
      BY PowersOfTwo, SMT
    <2> QED
      BY <2>1, SMT
  <1>2. ASSUME NEW k \in Nat, k \in S PROVE k + 1 \in S
    <2>1. a + 1 + k \in Nat /\ a + 1 + (k + 1) = (a + 1 + k) + 1 /\ k + 1 \in Nat
      BY SMT
    <2>2. PICK p \in Nat : p = Pow2[a + 1 + k] /\ Pow2[(a + 1 + k) + 1] = 2 * p
      BY <2>1, PowersOfTwo, Zenon
    <2>3. PICK q \in Nat : q = Pow2[a]
      BY PowersOfTwo, Zenon
    <2>4. 2 * q <= p
      BY <1>2, <2>2, <2>3, Zenon
    <2>5. 2 * q <= 2 * p
      BY <2>4, SMT
    <2> QED
      BY <2>1, <2>2, <2>3, <2>5, Zenon
  <1>3. \A k \in Nat : k \in S
    <2> HIDE DEF S
    <2> QED
      BY <1>1, <1>2, SetInduction, Zenon
  <1>4. b - a - 1 \in Nat /\ a + 1 + (b - a - 1) = b
    BY SMTT(60)
  <1> QED
    BY <1>3, <1>4, Zenon

\* Doubling a mask whose top bit is set drops that bit: mask <<= 1.
LEMMA DoubledMask ==
  ASSUME NEW half \in Nat \ {0}, NEW mask \in 0 .. 2 * half - 1, ~(mask < half)
  PROVE  /\ (2 * mask) % (2 * half) = 2 * mask - 2 * half
         /\ 2 * mask - 2 * half \in 0 .. 2 * half - 1
         /\ 2 * mask - 2 * half < mask
  <1>1. /\ 2 * mask \in Nat /\ 2 * half \in Nat \ {0} /\ 1 \in Nat
        /\ 2 * mask - 2 * half \in Nat /\ 2 * mask - 2 * half < 2 * half
        /\ 2 * mask = 1 * (2 * half) + (2 * mask - 2 * half)
        /\ 2 * mask - 2 * half < mask
    BY SMT
  <1>2. (2 * mask) % (2 * half) = 2 * mask - 2 * half
    BY <1>1, DivUnique, Zenon
  <1> QED
    BY <1>1, <1>2, SMTT(60)

\* The weight of the top bit of a mask
Top == Pow2[TunWidth - 1]

\* The numbers prefix_len_from_netmask computes with
LEMMA Width ==
  /\ TunWidth \in Nat /\ TunWidth - 1 \in Nat
  /\ Top \in Nat \ {0} /\ Pow2[TunWidth] = 2 * Top
  <1>1. TunWidth \in Nat /\ TunWidth - 1 \in Nat /\ (TunWidth - 1) + 1 = TunWidth
    BY TunAssumption, SMT
  <1> QED
    BY <1>1, PowersOfTwo, Zenon DEF Top

\* The mask after one turn of the loop is a smaller mask.
LEMMA ShiftedMask ==
  ASSUME NEW x \in Masks, ~(x < Top)
  PROVE  LET y == (2 * x) % Pow2[TunWidth]
         IN  y \in Masks /\ <<y, x>> \in OpToRel(<, Nat)
  <1> DEFINE y == (2 * x) % Pow2[TunWidth]
  <1>1. y \in Masks /\ y < x
    <2>1. x \in 0 .. 2 * Top - 1
      BY Width, Zenon DEF Masks
    <2>2. /\ (2 * x) % (2 * Top) = 2 * x - 2 * Top
          /\ 2 * x - 2 * Top \in 0 .. 2 * Top - 1
          /\ 2 * x - 2 * Top < x
      BY <2>1, Width, DoubledMask, Zenon
    <2> QED
      BY <2>2, Width, Zenon DEF Masks
  <1> HIDE DEF y
  <1>2. y \in Nat /\ x \in Nat
    BY <1>1, Width, SMTT(60) DEF Masks
  <1>3. <<y, x>>[1] = y /\ <<y, x>>[2] = x /\ <<y, x>> \in Nat \X Nat
    BY <1>2, SMTT(60)
  <1> QED
    BY <1>1, <1>3, Zenon DEF OpToRel, y

\* The loop of prefix_len_from_netmask ends: a mask gets smaller with each shift.
LEMMA PrefixUnfolds ==
  prefix_len_from_netmask =
    [mask \in Masks |->
       IF mask < Top THEN 0
       ELSE 1 + prefix_len_from_netmask[(2 * mask) % Pow2[TunWidth]]]
  <1> DEFINE Def(f, mask) ==
               IF mask < Top THEN 0 ELSE 1 + f[(2 * mask) % Pow2[TunWidth]]
             R == OpToRel(<, Nat)
  <1>1. IsWellFoundedOn(R, Masks)
    <2>1. IsWellFoundedOn(R, Nat)
      BY NatLessThanWellFounded, Zenon
    <2>2. Masks \subseteq Nat
      BY Width, SMT DEF Masks
    <2> QED
      BY <2>1, <2>2, IsWellFoundedOnSubset, Zenon
  <1>2. WFDefOn(R, Masks, Def)
    <2> SUFFICES ASSUME NEW g, NEW h, NEW x \in Masks,
                        \A y \in SetLessThan(x, R, Masks) : g[y] = h[y]
                 PROVE  Def(g, x) = Def(h, x)
      BY Zenon DEF WFDefOn
    <2>1. CASE x < Top
      BY <2>1, Zenon
    <2>2. CASE ~(x < Top)
      <3> DEFINE y == (2 * x) % Pow2[TunWidth]
      <3>1. y \in Masks /\ <<y, x>> \in R
        BY <2>2, ShiftedMask, Zenon
      <3> HIDE DEF y
      <3>4. y \in SetLessThan(x, R, Masks)
        BY <3>1, Zenon DEF SetLessThan
      <3>5. g[y] = h[y]
        BY <3>4, Zenon
      <3> QED
        BY <3>5, <2>2, Zenon DEF y
    <2> QED
      BY <2>1, <2>2, Zenon
  <1>3. OpDefinesFcn(prefix_len_from_netmask, Masks, Def)
    BY Zenon DEF OpDefinesFcn, prefix_len_from_netmask, Masks, Top
  <1>4. WFInductiveDefines(prefix_len_from_netmask, Masks, Def)
    <2> HIDE DEF R
    <2> QED
      BY <1>1, <1>2, <1>3, WFInductiveDef, Zenon
  <1> QED
    BY <1>4, Zenon DEF WFInductiveDefines

\* The netmask of a network of Pow2[h] addresses has the prefix length
\* TunWidth - h, and this is what prefix_len_from_netmask counts.
LEMMA PrefixIsExact ==
  ASSUME NEW h \in 0 .. TunWidth
  PROVE  /\ Pow2[TunWidth] - Pow2[h] \in Masks
         /\ prefix_len_from_netmask[Pow2[TunWidth] - Pow2[h]] = TunWidth - h
  <1> DEFINE P == Pow2[TunWidth]
             M(k) == P - Pow2[TunWidth - k]
             S == {k \in Nat : k <= TunWidth =>
                     M(k) \in Masks /\ prefix_len_from_netmask[M(k)] = k}
  <1>0. P \in Nat /\ P = 2 * Top /\ Top \in Nat \ {0} /\ TunWidth \in Nat
    BY Width, PowersOfTwo, Zenon
  <1>1. 0 \in S
    <2>1. TunWidth - 0 = TunWidth /\ P - P = 0 /\ 0 \in 0 .. P - 1 /\ 0 < Top
      BY <1>0, SMT
    <2>2. prefix_len_from_netmask[0] = 0
      BY <2>1, PrefixUnfolds, Zenon DEF Masks
    <2>3. M(0) = 0
      BY <2>1, Zenon
    <2>4. M(0) \in Masks /\ prefix_len_from_netmask[M(0)] = 0
      BY <2>1, <2>2, <2>3, Zenon DEF Masks
    <2> HIDE DEF M
    <2> QED
      BY <2>4, Zenon
  <1>2. ASSUME NEW k \in Nat, k \in S PROVE k + 1 \in S
    <2> SUFFICES ASSUME k + 1 <= TunWidth
                 PROVE  /\ M(k + 1) \in Masks
                        /\ prefix_len_from_netmask[M(k + 1)] = k + 1
      <3>1. k + 1 \in Nat
        BY SMTT(60)
      <3> QED
        BY <3>1, Zenon
    <2>1. /\ k <= TunWidth /\ TunWidth - (k + 1) \in Nat
          /\ (TunWidth - (k + 1)) + 1 = TunWidth - k
          /\ TunWidth - (k + 1) < TunWidth
      BY <1>0, SMTT(60)
    <2>2. PICK p \in Nat \ {0} :
            p = Pow2[TunWidth - (k + 1)] /\ Pow2[TunWidth - k] = 2 * p
      BY <2>1, PowersOfTwo, Zenon
    <2>3. 2 * p <= P
      BY <2>1, <2>2, <1>0, PowersGrow, Zenon
    <2>4. /\ P - p \in 0 .. 2 * Top - 1 /\ ~(P - p < Top)
          /\ 2 * (P - p) - 2 * Top = P - 2 * p
      BY <2>3, <1>0, SMT
    <2>5. P - p \in Masks
      BY <2>4, <1>0, Zenon DEF Masks
    <2>6. (2 * (P - p)) % P = P - 2 * p
      BY <2>4, <1>0, DoubledMask, Zenon
    <2>7. prefix_len_from_netmask[P - p] =
            1 + prefix_len_from_netmask[(2 * (P - p)) % P]
      BY <2>4, <2>5, PrefixUnfolds, Zenon
    <2>8. prefix_len_from_netmask[P - 2 * p] = k
      BY <1>2, <2>1, <2>2, Zenon
    <2>9. 1 + k = k + 1
      BY SMT
    <2> QED
      BY <2>2, <2>5, <2>6, <2>7, <2>8, <2>9, Zenon
  <1>3. \A k \in Nat : k \in S
    <2> HIDE DEF S
    <2> QED
      BY <1>1, <1>2, SetInduction, Zenon
  <1>4. TunWidth - h \in Nat /\ TunWidth - h <= TunWidth /\ TunWidth - (TunWidth - h) = h
    BY <1>0, SMT
  <1>5. M(TunWidth - h) \in Masks /\ prefix_len_from_netmask[M(TunWidth - h)] = TunWidth - h
    BY <1>3, <1>4, Zenon
  <1> QED
    BY <1>4, <1>5, Zenon

\* Different numbers of places give different powers.
LEMMA PowersDiffer ==
  ASSUME NEW a \in Nat, NEW b \in Nat, Pow2[a] = Pow2[b]
  PROVE  a = b
  <1>1. Pow2[a] \in Nat \ {0}
    BY PowersOfTwo, Zenon
  <1>2. ~(2 * Pow2[a] <= Pow2[a])
    BY <1>1, SMT
  <1>3. ~(a < b) /\ ~(b < a)
    BY <1>2, PowersGrow, Zenon
  <1> QED
    BY <1>3, SMT

\* windows_ip_config_applied tells whether address and netmask are in force:
\* the prefix length of a network is never that of a single host.
LEMMA IpConfigApplied ==
  ASSUME address[2] \in TunMasks
  PROVE  windows_ip_config_applied <=> {"addr", "mask"} \subseteq inForce
  <1>1. PICK h \in 2 .. TunWidth : address[2] = Pow2[TunWidth] - Pow2[h]
    BY TunAssumption, Zenon
  <1>2. h \in 0 .. TunWidth /\ h \in Nat /\ TunWidth - h \in 0 .. TunWidth
        /\ TunWidth - (TunWidth - h) = h /\ TunWidth - h # TunWidth
    BY Width, SMT
  <1>3. prefix_len_from_netmask[address[2]] = TunWidth - h
    BY <1>1, <1>2, PrefixIsExact, Zenon
  <1>4. ASSUME NEW p \in 0 .. TunWidth,
               address[2] = Pow2[TunWidth] - Pow2[TunWidth - p]
        PROVE  p = TunWidth - h
    <2>1. TunWidth - p \in Nat
      BY Width, SMT
    <2>2. PICK a \in Nat, b \in Nat, c \in Nat :
            a = Pow2[TunWidth] /\ b = Pow2[h] /\ c = Pow2[TunWidth - p]
      BY <1>2, <2>1, Width, PowersOfTwo, Zenon
    <2>3. a - b = a - c
      BY <1>1, <1>4, <2>2, Zenon
    <2>4. b = c
      BY <2>3, SMT
    <2>5. h = TunWidth - p
      BY <2>1, <2>2, <2>4, <1>2, PowersDiffer, Zenon
    <2> QED
      BY <2>5, <1>2, Width, SMTT(60)
  <1> DEFINE Fits(p) == address[2] = Pow2[TunWidth] - Pow2[TunWidth - p]
  <1>5. (CHOOSE p \in 0 .. TunWidth : Fits(p)) = TunWidth - h
    <2>1. Fits(TunWidth - h)
      BY <1>1, <1>2, Zenon
    <2>2. \E p \in 0 .. TunWidth : Fits(p)
      BY <2>1, <1>2, Zenon
    <2>3. \A p \in 0 .. TunWidth : Fits(p) => p = TunWidth - h
      BY <1>4, Zenon
    <2> HIDE DEF Fits
    <2> QED
      BY <2>2, <2>3, Zenon
  <1>6. OnLinkPrefixLength = IF "mask" \in inForce THEN TunWidth - h ELSE TunWidth
    BY <1>5, Zenon DEF OnLinkPrefixLength
  <1> QED
    BY <1>2, <1>3, <1>6, Zenon DEF windows_ip_config_applied

\* The peer of the macOS interface is another host of the same network.
LEMMA PeerIsANeighbour ==
  ASSUME address \in TunAddrs \X TunMasks
  PROVE  LET peer == PeerAddress(address[1], address[2])
             size == Pow2[TunWidth] - address[2]
         IN  peer # address[1] /\ peer \div size = address[1] \div size
  <1>1. PICK h \in 2 .. TunWidth : address[2] = Pow2[TunWidth] - Pow2[h]
    BY TunAssumption, Zenon
  <1>2. PICK P \in Nat : P = Pow2[TunWidth]
    BY Width, PowersOfTwo, Zenon
  <1>3. PICK ip \in Nat : ip = address[1]
    <2>1. address[1] \in 0 .. P - 1
      BY <1>2, TunAssumption, Zenon
    <2> QED
      BY <2>1, SMT
  <1>4. PICK size \in Nat \ {0} : size = Pow2[TunWidth] - address[2] /\ size > 2
    <2>1. h \in Nat /\ 1 \in Nat /\ 0 \in Nat /\ 1 < h /\ 0 < 1
      BY Width, SMT
    <2>2. 2 * Pow2[1] <= Pow2[h] /\ 2 * Pow2[0] <= Pow2[1] /\ Pow2[0] = 1
      BY <2>1, PowersGrow, PowersOfTwo, Zenon
    <2>3. Pow2[h] \in Nat \ {0} /\ Pow2[1] \in Nat
      BY <2>1, PowersOfTwo, Zenon
    <2>4. Pow2[h] > 2
      BY <2>2, <2>3, SMTT(60)
    <2>5. P - (P - Pow2[h]) = Pow2[h]
      BY <2>3, SMT
    <2> QED
      BY <2>3, <2>4, <2>5, <1>1, <1>2, Zenon
  <1>5. PICK q \in Nat, r \in Nat :
          q = ip \div size /\ r = ip % size /\ r < size /\ ip = q * size + r
    BY DivMod, ZenonT(60)
  <1>6. PICK net \in Nat : net = q * size
    BY SMT
  <1>7. PICK peer \in Nat : /\ peer = IF ip = net + 1 THEN net + 2 ELSE net + 1
                            /\ peer # ip
    BY <1>5, <1>6, SMT
  <1>8. peer = PeerAddress(address[1], address[2])
    <2>1. ip - r = net
      BY <1>5, <1>6, SMT
    <2> QED
      BY <2>1, <1>3, <1>4, <1>5, <1>7, Zenon DEF PeerAddress
  <1>9. peer \div size = q
    <2>1. PICK e \in Nat : peer = net + e /\ e < size
      <3>1. peer = net + 1 \/ peer = net + 2
        BY <1>7, Zenon
      <3> QED
        BY <3>1, <1>4, SMT
    <2> QED
      BY <2>1, <1>6, DivUnique, Zenon
  <1> QED
    BY <1>3, <1>4, <1>5, <1>7, <1>8, <1>9, Zenon
-----------------------------------------------------------------------------
(* The series of system calls. *)

\* A series that borrows one handle: its first step obtains it, step k gives it
\* back, and each step in between does so if it fails.
Borrows(s, h, k) ==
  /\ Len(s) \in Nat /\ k \in 2 .. Len(s)
  /\ \A i \in 1 .. Len(s) :
       /\ i = 1 => s[i].gets = {h}
       /\ i # 1 => s[i].gets = {}
       /\ i = k => s[i].drops = {h}
       /\ i # k => s[i].drops = {}
       /\ i \in 2 .. k => s[i].frees = {h}
       /\ i \notin 2 .. k => s[i].frees = {}

\* Wherever such a series stops, it has given back what it had obtained.
LEMMA BorrowedIsReturned ==
  ASSUME NEW s, NEW h, NEW k, Borrows(s, h, k), NEW n \in 0 .. Len(s)
  PROVE  /\ Owned(s, n) \subseteq {h}
         /\ Released(s, n) = Owned(s, n)
  <1>1. Len(s) \in Nat /\ k \in 2 .. Len(s) /\ n \in Nat
    BY SMT DEF Borrows
  <1>2. \A i \in 1 .. n : i \in 1 .. Len(s)
    BY <1>1, SMTT(60)
  <1>3. n < Len(s) => n + 1 \in 1 .. Len(s)
    BY <1>1, SMT
  <1>4. Owned(s, n) = IF n \in 1 .. k - 1 THEN {h} ELSE {}
    <2>1. \A i \in 1 .. n : i = 1 => s[i].gets = {h}
      BY <1>2, Zenon DEF Borrows
    <2>2. \A i \in 1 .. n : i # 1 => s[i].gets = {}
      BY <1>2, Zenon DEF Borrows
    <2>3. \A i \in 1 .. n : i = k => s[i].drops = {h}
      BY <1>2, Zenon DEF Borrows
    <2>4. \A i \in 1 .. n : i # k => s[i].drops = {}
      BY <1>2, Zenon DEF Borrows
    <2>5. \A x : x \in Owned(s, n) <=> /\ \E i \in 1 .. n : x \in s[i].gets
                                       /\ ~ \E i \in 1 .. n : x \in s[i].drops
      BY Zenon DEF Owned
    <2>6. \A x : (\E i \in 1 .. n : x \in s[i].gets) <=> x = h /\ 1 \in 1 .. n
      <3>1. ASSUME NEW x, NEW i \in 1 .. n, x \in s[i].gets PROVE x = h /\ i = 1
        <4>1. i = 1
          <5>1. i # 1 => s[i].gets = {}
            BY <2>2, Zenon
          <5> QED
            BY <5>1, <3>1, Zenon
        <4>2. s[i].gets = {h}
          <5>1. i = 1 => s[i].gets = {h}
            BY <2>1, Zenon
          <5> QED
            BY <5>1, <4>1, Zenon
        <4>3. x = h
          BY <4>2, <3>1, Zenon
        <4> QED
          BY <4>1, <4>3, Zenon
      <3>2. ASSUME 1 \in 1 .. n PROVE h \in s[1].gets
        BY <3>2, <2>1, Zenon
      <3> QED
        BY <3>1, <3>2, Zenon
    <2>7. \A x : (\E i \in 1 .. n : x \in s[i].drops) <=> x = h /\ k \in 1 .. n
      <3>1. ASSUME NEW x, NEW i \in 1 .. n, x \in s[i].drops PROVE x = h /\ i = k
        <4>1. i = k
          <5>1. i # k => s[i].drops = {}
            BY <2>4, Zenon
          <5> QED
            BY <5>1, <3>1, Zenon
        <4>2. s[i].drops = {h}
          <5>1. i = k => s[i].drops = {h}
            BY <2>3, Zenon
          <5> QED
            BY <5>1, <4>1, Zenon
        <4>3. x = h
          BY <4>2, <3>1, Zenon
        <4> QED
          BY <4>1, <4>3, Zenon
      <3>2. ASSUME k \in 1 .. n PROVE h \in s[k].drops
        BY <3>2, <2>3, Zenon
      <3> QED
        BY <3>1, <3>2, Zenon
    <2>8. n \in 1 .. k - 1 <=> 1 \in 1 .. n /\ k \notin 1 .. n
      BY <1>1, SMT
    <2>9. \A x : x \in Owned(s, n) <=> x = h /\ n \in 1 .. k - 1
      BY <2>5, <2>6, <2>7, <2>8, Zenon
    <2> QED
      BY <2>9, Zenon
  <1>5. Released(s, n) = IF n \in 1 .. k - 1 THEN {h} ELSE {}
    <2>1. CASE n < Len(s)
      <3>1. Released(s, n) = IF n + 1 \in 2 .. k THEN {h} ELSE {}
        BY <2>1, <1>3, Zenon DEF Released, Borrows
      <3>2. n + 1 \in 2 .. k <=> n \in 1 .. k - 1
        BY <1>1, SMT
      <3> QED
        BY <3>1, <3>2, Zenon
    <2>2. CASE ~(n < Len(s))
      <3>1. Released(s, n) = {}
        BY <2>2, Zenon DEF Released
      <3>2. n \notin 1 .. k - 1
        BY <2>2, <1>1, SMTT(60)
      <3> QED
        BY <3>1, <3>2, Zenon
    <2> QED
      BY <2>1, <2>2, Zenon
  <1> QED
    BY <1>4, <1>5, Zenon

\* The fields of a step
LEMMA StepFields ==
  ASSUME NEW a, NEW b, NEW c
  PROVE  /\ Does(a, b, c).gets = a
         /\ Does(a, b, c).drops = b
         /\ Does(a, b, c).frees = c
         /\ Does(a, b, c).sets = {}
         /\ Does(a, b, c).clears = {}
         /\ \A d, e : /\ Makes(Does(a, b, c), d, e).gets = a
                      /\ Makes(Does(a, b, c), d, e).drops = b
                      /\ Makes(Does(a, b, c), d, e).frees = c
                      /\ Makes(Does(a, b, c), d, e).sets = d
                      /\ Makes(Does(a, b, c), d, e).clears = e
  BY SMT DEF Does, Makes

\* tun_set_ip, tun_set_mtu and run_cmd borrow a socket or a process handle.
LEMMA SeriesBorrow ==
  /\ Borrows(LinuxSetIp, "sock", 5) /\ Len(LinuxSetIp) = 5
  /\ Borrows(DarwinSetIp, "sock", 2) /\ Len(DarwinSetIp) = 2
  /\ Borrows(SetMtu, "sock", 2) /\ Len(SetMtu) = 2
  /\ Borrows(RunCmd, "child", 3) /\ Len(RunCmd) = 4
  <1>1. Borrows(LinuxSetIp, "sock", 5) /\ Len(LinuxSetIp) = 5
    <2>1. /\ Len(LinuxSetIp) = 5
          /\ LinuxSetIp[1] = Does(Sock, {}, {})
          /\ LinuxSetIp[2] = Makes(Does({}, {}, Sock), {"addr"}, {"mask"})
          /\ LinuxSetIp[3] = Makes(Does({}, {}, Sock), {"mask"}, {})
          /\ LinuxSetIp[4] = Does({}, {}, Sock)
          /\ LinuxSetIp[5] = Makes(Does({}, Sock, Sock), {"up"}, {})
      BY SMT DEF LinuxSetIp
    <2>2. \A i \in 1 .. 5 : i = 1 \/ i = 2 \/ i = 3 \/ i = 4 \/ i = 5
      BY SMTT(60)
    <2>3. /\ 5 \in Nat /\ 5 \in 2 .. 5
          /\ \A i \in 1 .. 5 : i \in 2 .. 5 <=> i # 1
          /\ 2 # 1 /\ 3 # 1 /\ 4 # 1 /\ 5 # 1 /\ 1 # 5 /\ 2 # 5 /\ 3 # 5 /\ 4 # 5
      BY SMTT(60)
    <2>4. ASSUME NEW i \in 1 .. 5
          PROVE  /\ i = 1 => LinuxSetIp[i].gets = Sock /\ LinuxSetIp[i].frees = {}
                 /\ i # 1 => LinuxSetIp[i].gets = {} /\ LinuxSetIp[i].frees = Sock
                 /\ i = 5 => LinuxSetIp[i].drops = Sock
                 /\ i # 5 => LinuxSetIp[i].drops = {}
      BY <2>1, <2>2, <2>3, StepFields, SMTT(60)
    <2> QED
      BY <2>1, <2>3, <2>4, SMTT(60) DEF Borrows, Sock
  <1>2. ASSUME NEW s, Len(s) = 2, s[1] = Does(Sock, {}, {}),
               NEW x, s[2] = Makes(Does({}, Sock, Sock), x, {})
        PROVE  Borrows(s, "sock", 2)
    <2>1. \A i \in 1 .. 2 : i = 1 \/ i = 2
      BY SMTT(60)
    <2>2. /\ 2 \in Nat /\ 2 \in 2 .. 2 /\ 1 \notin 2 .. 2 /\ 2 # 1
      BY SMTT(60)
    <2>3. /\ s[1].gets = Sock /\ s[1].drops = {} /\ s[1].frees = {}
          /\ s[2].gets = {} /\ s[2].drops = Sock /\ s[2].frees = Sock
      BY <1>2, StepFields, SMTT(60)
    <2> QED
      BY <1>2, <2>1, <2>2, <2>3, SMTT(60) DEF Borrows, Sock
  <1>3. /\ Len(DarwinSetIp) = 2 /\ DarwinSetIp[1] = Does(Sock, {}, {})
        /\ DarwinSetIp[2] = Makes(Does({}, Sock, Sock), {"addr", "mask", "up"}, {})
    BY SMTT(60) DEF DarwinSetIp
  <1>4. /\ Len(SetMtu) = 2 /\ SetMtu[1] = Does(Sock, {}, {})
        /\ SetMtu[2] = Makes(Does({}, Sock, Sock), {"mtu"}, {})
    BY SMTT(60) DEF SetMtu
  <1>5. Borrows(RunCmd, "child", 3) /\ Len(RunCmd) = 4
    <2>1. /\ Len(RunCmd) = 4
          /\ RunCmd[1] = Does({"child"}, {}, {})
          /\ RunCmd[2] = Does({}, {}, {"child"})
          /\ RunCmd[3] = Does({}, {"child"}, {"child"})
          /\ RunCmd[4] = Does({}, {}, {})
      BY SMT DEF RunCmd
    <2>2. \A i \in 1 .. 4 : i = 1 \/ i = 2 \/ i = 3 \/ i = 4
      BY SMT
    <2>3. /\ 4 \in Nat /\ 3 \in 2 .. 4
          /\ 1 \notin 2 .. 3 /\ 2 \in 2 .. 3 /\ 3 \in 2 .. 3 /\ 4 \notin 2 .. 3
          /\ 2 # 1 /\ 3 # 1 /\ 4 # 1 /\ 1 # 3 /\ 2 # 3 /\ 4 # 3
      BY SMTT(60)
    <2>4. /\ RunCmd[1].gets = {"child"} /\ RunCmd[1].drops = {} /\ RunCmd[1].frees = {}
          /\ RunCmd[2].gets = {} /\ RunCmd[2].drops = {} /\ RunCmd[2].frees = {"child"}
          /\ RunCmd[3].gets = {} /\ RunCmd[3].drops = {"child"} /\ RunCmd[3].frees = {"child"}
          /\ RunCmd[4].gets = {} /\ RunCmd[4].drops = {} /\ RunCmd[4].frees = {}
      BY <2>1, StepFields, SMTT(60)
    <2> QED
      BY <2>1, <2>2, <2>3, <2>4, SMTT(60) DEF Borrows
  <1> QED
    BY <1>1, <1>2, <1>3, <1>4, <1>5, ZenonT(60)

\* A series that obtains one handle for good: its first step obtains it, and
\* every later step gives it back if it fails.
Obtains(s, h) ==
  /\ Len(s) \in Nat \ {0}
  /\ \A i \in 1 .. Len(s) :
       /\ i = 1 => s[i].gets = {h} /\ s[i].frees = {}
       /\ i # 1 => s[i].gets = {} /\ s[i].frees = {h}
       /\ s[i].drops = {}

\* Such a series ends with the handle or with nothing.
LEMMA ObtainedOrNothing ==
  ASSUME NEW s, NEW h, Obtains(s, h), NEW n \in 0 .. Len(s)
  PROVE  /\ Released(s, n) \subseteq Owned(s, n)
         /\ n # Len(s) => Owned(s, n) \ Released(s, n) = {}
         /\ n = Len(s) => Owned(s, n) = {h} /\ Released(s, n) = {}
  <1>1. Len(s) \in Nat \ {0} /\ n \in Nat /\ n <= Len(s)
    BY SMT DEF Obtains
  <1>2. \A i \in 1 .. n : i \in 1 .. Len(s)
    BY <1>1, SMT
  <1>3. \A x : x \in Owned(s, n) <=> x = h /\ n # 0
    <2>1. \A x : x \in Owned(s, n) <=> /\ \E i \in 1 .. n : x \in s[i].gets
                                       /\ ~ \E i \in 1 .. n : x \in s[i].drops
      BY Zenon DEF Owned
    <2>2. \A i \in 1 .. n : s[i].drops = {}
      BY <1>2, Zenon DEF Obtains
    <2>3. ASSUME NEW x, NEW i \in 1 .. n, x \in s[i].gets PROVE x = h /\ n # 0
      <3>1. i = 1 => s[i].gets = {h}
        BY <1>2, Zenon DEF Obtains
      <3>2. i # 1 => s[i].gets = {}
        BY <1>2, Zenon DEF Obtains
      <3>3. n # 0
        BY <1>1, SMT
      <3> QED
        BY <2>3, <3>1, <3>2, <3>3, Zenon
    <2>4. ASSUME n # 0 PROVE 1 \in 1 .. n /\ h \in s[1].gets
      <3>1. 1 \in 1 .. n
        BY <2>4, <1>1, SMTT(60)
      <3>2. s[1].gets = {h}
        BY <3>1, <1>2, Zenon DEF Obtains
      <3> QED
        BY <3>1, <3>2, Zenon
    <2> QED
      BY <2>1, <2>2, <2>3, <2>4, Zenon
  <1>4. CASE n = Len(s)
    <2>1. ~(n < Len(s)) /\ n # 0
      BY <1>4, <1>1, SMT
    <2>2. Released(s, n) = {}
      BY <2>1, Zenon DEF Released
    <2> QED
      BY <2>1, <2>2, <1>3, <1>4, Zenon
  <1>5. CASE n # Len(s)
    <2>1. n < Len(s) /\ n + 1 \in 1 .. Len(s) /\ (n + 1 = 1 <=> n = 0)
      BY <1>5, <1>1, SMTT(60)
    <2>2. Released(s, n) = s[n + 1].frees
      BY <2>1, Zenon DEF Released
    <2>3. n = 0 => s[n + 1].frees = {}
      BY <2>1, Zenon DEF Obtains
    <2>4. n # 0 => s[n + 1].frees = {h}
      BY <2>1, Zenon DEF Obtains
    <2> QED
      BY <2>2, <2>3, <2>4, <1>3, <1>5, ZenonT(60)
  <1> QED
    BY <1>4, <1>5, ZenonT(60)

\* tun_open of Linux and macOS obtains a file descriptor.
LEMMA SeriesObtain == Obtains(LinuxOpen, "fd") /\ Obtains(DarwinOpen, "fd")
  <1>1. /\ Len(LinuxOpen) = 2
        /\ LinuxOpen[1] = Does(Fd, {}, {}) /\ LinuxOpen[2] = Does({}, {}, Fd)
    BY SMTT(60) DEF LinuxOpen
  <1>2. /\ Len(DarwinOpen) = 4
        /\ DarwinOpen[1] = Does(Fd, {}, {}) /\ DarwinOpen[2] = Does({}, {}, Fd)
        /\ DarwinOpen[3] = Does({}, {}, Fd) /\ DarwinOpen[4] = Does({}, {}, Fd)
    BY SMT DEF DarwinOpen
  <1>3. /\ 2 \in Nat \ {0} /\ \A i \in 1 .. 2 : i = 1 \/ i = 2
        /\ 4 \in Nat \ {0} /\ \A i \in 1 .. 4 : i = 1 \/ i = 2 \/ i = 3 \/ i = 4
        /\ 2 # 1 /\ 3 # 1 /\ 4 # 1
    BY SMTT(60)
  <1>4. /\ Does(Fd, {}, {}).gets = Fd /\ Does(Fd, {}, {}).frees = {}
        /\ Does(Fd, {}, {}).drops = {}
        /\ Does({}, {}, Fd).gets = {} /\ Does({}, {}, Fd).frees = Fd
        /\ Does({}, {}, Fd).drops = {}
    BY StepFields, SMTT(60)
  <1>5. Obtains(LinuxOpen, "fd")
    BY <1>1, <1>3, <1>4, SMTT(60) DEF Obtains, Fd
  <1>6. Obtains(DarwinOpen, "fd")
    BY <1>2, <1>3, <1>4, SMTT(60) DEF Obtains, Fd
  <1> QED
    BY <1>5, <1>6, Zenon

\* The steps of tun_open of Windows
LEMMA WindowsSteps ==
  /\ Len(WindowsOpen) = 5
  /\ WindowsOpen[1] = Does({"library"}, {}, {})
  /\ WindowsOpen[2] = Does({}, {}, {})
  /\ WindowsOpen[3] = Does({"adapter"}, {}, {})
  /\ WindowsOpen[4] = Does({"session"}, {}, {"adapter"})
  /\ WindowsOpen[5] = Does({}, {}, {"session", "adapter"})
  BY SMTT(60) DEF WindowsOpen, WintunLoad

\* tun_open of Windows ends with the library, the adapter and the session or
\* with nothing but, perhaps, the library.
LEMMA WindowsObtained ==
  ASSUME NEW n \in 0 .. Len(WindowsOpen)
  PROVE  /\ Released(WindowsOpen, n) \subseteq Owned(WindowsOpen, n)
         /\ n # Len(WindowsOpen) =>
              Owned(WindowsOpen, n) \ Released(WindowsOpen, n) \subseteq {"library"}
         /\ n = Len(WindowsOpen) =>
              /\ Owned(WindowsOpen, n) = {"library", "adapter", "session"}
              /\ Released(WindowsOpen, n) = {}
  <1>1. n = 0 \/ n = 1 \/ n = 2 \/ n = 3 \/ n = 4 \/ n = 5
    BY WindowsSteps, SMTT(60)
  <1>2. /\ WindowsOpen[1].gets = {"library"} /\ WindowsOpen[1].frees = {}
        /\ WindowsOpen[2].gets = {} /\ WindowsOpen[2].frees = {}
        /\ WindowsOpen[3].gets = {"adapter"} /\ WindowsOpen[3].frees = {}
        /\ WindowsOpen[4].gets = {"session"} /\ WindowsOpen[4].frees = {"adapter"}
        /\ WindowsOpen[5].gets = {} /\ WindowsOpen[5].frees = {"session", "adapter"}
        /\ WindowsOpen[1].drops = {} /\ WindowsOpen[2].drops = {}
        /\ WindowsOpen[3].drops = {} /\ WindowsOpen[4].drops = {}
        /\ WindowsOpen[5].drops = {}
    BY WindowsSteps, StepFields, SMTT(60)
  <1>3. \A x : x \in Owned(WindowsOpen, n) <=>
               \/ n >= 1 /\ x = "library"
               \/ n >= 3 /\ x = "adapter"
               \/ n >= 4 /\ x = "session"
    <2>1. \A x : x \in Owned(WindowsOpen, n)
                   <=> /\ \E i \in 1 .. n : x \in WindowsOpen[i].gets
                       /\ ~ \E i \in 1 .. n : x \in WindowsOpen[i].drops
      BY Zenon DEF Owned
    <2>2. ASSUME NEW x, NEW i \in 1 .. n
          PROVE  /\ x \notin WindowsOpen[i].drops
                 /\ x \in WindowsOpen[i].gets => \/ i = 1 /\ x = "library"
                                                 \/ i = 3 /\ x = "adapter"
                                                 \/ i = 4 /\ x = "session"
      <3>1. i = 1 \/ i = 2 \/ i = 3 \/ i = 4 \/ i = 5
        BY <1>1, SMT
      <3> QED
        BY <3>1, <1>2, ZenonT(60)
    <2>3. /\ \A i \in 1 .. n : i = 1 => n >= 1
          /\ \A i \in 1 .. n : i = 3 => n >= 3
          /\ \A i \in 1 .. n : i = 4 => n >= 4
          /\ n >= 1 => 1 \in 1 .. n
          /\ n >= 3 => 3 \in 1 .. n
          /\ n >= 4 => 4 \in 1 .. n
      BY <1>1, SMT
    <2>4. /\ "library" \in WindowsOpen[1].gets
          /\ "adapter" \in WindowsOpen[3].gets
          /\ "session" \in WindowsOpen[4].gets
      BY <1>2, ZenonT(60)
    <2> QED
      BY <2>1, <2>2, <2>3, <2>4, ZenonT(60)
  <1>4. /\ n = 0 => Released(WindowsOpen, n) = {}
        /\ n = 1 => Released(WindowsOpen, n) = {}
        /\ n = 2 => Released(WindowsOpen, n) = {}
        /\ n = 3 => Released(WindowsOpen, n) = {"adapter"}
        /\ n = 4 => Released(WindowsOpen, n) = {"session", "adapter"}
        /\ n = 5 => Released(WindowsOpen, n) = {}
    BY <1>2, WindowsSteps, SMTT(60) DEF Released
  <1> QED
    BY <1>1, <1>3, <1>4, WindowsSteps, SMTT(60)

\* A setting that a step makes and no later step undoes is in force; so is one
\* that was, if no step undoes it.
LEMMA SettingsHold ==
  ASSUME NEW s, NEW n \in Nat, NEW x
  PROVE  /\ \A i \in 1 .. n : x \in s[i].sets /\ (\A j \in i + 1 .. n : x \notin s[j].clears)
                                => x \in Settings(s, n)
         /\ x \in inForce /\ (\A j \in 1 .. n : x \notin s[j].clears) => x \in Settings(s, n)
  <1>1. ASSUME NEW i \in 1 .. n, x \in s[i].sets, \A j \in i + 1 .. n : x \notin s[j].clears
        PROVE  x \in Settings(s, n)
    <2>1. x \in {y \in s[i].sets : ~ \E j \in i + 1 .. n : y \in s[j].clears}
      BY <1>1, Zenon
    <2>2. x \in UNION {{y \in s[k].sets : ~ \E j \in k + 1 .. n : y \in s[j].clears} : k \in 1 .. n}
      BY <2>1, Zenon
    <2> QED
      BY <2>2, Zenon DEF Settings
  <1>2. ASSUME x \in inForce, \A j \in 1 .. n : x \notin s[j].clears
        PROVE  x \in Settings(s, n)
    <2>1. 0 + 1 = 1
      BY SMT
    <2> QED
      BY <1>2, <2>1, Zenon DEF Settings
  <1> QED
    BY <1>1, <1>2, Zenon

\* tun_set_ip and tun_set_mtu, when they succeed, have made the settings.
LEMMA SettingsMade ==
  /\ {"addr", "mask", "up"} \subseteq Settings(LinuxSetIp, Len(LinuxSetIp))
  /\ {"addr", "mask", "up"} \subseteq Settings(DarwinSetIp, Len(DarwinSetIp))
  /\ inForce \cup {"mtu"} \subseteq Settings(SetMtu, Len(SetMtu))
  <1>1. {"addr", "mask", "up"} \subseteq Settings(LinuxSetIp, Len(LinuxSetIp))
    <2>1. /\ Len(LinuxSetIp) = 5
          /\ LinuxSetIp[2] = Makes(Does({}, {}, Sock), {"addr"}, {"mask"})
          /\ LinuxSetIp[3] = Makes(Does({}, {}, Sock), {"mask"}, {})
          /\ LinuxSetIp[4] = Does({}, {}, Sock)
          /\ LinuxSetIp[5] = Makes(Does({}, Sock, Sock), {"up"}, {})
      BY SMTT(60) DEF LinuxSetIp
    <2>2. /\ LinuxSetIp[2].sets = {"addr"} /\ LinuxSetIp[3].sets = {"mask"}
          /\ LinuxSetIp[5].sets = {"up"}
          /\ LinuxSetIp[3].clears = {} /\ LinuxSetIp[4].clears = {}
          /\ LinuxSetIp[5].clears = {}
      BY <2>1, StepFields, SMTT(60)
    <2>3. \A j \in 3 .. 5 : j = 3 \/ j = 4 \/ j = 5
      BY SMT
    <2>4. \A j \in 3 .. 5 : \A x : x \notin LinuxSetIp[j].clears
      BY <2>2, <2>3, Zenon
    <2>5. /\ 5 \in Nat /\ 2 \in 1 .. 5 /\ 3 \in 1 .. 5 /\ 5 \in 1 .. 5
          /\ \A j \in 2 + 1 .. 5 : j \in 3 .. 5
          /\ \A j \in 3 + 1 .. 5 : j \in 3 .. 5
          /\ \A j \in 5 + 1 .. 5 : j \in 3 .. 5
      BY SMTT(60)
    <2>6. "addr" \in LinuxSetIp[2].sets => "addr" \in Settings(LinuxSetIp, 5)
      BY <2>4, <2>5, SettingsHold, SMTT(60)
    <2>7. "mask" \in LinuxSetIp[3].sets => "mask" \in Settings(LinuxSetIp, 5)
      BY <2>4, <2>5, SettingsHold, SMTT(60)
    <2>8. "up" \in LinuxSetIp[5].sets => "up" \in Settings(LinuxSetIp, 5)
      BY <2>4, <2>5, SettingsHold, SMTT(60)
    <2> QED
      BY <2>1, <2>2, <2>6, <2>7, <2>8, ZenonT(60)
  <1>2. ASSUME NEW s, Len(s) = 2, NEW x, s[1] = Does(Sock, {}, {}),
               s[2] = Makes(Does({}, Sock, Sock), x, {})
        PROVE  inForce \cup x \subseteq Settings(s, Len(s))
    <2>1. s[1].clears = {} /\ s[2].clears = {} /\ s[2].sets = x
      BY <1>2, StepFields, SMTT(60)
    <2>2. \A j \in 1 .. 2 : j = 1 \/ j = 2
      BY SMT
    <2>3. \A j \in 1 .. 2 : \A y : y \notin s[j].clears
      BY <2>1, <2>2, Zenon
    <2>4. 2 \in Nat /\ 2 \in 1 .. 2 /\ \A j \in 2 + 1 .. 2 : j \in 1 .. 2
      BY SMTT(60)
    <2>5. ASSUME NEW y \in inForce PROVE y \in Settings(s, 2)
      BY <2>3, <2>4, SettingsHold, SMTT(60)
    <2>6. ASSUME NEW y \in x PROVE y \in Settings(s, 2)
      BY <2>1, <2>3, <2>4, SettingsHold, SMTT(60)
    <2> QED
      BY <1>2, <2>5, <2>6, ZenonT(60)
  <1>3. /\ Len(DarwinSetIp) = 2 /\ DarwinSetIp[1] = Does(Sock, {}, {})
        /\ DarwinSetIp[2] = Makes(Does({}, Sock, Sock), {"addr", "mask", "up"}, {})
    BY SMT DEF DarwinSetIp
  <1>4. /\ Len(SetMtu) = 2 /\ SetMtu[1] = Does(Sock, {}, {})
        /\ SetMtu[2] = Makes(Does({}, Sock, Sock), {"mtu"}, {})
    BY SMT DEF SetMtu
  <1>5. inForce \cup {"addr", "mask", "up"} \subseteq Settings(DarwinSetIp, Len(DarwinSetIp))
    BY <1>2, <1>3, Zenon
  <1>6. inForce \cup {"mtu"} \subseteq Settings(SetMtu, Len(SetMtu))
    BY <1>2, <1>4, Zenon
  <1> QED
    BY <1>1, <1>5, <1>6, Zenon
-----------------------------------------------------------------------------
(* The inductive invariant of the device. *)

\* A call that borrows a handle leaves those of the process as they were, and
\* says whether the system refused.
LEMMA BorrowKeeps ==
  ASSUME NEW s, NEW h, NEW k, Borrows(s, h, k), h \notin held, ~wild, NEW n, Make(s, n)
  PROVE  /\ held' = held /\ ~wild'
         /\ n # Len(s) => cause'
  <1>1. n \in 0 .. Len(s) /\ Len(s) \in Nat
    BY Zenon DEF Make, Borrows
  <1>2. Owned(s, n) \subseteq {h} /\ Released(s, n) = Owned(s, n)
    BY <1>1, BorrowedIsReturned, Zenon
  <1>3. PICK O : O = Owned(s, n)
    BY Zenon
  <1>4. /\ held' = (held \cup O) \ O
        /\ wild' = (wild \/ ~(O \subseteq held \cup O))
        /\ cause' = (n < Len(s))
    BY <1>2, <1>3, Zenon DEF Make
  <1>5. O \subseteq {h}
    BY <1>2, <1>3, Zenon
  <1>6. held' = held
    BY <1>4, <1>5, Zenon
  <1>7. ~wild'
    BY <1>4, Zenon
  <1>8. n # Len(s) => n < Len(s)
    BY <1>1, SMTT(60)
  <1> QED
    BY <1>4, <1>6, <1>7, <1>8, ZenonT(60)

\* No call holds a socket or a process handle between two calls.
LEMMA NothingBorrowed ==
  ASSUME held = WithDevice
  PROVE  "sock" \notin held /\ "child" \notin held
  BY Zenon DEF WithDevice, Device, Fd

\* The process begins with the invariant.
LEMMA DevInitIInv == DevInit => DevIInv
  BY Zenon DEF DevInit, DevIInv, DevTypeOK, SeenInForce, WindowsCalls, Configuring

\* tun_open
LEMMA OpenIInv == DevIInv /\ tun_open => DevIInv'
  <1> SUFFICES ASSUME DevIInv, tun_open PROVE DevIInv'
    OBVIOUS
  <1> DEFINE s == OpenSteps(platform)
  <1>1. PICK n \in 0 .. Len(s) :
          /\ Make(s, n)
          /\ dev' = IF n = Len(s) THEN Owned(s, n) \ {"library"} ELSE dev
          /\ call' = IF n = Len(s) THEN "ip" ELSE "closed"
    BY Zenon DEF tun_open
  <1>2. /\ call = "open" /\ platform' = platform /\ address' = address
    BY Zenon DEF tun_open
  <1>3. /\ platform \in {"linux", "darwin", "windows"} /\ held = {} /\ dev = {} /\ ~wild
        /\ address \in TunAddrs \X TunMasks
    BY <1>2, Zenon DEF DevIInv, DevTypeOK
  <1>4. /\ Released(s, n) \subseteq Owned(s, n)
        /\ n # Len(s) => Owned(s, n) \ Released(s, n) \subseteq {"library"}
        /\ n = Len(s) => /\ Owned(s, n) = WithDevice
                         /\ Owned(s, n) \ {"library"} = Device
                         /\ Released(s, n) = {}
    <2>1. ASSUME platform \in {"linux", "darwin"} PROVE Obtains(s, "fd") /\ Device = {"fd"} /\ WithDevice = Device
      <3>1. platform # "windows"
        BY <2>1, Zenon
      <3>2. CASE platform = "linux"
        <4>1. s = LinuxOpen
          BY <3>2, SMT DEF OpenSteps
        <4> HIDE DEF s
        <4> QED
          BY <3>1, <4>1, SeriesObtain, Zenon DEF Device, WithDevice, Fd
      <3>3. CASE platform = "darwin"
        <4>1. s = DarwinOpen
          BY <3>3, SMT DEF OpenSteps
        <4> HIDE DEF s
        <4> QED
          BY <3>1, <4>1, SeriesObtain, Zenon DEF Device, WithDevice, Fd
      <3> QED
        BY <2>1, <3>2, <3>3, Zenon
    <2>2. CASE platform \in {"linux", "darwin"}
      <3> HIDE DEF s
      <3>1. /\ Released(s, n) \subseteq Owned(s, n)
            /\ n # Len(s) => Owned(s, n) \ Released(s, n) = {}
            /\ n = Len(s) => Owned(s, n) = {"fd"} /\ Released(s, n) = {}
        BY <2>1, <2>2, ObtainedOrNothing, Zenon
      <3> QED
        BY <3>1, <2>1, <2>2, Zenon
    <2>3. CASE platform = "windows"
      <3>1. s = WindowsOpen
        BY <2>3, SMT DEF OpenSteps
      <3>2. Device = {"adapter", "session"} /\ WithDevice = {"library", "adapter", "session"}
        BY <2>3, Zenon DEF Device, WithDevice
      <3>3. {"library", "adapter", "session"} \ {"library"} = {"adapter", "session"}
        BY Zenon
      <3> HIDE DEF s
      <3>4. n \in 0 .. Len(WindowsOpen)
        BY <3>1, Zenon
      <3> QED
        BY <3>1, <3>2, <3>3, <3>4, WindowsObtained, Zenon
    <2> QED
      BY <1>3, <2>2, <2>3, Zenon
  <1> HIDE DEF s
  <1>5. /\ held' = Owned(s, n) \ Released(s, n) /\ ~wild'
    <2>1. PICK O, R : O = Owned(s, n) /\ R = Released(s, n)
      BY Zenon
    <2>2. held' = (held \cup O) \ R /\ wild' = (wild \/ ~(R \subseteq held \cup O))
      BY <1>1, <2>1, Zenon DEF Make
    <2>3. R \subseteq O
      BY <1>4, <2>1, Zenon
    <2> QED
      BY <2>1, <2>2, <2>3, <1>3, Zenon
  <1>6. Device' = Device /\ WithDevice' = WithDevice
    BY <1>2, Zenon DEF Device, WithDevice
  <1>7. CASE n = Len(s)
    <2>1. call' = "ip" /\ dev' = Device'
      BY <1>1, <1>4, <1>6, <1>7, Zenon
    <2>2. held' = WithDevice'
      BY <1>4, <1>5, <1>6, <1>7, Zenon
    <2> QED
      BY <2>1, <2>2, <1>2, <1>3, <1>5, ZenonT(60)
         DEF DevIInv, DevTypeOK, SeenInForce, WindowsCalls, Configuring
  <1>8. CASE n # Len(s)
    <2>1. call' = "closed"
      BY <1>1, <1>8, Zenon
    <2>2. held' \subseteq {"library"}
      BY <1>4, <1>5, <1>8, Zenon
    <2> QED
      BY <2>1, <2>2, <1>2, <1>3, <1>5, ZenonT(60)
         DEF DevIInv, DevTypeOK, SeenInForce, WindowsCalls, Configuring
  <1> QED
    BY <1>7, <1>8, Zenon

\* tun_set_ip and tun_set_mtu of Linux and macOS
LEMMA SetIpIInv == DevIInv /\ tun_set_ip => DevIInv'
  <1> SUFFICES ASSUME DevIInv, tun_set_ip PROVE DevIInv'
    OBVIOUS
  <1>1. PICK s : s = IF platform = "linux" THEN LinuxSetIp ELSE DarwinSetIp
    BY Zenon
  <1>2. PICK n \in 0 .. Len(s) :
          /\ Make(s, n)
          /\ inForce' = Settings(s, n) \/ inForce' = Settings(s, n) \cup {"route"}
          /\ call' = IF n = Len(s) THEN "mtu" ELSE "close"
    BY <1>1, Zenon DEF tun_set_ip
  <1>3. /\ call = "ip" /\ platform # "windows"
        /\ platform' = platform /\ address' = address /\ dev' = dev
    BY Zenon DEF tun_set_ip
  <1>4. /\ platform \in {"linux", "darwin", "windows"} /\ ~wild
        /\ held = WithDevice /\ dev = Device /\ address \in TunAddrs \X TunMasks
    BY <1>3, Zenon DEF DevIInv, DevTypeOK, Configuring
  <1>5. \E k : Borrows(s, "sock", k)
    BY <1>1, SeriesBorrow, Zenon
  <1>6. {"addr", "mask", "up"} \subseteq Settings(s, Len(s))
    BY <1>1, SettingsMade, Zenon
  <1>7. held' = held /\ ~wild' /\ (n # Len(s) => cause')
    BY <1>2, <1>4, <1>5, NothingBorrowed, BorrowKeeps, Zenon
  <1>8. Device' = Device /\ WithDevice' = WithDevice
    BY <1>3, Zenon DEF Device, WithDevice
  <1>9. CASE n = Len(s)
    <2>1. call' = "mtu"
      BY <1>2, <1>9, Zenon
    <2>2. "addr" \in inForce' /\ "mask" \in inForce' /\ "up" \in inForce'
      BY <1>2, <1>6, <1>9, Zenon
    <2> QED
      BY <2>1, <2>2, <1>3, <1>4, <1>7, <1>8, ZenonT(60)
         DEF DevIInv, DevTypeOK, SeenInForce, WindowsCalls, Configuring
  <1>10. CASE n # Len(s)
    <2>1. call' = "close"
      BY <1>2, <1>10, Zenon
    <2> QED
      BY <2>1, <1>3, <1>4, <1>7, <1>8, <1>10, ZenonT(60)
         DEF DevIInv, DevTypeOK, SeenInForce, WindowsCalls, Configuring
  <1> QED
    BY <1>9, <1>10, Zenon

\* tun_set_mtu of Linux and macOS: the device is up if every call succeeded.
LEMMA SetMtuIInv == DevIInv /\ tun_set_mtu => DevIInv'
  <1> SUFFICES ASSUME DevIInv, tun_set_mtu PROVE DevIInv'
    OBVIOUS
  <1>1. PICK n \in 0 .. Len(SetMtu) :
          /\ Make(SetMtu, n)
          /\ inForce' = Settings(SetMtu, n)
          /\ call' = IF n = Len(SetMtu) THEN "up" ELSE "close"
    BY Zenon DEF tun_set_mtu
  <1>2. /\ call = "mtu" /\ platform # "windows"
        /\ platform' = platform /\ address' = address /\ dev' = dev
    BY Zenon DEF tun_set_mtu
  <1>3. /\ platform \in {"linux", "darwin", "windows"} /\ ~wild
        /\ held = WithDevice /\ dev = Device /\ address \in TunAddrs \X TunMasks
        /\ "addr" \in inForce /\ "mask" \in inForce
        /\ platform = "linux" => "up" \in inForce
    BY <1>2, Zenon DEF DevIInv, DevTypeOK, Configuring, SeenInForce
  <1>4. held' = held /\ ~wild' /\ (n # Len(SetMtu) => cause')
    BY <1>1, <1>3, SeriesBorrow, NothingBorrowed, BorrowKeeps, ZenonT(60)
  <1>5. Device' = Device /\ WithDevice' = WithDevice
    BY <1>2, Zenon DEF Device, WithDevice
  <1>6. CASE n = Len(SetMtu)
    <2>1. call' = "up"
      BY <1>1, <1>6, Zenon
    <2>2. inForce \cup {"mtu"} \subseteq inForce'
      BY <1>1, <1>6, SettingsMade, Zenon
    <2>3. /\ "addr" \in inForce' /\ "mask" \in inForce' /\ "mtu" \in inForce'
          /\ platform = "linux" => "up" \in inForce'
      BY <2>2, <1>3, Zenon
    <2> QED
      BY <2>1, <2>3, <1>2, <1>3, <1>4, <1>5, ZenonT(60)
         DEF DevIInv, DevTypeOK, SeenInForce, WindowsCalls, Configuring
  <1>7. CASE n # Len(SetMtu)
    <2>1. call' = "close"
      BY <1>1, <1>7, Zenon
    <2> QED
      BY <2>1, <1>2, <1>3, <1>4, <1>5, <1>7, ZenonT(60)
         DEF DevIInv, DevTypeOK, SeenInForce, WindowsCalls, Configuring
  <1> QED
    BY <1>6, <1>7, Zenon

\* run_cmd, in SetAddress and SetWinMtu
LEMMA RunCmdIInv == DevIInv /\ (SetAddress \/ SetWinMtu) => DevIInv'
  <1>1. ASSUME DevIInv, NEW settings, NEW next, run_cmd(settings, next),
               platform = "windows", call \in {"ip", "mtu"}
        PROVE  /\ platform' = platform /\ address' = address /\ dev' = dev
               /\ inForce' = inForce
               /\ held' = held /\ ~wild'
               /\ call' = next \/ (call' = "close" /\ cause')
               /\ held = WithDevice /\ dev = Device /\ address \in TunAddrs \X TunMasks
               /\ WithDevice' = WithDevice /\ Device' = Device
    <2>1. PICK n : /\ Make(RunCmd, n)
                   /\ call' = IF n = Len(RunCmd) THEN next ELSE "close"
      BY <1>1, Zenon DEF run_cmd
    <2>2. /\ platform' = platform /\ address' = address /\ dev' = dev
          /\ inForce' = inForce
      BY <1>1, Zenon DEF run_cmd
    <2>3. /\ ~wild /\ held = WithDevice /\ dev = Device /\ address \in TunAddrs \X TunMasks
      BY <1>1, Zenon DEF DevIInv, DevTypeOK, Configuring
    <2>4. held' = held /\ ~wild' /\ (n # Len(RunCmd) => cause')
      BY <2>1, <2>3, SeriesBorrow, NothingBorrowed, BorrowKeeps, Zenon
    <2>5. WithDevice' = WithDevice /\ Device' = Device
      BY <2>2, Zenon DEF Device, WithDevice
    <2>6. call' = next \/ (call' = "close" /\ cause')
      BY <2>1, <2>4, Zenon
    <2> QED
      BY <2>2, <2>3, <2>4, <2>5, <2>6, ZenonT(60)
  <1>2. ASSUME DevIInv, SetAddress PROVE DevIInv'
    <2>1. call = "ip" /\ platform = "windows" /\ run_cmd({"addr", "mask"}, "waitIp")
      BY <1>2, Zenon DEF SetAddress
    <2>2. /\ platform' = platform /\ address' = address /\ dev' = dev
          /\ inForce' = inForce
          /\ held' = held /\ ~wild'
          /\ call' = "waitIp" \/ (call' = "close" /\ cause')
          /\ held = WithDevice /\ dev = Device /\ address \in TunAddrs \X TunMasks
          /\ WithDevice' = WithDevice /\ Device' = Device
      BY <2>1, <1>1, <1>2, Zenon
    <2> QED
      BY <2>1, <2>2, Zenon
         DEF DevIInv, DevTypeOK, SeenInForce, WindowsCalls, Configuring
  <1>3. ASSUME DevIInv, SetWinMtu PROVE DevIInv'
    <2>1. call = "mtu" /\ platform = "windows" /\ run_cmd({"mtu"}, "waitMtu")
      BY <1>3, Zenon DEF SetWinMtu
    <2>2. "addr" \in inForce /\ "mask" \in inForce /\ "route" \in inForce
      BY <1>3, <2>1, Zenon DEF DevIInv, SeenInForce
    <2>3. /\ platform' = platform /\ address' = address /\ dev' = dev
          /\ inForce' = inForce
          /\ held' = held /\ ~wild'
          /\ call' = "waitMtu" \/ (call' = "close" /\ cause')
          /\ held = WithDevice /\ dev = Device /\ address \in TunAddrs \X TunMasks
          /\ WithDevice' = WithDevice /\ Device' = Device
      BY <2>1, <1>1, <1>3, Zenon
    <2> QED
      BY <2>1, <2>2, <2>3, Zenon
         DEF DevIInv, DevTypeOK, SeenInForce, WindowsCalls, Configuring
  <1> QED
    BY <1>2, <1>3, Zenon

\* The wait loops, which see a setting exactly when it is in force
LEMMA LookIInv == DevIInv /\ Look => DevIInv'
  <1> SUFFICES ASSUME DevIInv, Look PROVE DevIInv'
    OBVIOUS
  <1>1. PICK answered \in BOOLEAN :
          LET found == answered /\ Applied[call] IN
          /\ call' = IF found THEN Onward[call] ELSE IF tries + 1 = TunTries THEN "close" ELSE call
          /\ cause' = (~answered \/ ~(Wanted[call] \subseteq inForce))
    BY Zenon DEF Look
  <1>2. /\ platform' = platform /\ address' = address /\ dev' = dev
        /\ inForce' = inForce /\ held' = held /\ wild' = wild
    BY ZenonT(60) DEF Look
  <1>3. call \in {"waitIp", "waitRoute", "waitMtu"}
    BY SMT DEF Look, Wanted
  <1>4. /\ platform = "windows" /\ ~wild
        /\ held = WithDevice /\ dev = Device /\ address \in TunAddrs \X TunMasks
        /\ call \in {"waitRoute", "waitMtu"} => "addr" \in inForce /\ "mask" \in inForce
        /\ call = "waitMtu" => "route" \in inForce
    BY <1>3, Zenon DEF DevIInv, DevTypeOK, SeenInForce, WindowsCalls, Configuring
  <1>5. WithDevice' = WithDevice /\ Device' = Device
    BY <1>2, Zenon DEF Device, WithDevice
  <1>6. Applied[call] <=> Wanted[call] \subseteq inForce
    <2>1. CASE call = "waitIp"
      <3>1. Applied[call] = windows_ip_config_applied /\ Wanted[call] = {"addr", "mask"}
        BY <2>1, SMTT(60) DEF Applied, Wanted
      <3>2. address[2] \in TunMasks
        BY <1>4, SMT
      <3> QED
        BY <3>1, <3>2, IpConfigApplied, ZenonT(60)
    <2>2. CASE call = "waitRoute"
      <3>1. Applied[call] = windows_route_applied /\ Wanted[call] = {"route"}
        BY <2>2, SMT DEF Applied, Wanted
      <3> QED
        BY <3>1, Zenon DEF windows_route_applied
    <2>3. CASE call = "waitMtu"
      <3>1. Applied[call] = windows_mtu_applied /\ Wanted[call] = {"mtu"}
        BY <2>3, SMTT(60) DEF Applied, Wanted
      <3> QED
        BY <3>1, Zenon DEF windows_mtu_applied
    <2> QED
      BY <1>3, <2>1, <2>2, <2>3, ZenonT(60)
  <1>7. CASE answered /\ Applied[call]
    <2>1. call' = Onward[call] /\ Wanted[call] \subseteq inForce
      BY <1>1, <1>6, <1>7, ZenonT(60)
    <2>2. /\ call = "waitIp" => call' = "route" /\ "addr" \in inForce /\ "mask" \in inForce
          /\ call = "waitRoute" => call' = "mtu" /\ "route" \in inForce
          /\ call = "waitMtu" => call' = "up" /\ "mtu" \in inForce
      BY <2>1, SMTT(60) DEF Onward, Wanted
    <2> QED
      BY <2>2, <1>2, <1>3, <1>4, <1>5, ZenonT(60)
         DEF DevIInv, DevTypeOK, SeenInForce, WindowsCalls, Configuring
  <1>8. CASE ~(answered /\ Applied[call])
    <2>1. (call' = "close" \/ call' = call) /\ cause'
      BY <1>1, <1>6, <1>8, Zenon
    <2> QED
      BY <2>1, <1>2, <1>3, <1>4, <1>5, ZenonT(60)
         DEF DevIInv, DevTypeOK, SeenInForce, WindowsCalls, Configuring
  <1> QED
    BY <1>7, <1>8, Zenon

\* The steps that leave the handles alone, but for the wait loops
LEMMA QuietIInv ==
  DevIInv /\ (DevStart \/ Apply \/ FindRoute \/ AddRoute \/ UNCHANGED devVars) => DevIInv'
  <1>1. ASSUME DevIInv, DevStart PROVE DevIInv'
    BY <1>1, Zenon
       DEF DevStart, config, DevIInv, DevTypeOK, SeenInForce, WindowsCalls, Configuring
  <1>2. ASSUME DevIInv, Apply PROVE DevIInv'
    <2>1. /\ inForce \subseteq inForce' /\ platform' = platform /\ call' = call
          /\ address' = address /\ held' = held /\ dev' = dev /\ cause' = cause
          /\ wild' = wild
      BY <1>2, Zenon DEF Apply
    <2>2. SeenInForce'
      BY <2>1, <1>2, Zenon DEF DevIInv, SeenInForce
    <2> QED
      BY <2>1, <2>2, <1>2, Zenon DEF DevIInv, DevTypeOK, WithDevice, Device
  <1>3. ASSUME DevIInv, FindRoute PROVE DevIInv'
    <2>1. /\ call = "route" /\ (call' = "waitRoute" \/ call' = "addRoute")
          /\ platform' = platform /\ address' = address /\ held' = held
          /\ dev' = dev /\ inForce' = inForce /\ wild' = wild
      BY <1>3, Zenon DEF FindRoute
    <2>2. platform = "windows" /\ held = WithDevice /\ dev = Device
      BY <2>1, <1>3, Zenon DEF DevIInv, WindowsCalls, Configuring
    <2>3. WithDevice' = WithDevice /\ Device' = Device
      BY <2>1, Zenon DEF Device, WithDevice
    <2> QED
      BY <2>1, <2>2, <2>3, <1>3, ZenonT(60)
         DEF DevIInv, DevTypeOK, SeenInForce, WindowsCalls, Configuring
  <1>4. ASSUME DevIInv, AddRoute PROVE DevIInv'
    <2>1. /\ call = "addRoute" /\ (call' = "waitRoute" \/ (call' = "close" /\ cause'))
          /\ platform' = platform /\ address' = address /\ held' = held
          /\ dev' = dev /\ inForce' = inForce /\ wild' = wild
      BY <1>4, Zenon DEF AddRoute
    <2>2. platform = "windows" /\ held = WithDevice /\ dev = Device
      BY <2>1, <1>4, Zenon DEF DevIInv, WindowsCalls, Configuring
    <2>3. WithDevice' = WithDevice /\ Device' = Device
      BY <2>1, Zenon DEF Device, WithDevice
    <2> QED
      BY <2>1, <2>2, <2>3, <1>4, Zenon
         DEF DevIInv, DevTypeOK, SeenInForce, WindowsCalls, Configuring
  <1>5. ASSUME DevIInv, UNCHANGED devVars PROVE DevIInv'
    BY <1>5, ZenonT(60) DEF devVars, DevIInv, DevTypeOK, SeenInForce, WithDevice, Device
  <1> QED
    BY <1>1, <1>2, <1>3, <1>4, <1>5, Zenon

\* tun_close, at the shutdown or after a failure, and the end of the process
LEMMA CloseIInv == DevIInv /\ (DevClose \/ DevExit) => DevIInv'
  <1>1. ASSUME DevIInv, DevClose PROVE DevIInv'
    <2>1. /\ call \in {"close", "up"} /\ call' = "closed"
          /\ platform' = platform /\ address' = address
          /\ held' = held \ dev /\ wild' = (wild \/ ~(dev \subseteq held))
      BY <1>1, Zenon DEF DevClose, tun_close, WinClose
    <2>2. held = WithDevice /\ dev = Device /\ ~wild
      BY <2>1, <1>1, Zenon DEF DevIInv, Configuring
    <2>3. Device \subseteq WithDevice /\ WithDevice \subseteq Device \cup {"library"}
      BY Zenon DEF WithDevice
    <2>4. held' \subseteq {"library"} /\ ~wild'
      BY <2>1, <2>2, <2>3, Zenon
    <2> QED
      BY <2>1, <2>4, <1>1, Zenon
         DEF DevIInv, DevTypeOK, SeenInForce, WindowsCalls, Configuring
  <1>2. ASSUME DevIInv, DevExit PROVE DevIInv'
    BY <1>2, Zenon DEF DevExit, DevIInv, DevTypeOK, SeenInForce, WindowsCalls, Configuring
  <1> QED
    BY <1>1, <1>2, Zenon

\* The invariant of the device holds whatever the system refuses, and whenever
\* it puts the settings in force.
THEOREM DeviceInvariant == DevSpec => []DevIInv
  <1>1. DevIInv /\ [DevNext]_devVars => DevIInv'
    BY OpenIInv, SetIpIInv, SetMtuIInv, RunCmdIInv, LookIInv, QuietIInv, CloseIInv, ZenonT(60)
       DEF DevNext
  <1> QED
    BY <1>1, DevInitIInv, PTL DEF DevSpec

\* tun_open, tun_set_ip, tun_set_mtu and run_cmd leak no handle and give none
\* back twice, at whichever system call they give up, for every number of looks
\* and every address and netmask.
THEOREM DeviceHandlesBalanced == DevSpec => []HandlesBalanced
  <1>1. DevIInv => HandlesBalanced
    <2> SUFFICES ASSUME DevIInv PROVE HandlesBalanced
      OBVIOUS
    <2>1. Device = Device \ {"library"} /\ WithDevice \ {"library"} = Device
      BY Zenon DEF Device, WithDevice, Fd
    <2>2. CASE call \in {"start", "open"}
      BY <2>2, Zenon DEF DevIInv, HandlesBalanced
    <2>3. CASE call \in Configuring
      <3>1. held = WithDevice /\ dev = Device /\ ~wild /\ call # "closed"
        BY <2>3, Zenon DEF DevIInv, Configuring, WindowsCalls
      <3> QED
        BY <3>1, <2>1, Zenon DEF HandlesBalanced
    <2>4. CASE call = "closed"
      BY <2>4, Zenon DEF DevIInv, HandlesBalanced
    <2> QED
      BY <2>2, <2>3, <2>4, Zenon DEF DevIInv, DevTypeOK
  <1> QED
    BY <1>1, DeviceInvariant, PTL

\* The threads start only on a configured interface, whenever the settings of
\* netsh take effect; the peer address of the macOS interface is another host
\* of its network, for every width of addresses, every address and every netmask
\* that leaves at least four addresses.
THEOREM DeviceConfiguredWhenUp == DevSpec => []ConfiguredWhenUp
  <1>1. DevIInv => ConfiguredWhenUp
    <2> SUFFICES ASSUME DevIInv, call = "up" PROVE ConfiguredWhenUp
      BY Zenon DEF ConfiguredWhenUp
    <2>1. /\ "addr" \in inForce /\ "mask" \in inForce /\ "mtu" \in inForce
          /\ platform = "windows" => "route" \in inForce
          /\ platform = "linux" => "up" \in inForce
          /\ address \in TunAddrs \X TunMasks
      BY Zenon DEF DevIInv, DevTypeOK, SeenInForce
    <2>2. LET peer == PeerAddress(address[1], address[2])
              size == Pow2[TunWidth] - address[2]
          IN  peer # address[1] /\ peer \div size = address[1] \div size
      BY <2>1, PeerIsANeighbour, Zenon
    <2>3. {"addr", "mask", "mtu"} \subseteq inForce
      BY <2>1, Zenon
    <2> QED
      BY <2>1, <2>2, <2>3, Zenon DEF ConfiguredWhenUp
  <1> QED
    BY <1>1, DeviceInvariant, PTL

\* Setting up the device is given up only because the system refused, did not
\* answer or had not put the setting in force: prefix_len_from_netmask reads
\* every contiguous netmask as the system does.
THEOREM DeviceGivesUpForCause == DevSpec => []GivesUpForCause
  <1>1. DevIInv => GivesUpForCause
    BY ZenonT(60) DEF DevIInv, GivesUpForCause
  <1> QED
    BY <1>1, DeviceInvariant, PTL
-----------------------------------------------------------------------------
(* The replay window: each number is handed on at most once, and a late    *)
(* number that is still inside the window is never rejected.               *)

\* Accepting a number leaves a well-formed window whose highest number is the
\* larger of the old one and the new one.
LEMMA UpdateType ==
  ASSUME NEW w \in WindowType, NEW seq \in Nat, ReplayAccepts(w, seq)
  PROVE  /\ ReplayUpdate(w, seq) \in WindowType
         /\ ReplayUpdate(w, seq).highest =
              IF seq > w.highest THEN seq ELSE w.highest
  BY SMTT(60), WindowAssumption
     DEF WindowType, ReplayAccepts, ReplayUpdate, ShiftIn, Bits

\* What the bits say after an accepted number: the number itself is marked,
\* and every other number that was and still is inside the window keeps its
\* mark (proto_replay_accept shifts the word by seq - highest).
LEMMA UpdateBits ==
  ASSUME NEW w \in WindowType, w.highest # 0,
         NEW seq \in Nat, ReplayAccepts(w, seq),
         NEW s \in Nat,
         s <= ReplayUpdate(w, seq).highest,
         ReplayUpdate(w, seq).highest - s < Window
  PROVE  (ReplayUpdate(w, seq).highest - s \in ReplayUpdate(w, seq).seen)
           <=> (s = seq \/ (s <= w.highest /\ w.highest - s \in w.seen))
  <1>1. CASE seq > w.highest
    <2>1. ReplayUpdate(w, seq) =
            [highest |-> seq, seen |-> ShiftIn(w.seen, seq - w.highest)]
      BY SMTT(60), <1>1 DEF ReplayUpdate, WindowType
    <2>2. seq - s \in Bits
      BY SMTT(60), <2>1, WindowAssumption DEF Bits, WindowType
    <2>3. (seq - s) - (seq - w.highest) = w.highest - s
      BY SMTT(60) DEF WindowType
    <2>4. (seq - s \in ShiftIn(w.seen, seq - w.highest))
            <=> (s = seq \/ w.highest - s \in w.seen)
      BY SMTT(60), <2>2, <2>3 DEF ShiftIn
    <2>5. w.highest - s \in w.seen => s <= w.highest
      BY SMTT(60), WindowAssumption DEF WindowType, Bits
    <2> QED
      BY SMTT(60), <2>1, <2>4, <2>5
  <1>2. CASE ~(seq > w.highest)
    <2>1. ReplayUpdate(w, seq) =
            [highest |-> w.highest, seen |-> w.seen \cup {w.highest - seq}]
      BY <1>2 DEF ReplayUpdate
    <2> QED
      BY SMTT(60), <2>1, <1>2 DEF WindowType
  <1> QED
    BY SMTT(60), <1>1, <1>2

\* An accepted number has not been handled before: this is what the bit test
\* and the cut-off at the width of the window are for.
LEMMA AcceptedIsNew ==
  ASSUME NEW w \in WindowType, NEW h \in [SeqNums -> Nat], Exact(w, h),
         NEW seq \in SeqNums, ReplayAccepts(w, seq)
  PROVE  h[seq] = 0
  BY SMTT(60), SeqNumsAssumption, WindowAssumption
     DEF Exact, ReplayAccepts, WindowType

\* Accepting a number keeps the window exact, and counts no number twice.
LEMMA ExactKept ==
  ASSUME NEW w \in WindowType, NEW h \in [SeqNums -> Nat], Exact(w, h),
         \A s \in SeqNums : h[s] <= 1,
         NEW seq \in SeqNums, ReplayAccepts(w, seq),
         NEW w2, w2 = ReplayUpdate(w, seq),
         NEW h2, h2 = [h EXCEPT ![seq] = @ + 1]
  PROVE  /\ w2 \in WindowType
         /\ h2 \in [SeqNums -> Nat]
         /\ \A s \in SeqNums : h2[s] <= 1
         /\ Exact(w2, h2)
  <1> USE SeqNumsAssumption, WindowAssumption
  <1>1. h[seq] = 0
    BY SMTT(60), AcceptedIsNew
  <1>2. seq \in Nat /\ seq # 0
    BY SMTT(60) DEF ReplayAccepts
  <1>3. w2 \in WindowType /\ w2.highest = IF seq > w.highest THEN seq ELSE w.highest
    BY SMTT(60), <1>2, UpdateType
  <1>4. h2 \in [SeqNums -> Nat] /\ \A s \in SeqNums : h2[s] <= 1
    BY <1>1
  <1>5. w2.highest # 0
    BY SMTT(60), <1>2, <1>3 DEF WindowType
  <1>6. ASSUME NEW s \in SeqNums
        PROVE  /\ h2[s] > 0 => s # 0 /\ s <= w2.highest
               /\ s # 0 /\ s <= w2.highest /\ w2.highest - s < Window =>
                    (w2.highest - s \in w2.seen <=> h2[s] > 0)
    <2>1. h2[s] = IF s = seq THEN 1 ELSE h[s]
      BY SMTT(60), <1>1
    <2>2. h2[s] > 0 => s # 0 /\ s <= w2.highest
      BY SMTT(60), <2>1, <1>2, <1>3 DEF Exact, WindowType
    <2>3. ASSUME s # 0, s <= w2.highest, w2.highest - s < Window
          PROVE  w2.highest - s \in w2.seen <=> h2[s] > 0
      <3>1. CASE w.highest = 0
        <4>1. w2 = [highest |-> seq, seen |-> {0}]
          BY SMTT(60), <3>1 DEF ReplayUpdate
        <4>2. h[s] = 0
          BY SMTT(60), <3>1 DEF Exact, WindowType
        <4> QED
          BY SMTT(60), <4>1, <4>2, <2>1, <2>3, <1>2
      <3>2. CASE w.highest # 0
        <4>1. (w2.highest - s \in w2.seen)
                <=> (s = seq \/ (s <= w.highest /\ w.highest - s \in w.seen))
          BY ZenonT(60), <3>2, <2>3, <1>2, UpdateBits
        <4>2. ASSUME s <= w.highest, s # seq
              PROVE  w.highest - s \in w.seen <=> h[s] > 0
          BY SMTT(60), <4>2, <2>3, <1>3, <1>2 DEF Exact, WindowType
        <4>3. ~(s <= w.highest) => h[s] = 0
          BY SMTT(60) DEF Exact, WindowType
        <4> QED
          BY SMTT(60), <4>1, <4>2, <4>3, <2>1
      <3> QED
        BY SMTT(60), <3>1, <3>2
    <2> QED
      BY SMTT(60), <2>2, <2>3
  <1>7. Exact(w2, h2)
    BY SMTT(60), <1>5, <1>6 DEF Exact
  <1> QED
    BY SMTT(60), <1>3, <1>4, <1>7

\* The empty window is exact for numbers none of which was handled.
LEMMA EmptyIsExact ==
  ASSUME NEW h, h = [s \in SeqNums |-> 0]
  PROVE  /\ ReplayReset \in WindowType
         /\ h \in [SeqNums -> Nat]
         /\ \A s \in SeqNums : h[s] <= 1
         /\ Exact(ReplayReset, h)
  BY SeqNumsAssumption DEF Exact, ReplayReset, WindowType, Bits

\* The inductive invariant holds initially ...
LEMMA InitIInv == Init => IInv
  BY Zenon, EmptyIsExact DEF Init, IInv, TypeOK, AtMostOnce

\* ... and accepting a number or starting over preserves it.
LEMMA NextIInv == IInv /\ [Next]_vars => IInv'
  <1> SUFFICES ASSUME IInv, [Next]_vars PROVE IInv'
    BY Zenon
  <1>1. ASSUME NEW seq \in SeqNums, Accept(seq) PROVE IInv'
    <2>1. /\ window \in WindowType /\ handled \in [SeqNums -> Nat]
          /\ \A s \in SeqNums : handled[s] <= 1
          /\ Exact(window, handled)
      BY Zenon DEF IInv, TypeOK, AtMostOnce
    <2>2. /\ ReplayAccepts(window, seq)
          /\ window' = ReplayUpdate(window, seq)
          /\ handled' = [handled EXCEPT ![seq] = @ + 1]
      BY Zenon, <1>1 DEF Accept
    <2>3. /\ window' \in WindowType /\ handled' \in [SeqNums -> Nat]
          /\ \A s \in SeqNums : handled'[s] <= 1
          /\ Exact(window', handled')
      BY Zenon, <2>1, <2>2, ExactKept
    <2> QED
      BY Zenon, <2>3 DEF IInv, TypeOK, AtMostOnce, Exact
  <1>2. CASE Reset
    <2>1. window' = ReplayReset /\ handled' = [s \in SeqNums |-> 0]
      BY Zenon, <1>2 DEF Reset
    <2>2. /\ window' \in WindowType /\ handled' \in [SeqNums -> Nat]
          /\ \A s \in SeqNums : handled'[s] <= 1
          /\ Exact(window', handled')
      BY Zenon, <2>1, EmptyIsExact
    <2> QED
      BY Zenon, <2>2 DEF IInv, TypeOK, AtMostOnce, Exact
  <1>3. CASE UNCHANGED vars
    BY Zenon, <1>3 DEF vars, IInv, TypeOK, AtMostOnce, Exact
  <1> QED
    BY Zenon, <1>1, <1>2, <1>3 DEF Next

\* The window is exact in every reachable state: proto_replay_accept never
\* loses a mark that matters and never sets one for a number not accepted.
THEOREM WindowInvariant == Spec => []IInv
  BY InitIInv, NextIInv, PTL DEF Spec

\* No sequence number is handled twice between two resets, for every width of
\* the window and every set of numbers.
THEOREM HandledAtMostOnce == Spec => []AtMostOnce
  <1>1. IInv => AtMostOnce
    BY SMTT(60) DEF IInv
  <1> QED
    BY <1>1, WindowInvariant, PTL

\* A number that was not handled and is inside the window is accepted, however
\* late it arrives.
THEOREM LateNumbersAccepted == Spec => []LateIsAccepted
  <1>1. IInv => LateIsAccepted
    BY SMTT(60), SeqNumsAssumption, WindowAssumption
       DEF IInv, TypeOK, Exact, LateIsAccepted, ReplayAccepts, WindowType
  <1> QED
    BY <1>1, WindowInvariant, PTL
-----------------------------------------------------------------------------
(* The word of proto_replay_window_t, for every width: the integer         *)
(* operations of proto_replay_accept do to the bits what ReplayChannel     *)
(* does to a set of numbers.  Bits are read by halving, so the lemmas are  *)
(* proved by induction over the number of places shifted.                  *)

\* `x >> c'
Right(x, c) == x \div Pow2[c]

\* Shifting right by one more bit is halving.
LEMMA RightHalves ==
  ASSUME NEW x \in Nat
  PROVE  /\ Right(x, 0) = x
         /\ \A c \in Nat : Right(x, c) \in Nat
         /\ \A c \in Nat : Right(x, c + 1) = Right(x, c) \div 2
  <1>1. Right(x, 0) = x
    BY PowersOfTwo, SMT DEF Right
  <1>2. ASSUME NEW c \in Nat
        PROVE  Right(x, c) \in Nat /\ Right(x, c + 1) = Right(x, c) \div 2
    <2>1. PICK p \in Nat \ {0} : p = Pow2[c] /\ Pow2[c + 1] = 2 * p
      BY PowersOfTwo, Zenon
    <2> DEFINE q == x \div p
               r == x % p
               h == q \div 2
               b == q % 2
    <2>2. q \in Nat /\ r \in Nat /\ r < p /\ x = q * p + r
      BY SMTT(60)
    <2> HIDE DEF q, r
    <2>3. h \in Nat /\ b \in {0, 1} /\ q = 2 * h + b
      BY <2>2, SMTT(60)
    <2> HIDE DEF h, b
    <2>4. x = h * (2 * p) + (b * p + r)
      BY <2>2, <2>3, SMTT(60)
    <2>5. b * p + r \in Nat /\ b * p + r < 2 * p
      BY <2>2, <2>3, SMTT(60)
    <2>6. x \div (2 * p) = h
      BY SMTT(60), <2>3, <2>4, <2>5, DivUnique
    <2> QED
      BY <2>1, <2>2, <2>6, Zenon DEF h, q, Right
  <1> QED
    BY <1>1, <1>2, Zenon

\* What `|' with a bit not yet set does to every right shift of the word.
LEMMA SetBitRight ==
  ASSUME NEW word \in Nat, NEW b \in Nat, ~BitSet(word, b)
  PROVE  /\ word + Pow2[b] \in Nat
         /\ \A c \in Nat :
              Right(word + Pow2[b], c) =
                IF c <= b THEN Right(word, c) + Pow2[b - c] ELSE Right(word, c)
  <1>1. PICK sum \in Nat : sum = word + Pow2[b]
    BY PowersOfTwo, SMT
  <1> DEFINE S == {c \in Nat : Right(sum, c) =
                     IF c <= b THEN Right(word, c) + Pow2[b - c]
                               ELSE Right(word, c)}
  <1>2. 0 \in S
    <2>1. Right(sum, 0) = sum /\ Right(word, 0) = word
      BY RightHalves, Zenon
    <2>2. 0 <= b /\ b - 0 = b
      BY SMTT(60)
    <2> QED
      BY <2>1, <2>2, <1>1, Zenon
  <1>3. ASSUME NEW c \in Nat, c \in S PROVE c + 1 \in S
    <2>1. PICK w \in Nat : w = Right(word, c) /\ Right(word, c + 1) = w \div 2
      <3>1. Right(word, c) \in Nat /\ Right(word, c + 1) = Right(word, c) \div 2
        BY RightHalves, Zenon
      <3> QED
        BY <3>1, Zenon
    <2>2. PICK v \in Nat : v = Right(sum, c) /\ Right(sum, c + 1) = v \div 2
      <3>1. Right(sum, c) \in Nat /\ Right(sum, c + 1) = Right(sum, c) \div 2
        BY RightHalves, Zenon
      <3> QED
        BY <3>1, Zenon
    <2>3. v = IF c <= b THEN w + Pow2[b - c] ELSE w
      BY <1>3, <2>1, <2>2, Zenon
    <2>. c + 1 \in Nat
      BY SMT
    <2>4. CASE c < b
      <3>1. b - (c + 1) \in Nat /\ (b - (c + 1)) + 1 = b - c
        BY <2>4, SMTT(60)
      <3>2. PICK p \in Nat : p = Pow2[b - (c + 1)] /\ Pow2[b - c] = 2 * p
        BY <3>1, PowersOfTwo, ZenonT(60)
      <3>3. v = w + 2 * p
        BY <2>3, <2>4, <3>2, SMTT(60)
      <3>4. v \div 2 = (w \div 2) + p
        BY <3>3, SMTT(60)
      <3>5. c + 1 <= b
        BY <2>4, SMTT(60)
      <3> QED
        BY <3>2, <3>4, <3>5, <2>1, <2>2, ZenonT(60)
    <2>5. CASE c = b
      <3>1. w % 2 # 1
        BY <2>5, <2>1, Zenon DEF BitSet, Right
      <3>2. v = w + 1
        BY <2>3, <2>5, PowersOfTwo, SMTT(60)
      <3>3. v \div 2 = w \div 2 /\ ~(c + 1 <= b)
        BY <3>1, <3>2, <2>5, SMTT(60)
      <3> QED
        BY <3>3, <2>1, <2>2, Zenon
    <2>6. CASE c > b
      <3>1. v = w /\ ~(c + 1 <= b)
        BY <2>3, <2>6, SMTT(60)
      <3> QED
        BY <3>1, <2>1, <2>2, ZenonT(60)
    <2> QED
      BY <2>4, <2>5, <2>6, SMTT(60)
  <1>4. \A c \in Nat : c \in S
    <2> HIDE DEF S
    <2> QED
      BY <1>2, <1>3, SetInduction, Zenon
  <1> QED
    BY <1>1, <1>4, Zenon

\* `word | (1 << b)' sets bit b and no other.
LEMMA SetBitBits ==
  ASSUME NEW word \in Nat, NEW b \in Nat
  PROVE  /\ SetBit(word, b) \in Nat
         /\ \A c \in Nat : BitSet(SetBit(word, b), c) <=> c = b \/ BitSet(word, c)
  <1>1. CASE BitSet(word, b)
    BY <1>1, Zenon DEF SetBit
  <1>2. CASE ~BitSet(word, b)
    <2>1. SetBit(word, b) = word + Pow2[b]
      BY <1>2, Zenon DEF SetBit
    <2>2. ASSUME NEW c \in Nat
          PROVE  BitSet(word + Pow2[b], c) <=> c = b \/ BitSet(word, c)
      <3>1. PICK w \in Nat : w = Right(word, c)
        BY RightHalves, Zenon
      <3>2. PICK v \in Nat : v = Right(word + Pow2[b], c)
        <4>1. word + Pow2[b] \in Nat
          BY SetBitRight, <1>2, Zenon
        <4> QED
          BY <4>1, RightHalves, Zenon
      <3>3. v = IF c <= b THEN w + Pow2[b - c] ELSE w
        <4>1. Right(word + Pow2[b], c) =
                IF c <= b THEN Right(word, c) + Pow2[b - c] ELSE Right(word, c)
          BY SetBitRight, <1>2, SMTT(60)
        <4> QED
          BY <4>1, <3>1, <3>2, ZenonT(60)
      <3>4. (BitSet(word, c) <=> w % 2 = 1)
            /\ (BitSet(word + Pow2[b], c) <=> v % 2 = 1)
        BY <3>1, <3>2, Zenon DEF BitSet, Right
      <3>5. CASE c < b
        <4>1. b - (c + 1) \in Nat /\ (b - (c + 1)) + 1 = b - c
          BY <3>5, SMTT(60)
        <4>2. PICK p \in Nat : Pow2[b - c] = 2 * p
          BY <4>1, PowersOfTwo, ZenonT(60)
        <4>3. v = w + 2 * p
          BY <3>3, <3>5, <4>2, SMTT(60)
        <4>4. v % 2 = w % 2 /\ c # b
          BY <4>3, <3>5, SMTT(60)
        <4> QED
          BY <4>4, <3>4, Zenon
      <3>6. CASE c = b
        <4>1. v = w + 1
          BY <3>3, <3>6, PowersOfTwo, SMTT(60)
        <4>2. w % 2 # 1
          BY <3>4, <3>6, <1>2, Zenon
        <4>3. v % 2 = 1
          BY <4>1, <4>2, SMTT(60)
        <4> QED
          BY <4>3, <3>4, <3>6, ZenonT(60)
      <3>7. CASE c > b
        <4>1. v = w /\ c # b
          BY <3>3, <3>7, SMTT(60)
        <4> QED
          BY <4>1, <3>4, Zenon
      <3> QED
        BY <3>5, <3>6, <3>7, SMTT(60)
    <2> QED
      BY <2>1, <2>2, SetBitRight, <1>2, Zenon
  <1> QED
    BY <1>1, <1>2, Zenon

\* What `<<' does to every right shift of the word.
LEMMA ShiftedRight ==
  ASSUME NEW word \in Nat, NEW n \in Nat
  PROVE  /\ word * Pow2[n] \in Nat
         /\ \A c \in Nat : c <= n =>
              Right(word * Pow2[n], c) = word * Pow2[n - c]
         /\ \A d \in Nat : Right(word * Pow2[n], n + d) = Right(word, d)
  <1>1. PICK prod \in Nat : prod = word * Pow2[n]
    BY PowersOfTwo, SMTT(60)
  <1> DEFINE S == {c \in Nat : c <= n => Right(prod, c) = word * Pow2[n - c]}
             T == {d \in Nat : Right(prod, n + d) = Right(word, d)}
  <1>2. 0 \in S
    <2>1. n - 0 = n
      BY SMT
    <2>2. Right(prod, 0) = prod
      BY RightHalves, Zenon
    <2> QED
      BY <2>1, <2>2, <1>1, ZenonT(60)
  <1>3. ASSUME NEW c \in Nat, c \in S PROVE c + 1 \in S
    <2> SUFFICES ASSUME c + 1 <= n
                 PROVE  Right(prod, c + 1) = word * Pow2[n - (c + 1)]
      <3>1. c + 1 \in Nat
        BY SMTT(60)
      <3> QED
        BY <3>1, Zenon
    <2>1. c <= n /\ n - (c + 1) \in Nat /\ (n - (c + 1)) + 1 = n - c
      BY SMT
    <2>2. PICK p \in Nat : p = Pow2[n - (c + 1)] /\ Pow2[n - c] = 2 * p
      BY <2>1, PowersOfTwo, Zenon
    <2>3. Right(prod, c) = word * (2 * p)
      BY <1>3, <2>1, <2>2, ZenonT(60)
    <2>4. PICK m \in Nat : m = word * p
      BY SMTT(60)
    <2>5. word * (2 * p) = 2 * m
      BY <2>4, SMTT(60)
    <2>6. Right(prod, c + 1) = (2 * m) \div 2
      <3>1. Right(prod, c + 1) = Right(prod, c) \div 2
        BY RightHalves, Zenon
      <3> QED
        BY <3>1, <2>3, <2>5, Zenon
    <2>7. (2 * m) \div 2 = m
      BY SMT
    <2> QED
      BY <2>2, <2>4, <2>6, <2>7, ZenonT(60)
  <1>4. \A c \in Nat : c \in S
    <2> HIDE DEF S
    <2> QED
      BY <1>2, <1>3, SetInduction, Zenon
  <1>5. 0 \in T
    <2>1. n + 0 = n /\ n - n = 0 /\ n <= n
      BY SMT
    <2>2. Right(prod, n) = word * Pow2[0]
      BY <1>4, <2>1, Zenon
    <2>3. word * Pow2[0] = word
      BY PowersOfTwo, SMTT(60)
    <2>4. Right(word, 0) = word
      BY RightHalves, Zenon
    <2> QED
      BY <2>1, <2>2, <2>3, <2>4, ZenonT(60)
  <1>6. ASSUME NEW d \in Nat, d \in T PROVE d + 1 \in T
    <2>1. n + d \in Nat /\ n + (d + 1) = (n + d) + 1 /\ d + 1 \in Nat
      BY SMT
    <2>2. Right(prod, (n + d) + 1) = Right(prod, n + d) \div 2
      BY <2>1, RightHalves, Zenon
    <2>3. Right(word, d + 1) = Right(word, d) \div 2
      BY RightHalves, ZenonT(60)
    <2> QED
      BY <1>6, <2>1, <2>2, <2>3, ZenonT(60)
  <1>7. \A d \in Nat : d \in T
    <2> HIDE DEF T
    <2> QED
      BY <1>5, <1>6, SetInduction, Zenon
  <1> QED
    BY <1>1, <1>4, <1>7, ZenonT(60)

\* Bits of the shifted word: the low n are clear, bit n + d is bit d before.
LEMMA ShiftedBits ==
  ASSUME NEW word \in Nat, NEW n \in Nat
  PROVE  /\ \A c \in Nat : c < n => ~BitSet(word * Pow2[n], c)
         /\ \A d \in Nat : BitSet(word * Pow2[n], n + d) <=> BitSet(word, d)
  <1>1. ASSUME NEW c \in Nat, c < n PROVE ~BitSet(word * Pow2[n], c)
    <2>1. c <= n /\ n - (c + 1) \in Nat /\ (n - (c + 1)) + 1 = n - c
      BY <1>1, SMT
    <2>2. PICK p \in Nat : Pow2[n - c] = 2 * p
      BY <2>1, PowersOfTwo, Zenon
    <2>3. Right(word * Pow2[n], c) = word * (2 * p)
      <3>1. \A e \in Nat : e <= n =>
              Right(word * Pow2[n], e) = word * Pow2[n - e]
        BY ShiftedRight, ZenonT(60)
      <3>2. Right(word * Pow2[n], c) = word * Pow2[n - c]
        BY <3>1, <2>1, Zenon
      <3> QED
        BY <3>2, <2>2, Zenon
    <2>4. PICK m \in Nat : m = word * p
      BY SMT
    <2>5. word * (2 * p) = 2 * m
      BY <2>4, SMTT(60)
    <2>6. (2 * m) % 2 # 1
      BY SMT
    <2> QED
      BY <2>3, <2>5, <2>6, Zenon DEF BitSet, Right
  <1>2. ASSUME NEW d \in Nat
        PROVE  BitSet(word * Pow2[n], n + d) <=> BitSet(word, d)
    BY ShiftedRight, ZenonT(60) DEF BitSet, Right
  <1> QED
    BY <1>1, <1>2, Zenon

\* What cutting a number to the width of the word does to its right shifts.
LEMMA CutRight ==
  ASSUME NEW x \in Nat, NEW n \in Nat
  PROVE  /\ x % Pow2[n] \in Nat
         /\ x % Pow2[n] < Pow2[n]
         /\ \A c \in Nat : c <= n =>
              Right(x % Pow2[n], c) = Right(x, c) % Pow2[n - c]
  <1>1. PICK cut \in Nat : cut = x % Pow2[n] /\ cut < Pow2[n]
    <2>1. Pow2[n] \in Nat \ {0}
      BY PowersOfTwo, Zenon
    <2> QED
      BY <2>1, DivMod, Zenon
  <1> DEFINE S == {c \in Nat : c <= n =>
                     Right(cut, c) = Right(x, c) % Pow2[n - c]}
  <1>2. 0 \in S
    <2>1. n - 0 = n
      BY SMT
    <2>2. Right(cut, 0) = cut /\ Right(x, 0) = x
      BY RightHalves, Zenon
    <2> QED
      BY <2>1, <2>2, <1>1, Zenon
  <1>3. ASSUME NEW c \in Nat, c \in S PROVE c + 1 \in S
    <2> SUFFICES ASSUME c + 1 <= n
                 PROVE  Right(cut, c + 1) = Right(x, c + 1) % Pow2[n - (c + 1)]
      <3>1. c + 1 \in Nat
        BY SMT
      <3> QED
        BY <3>1, Zenon
    <2>1. c <= n /\ n - (c + 1) \in Nat /\ (n - (c + 1)) + 1 = n - c
      BY SMT
    <2>2. PICK p \in Nat \ {0} : p = Pow2[n - (c + 1)] /\ Pow2[n - c] = 2 * p
      BY <2>1, PowersOfTwo, Zenon
    <2>3. PICK y \in Nat : y = Right(x, c)
      BY RightHalves, Zenon
    <2>4. Right(cut, c) = y % (2 * p)
      BY <1>3, <2>1, <2>2, <2>3, Zenon
    <2>5. Right(cut, c + 1) = (y % (2 * p)) \div 2
      <3>1. Right(cut, c + 1) = Right(cut, c) \div 2
        BY RightHalves, Zenon
      <3> QED
        BY <3>1, <2>4, Zenon
    <2>6. Right(x, c + 1) = y \div 2
      <3>1. Right(x, c + 1) = Right(x, c) \div 2
        BY RightHalves, Zenon
      <3> QED
        BY <3>1, <2>3, Zenon
    <2>7. (y % (2 * p)) \div 2 = (y \div 2) % p
      BY HalfOfRemainder, Zenon
    <2> QED
      BY <2>2, <2>5, <2>6, <2>7, Zenon
  <1>4. \A c \in Nat : c \in S
    <2> HIDE DEF S
    <2> QED
      BY <1>2, <1>3, SetInduction, Zenon
  <1> QED
    BY <1>1, <1>4, Zenon

\* Cutting a number to n bits keeps those bits.
LEMMA CutBits ==
  ASSUME NEW x \in Nat, NEW n \in Nat, NEW c \in Nat, c < n
  PROVE  BitSet(x % Pow2[n], c) <=> BitSet(x, c)
  <1>1. c <= n /\ n - (c + 1) \in Nat /\ (n - (c + 1)) + 1 = n - c
    BY SMT
  <1>2. PICK p \in Nat \ {0} : Pow2[n - c] = 2 * p
    BY <1>1, PowersOfTwo, Zenon
  <1>3. PICK y \in Nat : y = Right(x, c)
    BY RightHalves, Zenon
  <1>4. Right(x % Pow2[n], c) = y % (2 * p)
    <2>1. Right(x % Pow2[n], c) = Right(x, c) % Pow2[n - c]
      BY <1>1, CutRight, SMT
    <2> QED
      BY <2>1, <1>2, <1>3, Zenon
  <1>5. (y % (2 * p)) % 2 = y % 2
    BY HalfOfRemainder, Zenon
  <1> QED
    BY <1>3, <1>4, <1>5, Zenon DEF BitSet, Right

\* Zero has no bits, and one has bit 0 only.
LEMMA SmallWords ==
  /\ \A c \in Nat : ~BitSet(0, c)
  /\ \A c \in Nat : BitSet(1, c) <=> c = 0
  <1>1. ASSUME NEW c \in Nat PROVE ~BitSet(0, c)
    <2>1. Pow2[c] \in Nat \ {0} /\ 0 \in Nat
      BY PowersOfTwo, Zenon
    <2>2. 0 = 0 * Pow2[c] + 0 /\ 0 < Pow2[c]
      BY <2>1, SMT
    <2>3. 0 \div Pow2[c] = 0
      BY <2>1, <2>2, DivUnique, Zenon
    <2>4. 0 % 2 # 1
      BY SMT
    <2> QED
      BY <2>3, <2>4, Zenon DEF BitSet
  <1>2. SetBit(0, 0) = 0 + Pow2[0]
    BY <1>1, Zenon DEF SetBit
  <1>3. SetBit(0, 0) = 1
    BY <1>2, PowersOfTwo, SMT
  <1>4. ASSUME NEW c \in Nat PROVE BitSet(1, c) <=> c = 0
    <2>1. BitSet(SetBit(0, 0), c) <=> c = 0 \/ BitSet(0, c)
      BY SetBitBits, Zenon
    <2> QED
      BY <2>1, <1>1, <1>3, Zenon
  <1> QED
    BY <1>1, <1>4, Zenon

\* A word that fits the width still does after one of its bits is set.
LEMMA SetBitFits ==
  ASSUME NEW word \in 0 .. Pow2[Window] - 1, NEW b \in Bits
  PROVE  SetBit(word, b) \in 0 .. Pow2[Window] - 1
  <1>1. /\ word \in Nat /\ b \in Nat /\ Window \in Nat /\ ~(Window <= b)
        /\ Pow2[Window] \in Nat \ {0} /\ word < Pow2[Window]
    <2>1. Window \in Nat /\ b \in Nat /\ ~(Window <= b)
      BY WindowAssumption, SMT DEF Bits
    <2>2. Pow2[Window] \in Nat \ {0}
      BY <2>1, PowersOfTwo, Zenon
    <2>3. word \in Nat /\ word < Pow2[Window]
      BY <2>2, SMT
    <2> QED
      BY <2>1, <2>2, <2>3, ZenonT(60)
  <1>2. CASE BitSet(word, b)
    BY <1>2, Zenon DEF SetBit
  <1>3. CASE ~BitSet(word, b)
    <2>1. PICK sum \in Nat : sum = word + Pow2[b]
      BY <1>1, <1>3, SetBitRight, ZenonT(60)
    <2>2. Right(sum, Window) = Right(word, Window)
      BY <1>1, <1>3, <2>1, SetBitRight, SMTT(60)
    <2>3. word \div Pow2[Window] = 0
      <3>1. word = 0 * Pow2[Window] + word /\ 0 \in Nat
        BY <1>1, SMT
      <3> QED
        BY <3>1, <1>1, DivUnique, ZenonT(60)
    <2>4. PICK q \in Nat, r \in Nat : /\ q = sum \div Pow2[Window]
                                      /\ r < Pow2[Window]
                                      /\ sum = q * Pow2[Window] + r
      <3>1. PICK d \in Nat \ {0} : d = Pow2[Window]
        BY <1>1, Zenon
      <3>2. PICK q \in Nat, r \in Nat : /\ q = sum \div d
                                        /\ r < d
                                        /\ sum = q * d + r
        BY DivMod, ZenonT(60)
      <3> QED
        BY <3>1, <3>2, Zenon
    <2>5. q = 0
      BY <2>2, <2>3, <2>4, Zenon DEF Right
    <2>6. sum < Pow2[Window]
      <3>1. 0 * Pow2[Window] + r = r
        BY <1>1, SMT
      <3> QED
        BY <3>1, <2>4, <2>5, Zenon
    <2>7. sum \in 0 .. Pow2[Window] - 1
      BY <2>6, <1>1, SMTT(60)
    <2> QED
      BY <2>1, <2>7, <1>3, Zenon DEF SetBit
  <1> QED
    BY <1>2, <1>3, Zenon

\* `seen << n' on the word is what moving every mark by n is on the set.
LEMMA ShiftBits ==
  ASSUME NEW word \in 0 .. Pow2[Window] - 1, NEW n \in Nat \ {0}
  PROVE  /\ Shift(word, n) \in 0 .. Pow2[Window] - 1
         /\ \A b \in Bits : BitSet(Shift(word, n), b) <=> b - n \in Ones(word)
  <1>1. /\ word \in Nat /\ Window \in Nat
        /\ Pow2[Window] \in Nat \ {0}
    <2>1. Window \in Nat
      BY WindowAssumption, SMTT(60)
    <2>2. Pow2[Window] \in Nat \ {0}
      BY <2>1, PowersOfTwo, Zenon
    <2>3. word \in Nat
      BY <2>2, SMT
    <2> QED
      BY <2>1, <2>2, <2>3, Zenon
  <1>2. CASE n >= Window
    <2>1. Shift(word, n) = 0
      BY <1>2, Zenon DEF Shift
    <2>2. 0 \in 0 .. Pow2[Window] - 1
      BY <1>1, SMTT(60)
    <2>3. ASSUME NEW b \in Bits PROVE b \in Nat /\ b - n \notin Bits
      BY <1>1, <1>2, SMTT(60) DEF Bits
    <2> QED
      BY <2>1, <2>2, <2>3, SmallWords, Zenon DEF Ones
  <1>3. CASE ~(n >= Window)
    <2>1. Shift(word, n) = (word * Pow2[n]) % Pow2[Window]
      BY <1>3, Zenon DEF Shift
    <2>2. PICK y \in Nat : y = word * Pow2[n]
      BY <1>1, ShiftedRight, Zenon
    <2>3. y % Pow2[Window] \in Nat /\ y % Pow2[Window] < Pow2[Window]
      BY <1>1, CutRight, ZenonT(60)
    <2>4. y % Pow2[Window] \in 0 .. Pow2[Window] - 1
      BY <2>3, <1>1, SMTT(60)
    <2>5. ASSUME NEW b \in Bits
          PROVE  BitSet(y % Pow2[Window], b) <=> b - n \in Ones(word)
      <3>1. b \in Nat /\ b < Window
        BY <1>1, SMT DEF Bits
      <3>2. BitSet(y % Pow2[Window], b) <=> BitSet(y, b)
        BY <1>1, <3>1, CutBits, Zenon
      <3>3. CASE b < n
        <4>1. ~BitSet(y, b)
          BY <3>1, <3>3, <2>2, <1>1, ShiftedBits, ZenonT(60)
        <4>2. b - n \notin Bits
          BY <3>1, <3>3, SMTT(60) DEF Bits
        <4> QED
          BY <4>1, <4>2, <3>2, Zenon DEF Ones
      <3>4. CASE ~(b < n)
        <4>1. b - n \in Nat /\ b = n + (b - n) /\ b - n \in Bits
          BY <1>1, <3>1, <3>4, SMTT(60) DEF Bits
        <4>2. BitSet(word * Pow2[n], n + (b - n)) <=> BitSet(word, b - n)
          BY <4>1, <1>1, ShiftedBits, Zenon
        <4> QED
          BY <4>1, <4>2, <3>2, <2>2, ZenonT(60) DEF Ones
      <3> QED
        BY <3>3, <3>4, Zenon
    <2> QED
      BY <2>1, <2>2, <2>4, <2>5, Zenon
  <1> QED
    BY <1>2, <1>3, Zenon

\* proto_replay_accept on the word does to the marks what ReplayUpdate says.
LEMMA WordStep ==
  ASSUME WordTypeOK, NEW seq \in SeqNums,
         AcceptFirst(seq) \/ AcceptNewer(seq) \/ AcceptLate(seq)
  PROVE  /\ WordTypeOK'
         /\ ReplayAccepts(Abstract, seq)
         /\ Abstract' = ReplayUpdate(Abstract, seq)
         /\ Count(seq)
  <1>1. /\ seq \in Nat /\ highest \in Nat /\ Window \in Nat \ {0} /\ 0 \in Bits
        /\ seen \in 0 .. Pow2[Window] - 1 /\ seen \in Nat
        /\ Pow2[Window] \in Nat \ {0}
    <2>1. seq \in Nat /\ highest \in Nat /\ Window \in Nat \ {0} /\ 0 \in Bits
      BY SeqNumsAssumption, WindowAssumption, SMTT(60) DEF WordTypeOK, Bits
    <2>2. Pow2[Window] \in Nat \ {0}
      BY <2>1, PowersOfTwo, Zenon
    <2>3. seen \in 0 .. Pow2[Window] - 1
      BY Zenon DEF WordTypeOK
    <2>4. seen \in Nat
      BY <2>2, <2>3, SMTT(60)
    <2> QED
      BY <2>1, <2>2, <2>3, <2>4, ZenonT(60)
  <1>2. Count(seq) /\ counted' \in [SeqNums -> Nat]
    <2>1. Count(seq)
      BY Zenon DEF AcceptFirst, AcceptNewer, AcceptLate
    <2>2. counted \in [SeqNums -> Nat]
      BY Zenon DEF WordTypeOK
    <2> QED
      BY <2>1, <2>2, SMTT(60) DEF Count
  <1>3. Abstract.highest = highest /\ Abstract.seen = Ones(seen)
    BY Zenon DEF Abstract
  <1>4. Abstract' = [highest |-> highest', seen |-> Ones(seen')]
    BY Zenon DEF Abstract, Ones, BitSet
  <1>5. \A b \in Bits : b \in Nat
    BY <1>1, SMT DEF Bits
  <1>6. CASE AcceptFirst(seq)
    <2>1. /\ seq # 0 /\ highest = 0 /\ highest' = seq /\ seen' = 1
      BY <1>6, Zenon DEF AcceptFirst
    <2>2. Ones(1) = {0}
      BY <1>1, <1>5, SmallWords, ZenonT(60) DEF Ones
    <2>3. 1 \in 0 .. Pow2[Window] - 1
      <3>1. Window - 1 \in Nat /\ (Window - 1) + 1 = Window
        BY <1>1, SMT
      <3>2. PICK p \in Nat \ {0} : Pow2[Window] = 2 * p
        BY <3>1, PowersOfTwo, Zenon
      <3> QED
        BY <3>2, SMTT(60)
    <2>4. WordTypeOK'
      BY <2>1, <2>3, <1>2, Zenon DEF WordTypeOK
    <2>5. ReplayAccepts(Abstract, seq)
      BY <2>1, <1>3, Zenon DEF ReplayAccepts
    <2>6. ReplayUpdate(Abstract, seq) = [highest |-> seq, seen |-> {0}]
      BY <2>1, <1>3, Zenon DEF ReplayUpdate
    <2> QED
      BY <2>1, <2>2, <2>4, <2>5, <2>6, <1>2, <1>4, ZenonT(60)
  <1>7. CASE AcceptNewer(seq)
    <2>1. /\ highest # 0 /\ seq > highest /\ highest' = seq
          /\ seen' = SetBit(Shift(seen, seq - highest), 0)
      BY <1>7, ZenonT(60) DEF AcceptNewer
    <2>2. PICK n \in Nat \ {0} : n = seq - highest
      BY <2>1, <1>1, SMTT(60)
    <2>3. PICK u \in 0 .. Pow2[Window] - 1 : u = Shift(seen, n)
      BY <1>1, ShiftBits, ZenonT(60)
    <2>4. u \in Nat
      BY <1>1, SMTT(60)
    <2>5. \A b \in Bits : BitSet(u, b) <=> b - n \in Ones(seen)
      BY <1>1, <2>3, ShiftBits, Zenon
    <2>6. \A b \in Bits : BitSet(SetBit(u, 0), b) <=> b = 0 \/ BitSet(u, b)
      BY <2>4, <1>5, SetBitBits, Zenon
    <2>7. Ones(SetBit(u, 0)) = ShiftIn(Ones(seen), n)
      <3>1. \A b \in Bits : b \in Ones(SetBit(u, 0)) <=>
              b \in ShiftIn(Ones(seen), n)
        BY <2>5, <2>6, Zenon DEF Ones, ShiftIn
      <3>2. Ones(SetBit(u, 0)) \subseteq Bits
        BY Zenon DEF Ones
      <3>3. ShiftIn(Ones(seen), n) \subseteq Bits
        BY <1>1, Zenon DEF ShiftIn
      <3> QED
        BY <3>1, <3>2, <3>3, Zenon
    <2>8. SetBit(u, 0) \in 0 .. Pow2[Window] - 1
      BY <1>1, SetBitFits, Zenon
    <2>9. WordTypeOK'
      BY <2>1, <2>2, <2>3, <2>8, <1>2, ZenonT(60) DEF WordTypeOK
    <2>10. seq # 0
      BY <2>1, <1>1, SMTT(60)
    <2>11. ReplayAccepts(Abstract, seq)
      BY <2>1, <2>10, <1>3, Zenon DEF ReplayAccepts
    <2>12. ReplayUpdate(Abstract, seq) =
             [highest |-> seq, seen |-> ShiftIn(Ones(seen), n)]
      BY <2>1, <2>2, <1>3, Zenon DEF ReplayUpdate
    <2> QED
      BY <2>1, <2>2, <2>3, <2>7, <2>9, <2>11, <2>12, <1>2, <1>4, ZenonT(60)
  <1>8. CASE AcceptLate(seq)
    <2>1. /\ seq # 0 /\ highest # 0 /\ seq <= highest
          /\ highest - seq < Window /\ ~BitSet(seen, highest - seq)
          /\ seen' = SetBit(seen, highest - seq) /\ highest' = highest
      BY <1>8, ZenonT(60) DEF AcceptLate
    <2>2. PICK age \in Bits : age = highest - seq
      BY <2>1, <1>1, SMTT(60) DEF Bits
    <2>3. \A b \in Bits : BitSet(SetBit(seen, age), b) <=>
            b = age \/ BitSet(seen, b)
      BY <1>1, <1>5, SetBitBits, Zenon
    <2>4. Ones(SetBit(seen, age)) = Ones(seen) \cup {age}
      BY <2>3, Zenon DEF Ones
    <2>5. SetBit(seen, age) \in 0 .. Pow2[Window] - 1
      BY <1>1, SetBitFits, Zenon
    <2>6. WordTypeOK'
      BY <2>1, <2>2, <2>5, <1>2, ZenonT(60) DEF WordTypeOK
    <2>7. age \notin Ones(seen)
      BY <2>1, <2>2, Zenon DEF Ones
    <2>8. ReplayAccepts(Abstract, seq)
      BY <2>1, <2>2, <2>7, <1>3, ZenonT(60) DEF ReplayAccepts
    <2>9. ~(seq > highest)
      BY <2>1, <1>1, SMTT(60)
    <2>10. ReplayUpdate(Abstract, seq) =
             [highest |-> highest, seen |-> Ones(seen) \cup {age}]
      BY <2>1, <2>2, <2>9, <1>3, ZenonT(60) DEF ReplayUpdate
    <2> QED
      BY <2>1, <2>2, <2>4, <2>6, <2>8, <2>10, <1>2, <1>4, ZenonT(60)
  <1> QED
    BY <1>6, <1>7, <1>8, Zenon

\* The empty word has no marks.
LEMMA EmptyWord ==
  /\ Ones(0) = {}
  /\ 0 \in 0 .. Pow2[Window] - 1
  <1>1. Window \in Nat /\ \A b \in Bits : b \in Nat
    BY WindowAssumption, SMT DEF Bits
  <1>2. Pow2[Window] \in Nat \ {0}
    BY <1>1, PowersOfTwo, Zenon
  <1>3. 0 \in 0 .. Pow2[Window] - 1
    BY <1>2, SMTT(60)
  <1> QED
    BY <1>1, <1>3, SmallWords, Zenon DEF Ones

\* What the word stands for is a window.
LEMMA AbstractType == WordTypeOK => Abstract \in WindowType
  <1> SUFFICES ASSUME WordTypeOK PROVE Abstract \in WindowType
    BY Zenon
  <1>1. highest \in Nat
    BY SeqNumsAssumption, SMT DEF WordTypeOK
  <1>2. Ones(seen) \in SUBSET Bits
    BY Zenon DEF Ones
  <1> QED
    BY <1>1, <1>2, SMTT(60) DEF Abstract, WindowType

\* The inductive invariant of the word holds initially ...
LEMMA WordInitIInv == WordInit => WordIInv /\ Abstract = ReplayReset
  <1> SUFFICES ASSUME WordInit PROVE WordIInv /\ Abstract = ReplayReset
    BY Zenon
  <1>1. Abstract = ReplayReset
    BY EmptyWord, Zenon DEF WordInit, Abstract, ReplayReset
  <1>2. counted = [s \in SeqNums |-> 0]
    BY Zenon DEF WordInit
  <1>3. WordTypeOK
    BY EmptyWord, <1>2, EmptyIsExact, Zenon DEF WordInit, WordTypeOK
  <1>4. WordAtMostOnce /\ Exact(Abstract, counted)
    BY <1>1, <1>2, EmptyIsExact, Zenon
       DEF WordAtMostOnce, Channel!AtMostOnce
  <1> QED
    BY <1>1, <1>3, <1>4, Zenon DEF WordIInv

\* ... is preserved by every return of proto_replay_accept and by
\* proto_replay_reset, and each of these is a step of the channel.
LEMMA WordNextIInv ==
  ASSUME WordIInv, [WordNext]_wordVars
  PROVE  WordIInv' /\ [Channel!Next]_(Channel!vars)
  <1>1. /\ WordTypeOK /\ Exact(Abstract, counted)
        /\ counted \in [SeqNums -> Nat]
        /\ \A s \in SeqNums : counted[s] <= 1
    BY Zenon DEF WordIInv, WordTypeOK, WordAtMostOnce, Channel!AtMostOnce
  <1>2. Abstract \in WindowType
    BY <1>1, AbstractType, Zenon
  <1>3. ASSUME NEW seq \in SeqNums,
               AcceptFirst(seq) \/ AcceptNewer(seq) \/ AcceptLate(seq)
        PROVE  WordIInv' /\ Channel!Next
    <2>1. /\ WordTypeOK' /\ ReplayAccepts(Abstract, seq)
          /\ Abstract' = ReplayUpdate(Abstract, seq)
          /\ counted' = [counted EXCEPT ![seq] = @ + 1]
      BY <1>1, <1>3, WordStep, Zenon DEF Count
    <2>2. /\ \A s \in SeqNums : counted'[s] <= 1
          /\ Exact(Abstract', counted')
      BY <1>1, <1>2, <2>1, ExactKept, Zenon
    <2>3. WordIInv'
      BY <2>1, <2>2, Zenon
         DEF WordIInv, WordAtMostOnce, Channel!AtMostOnce, Exact
    <2>4. Channel!Accept(seq)
      BY <2>1, Zenon DEF Channel!Accept, Channel!ReplayAccepts,
         Channel!ReplayUpdate, Channel!ShiftIn, Channel!Bits,
         ReplayAccepts, ReplayUpdate, ShiftIn, Bits
    <2> QED
      BY <2>3, <2>4, Zenon DEF Channel!Next
  <1>4. CASE WordReset
    <2>1. highest' = 0 /\ seen' = 0 /\ counted' = [s \in SeqNums |-> 0]
      BY <1>4, Zenon DEF WordReset
    <2>2. Abstract' = [highest |-> highest', seen |-> Ones(seen')]
      BY Zenon DEF Abstract, Ones, BitSet
    <2>3. Abstract' = ReplayReset
      BY <2>1, <2>2, EmptyWord, Zenon DEF ReplayReset
    <2>4. /\ \A s \in SeqNums : counted'[s] <= 1
          /\ counted' \in [SeqNums -> Nat]
          /\ Exact(Abstract', counted')
      BY <2>1, <2>3, EmptyIsExact, Zenon
    <2>5. WordTypeOK'
      BY <2>1, <2>4, EmptyWord, Zenon DEF WordTypeOK
    <2>6. WordIInv'
      BY <2>4, <2>5, Zenon
         DEF WordIInv, WordAtMostOnce, Channel!AtMostOnce, Exact
    <2>7. Channel!Reset
      BY <2>1, <2>3, Zenon DEF Channel!Reset, Channel!ReplayReset, ReplayReset
    <2> QED
      BY <2>6, <2>7, Zenon DEF Channel!Next
  <1>5. CASE UNCHANGED wordVars
    <2>1. highest' = highest /\ seen' = seen /\ counted' = counted
      BY <1>5, Zenon DEF wordVars
    <2>2. Abstract' = Abstract
      BY <2>1, Zenon DEF Abstract, Ones, BitSet
    <2>3. WordIInv'
      BY <2>1, <2>2, <1>1, ZenonT(60)
         DEF WordIInv, WordTypeOK, WordAtMostOnce, Channel!AtMostOnce, Exact
    <2> QED
      BY <2>1, <2>2, <2>3, Zenon DEF Channel!vars
  <1> QED
    BY <1>3, <1>4, <1>5, Zenon DEF WordNext

\* Bit b of the word is set exactly when number highest - b was handled, for
\* every width: no shift loses a mark that matters or sets one for a number
\* not accepted.
THEOREM WordInvariant == WordSpec => []WordIInv
  <1>1. WordInit => WordIInv
    BY WordInitIInv, Zenon
  <1>2. WordIInv /\ [WordNext]_wordVars => WordIInv'
    BY WordNextIInv, Zenon
  <1> QED
    BY <1>1, <1>2, PTL DEF WordSpec

\* The word of proto_replay_window_t implements the set of numbers seen: every
\* step of proto_replay_accept and proto_replay_reset is a step of the channel.
THEOREM WordImplementsChannel == WordSpec => ImplementsChannel
  <1>1. WordInit => Channel!Init
    BY WordInitIInv, Zenon
       DEF Channel!Init, Channel!ReplayReset, ReplayReset, WordInit
  <1>2. WordIInv /\ [WordNext]_wordVars => [Channel!Next]_(Channel!vars)
    BY WordNextIInv, Zenon
  <1>3. WordSpec => Channel!Spec
    BY <1>1, <1>2, WordInvariant, PTL DEF WordSpec, Channel!Spec
  <1> QED
    BY <1>3, Zenon DEF ImplementsChannel

\* However datagrams are duplicated and reordered, the word lets no number be
\* handled twice between two resets.
THEOREM WordHandlesOnce == WordSpec => []WordAtMostOnce
  <1>1. WordIInv => WordAtMostOnce
    BY Zenon DEF WordIInv
  <1> QED
    BY <1>1, WordInvariant, PTL

\* A number that was not handled and is fewer than Window numbers behind the
\* newest passes the tests of proto_replay_accept.
THEOREM WordAcceptsLate == WordSpec => []WordLateIsAccepted
  <1>1. ASSUME WordIInv PROVE WordLateIsAccepted
    <2> SUFFICES ASSUME NEW s \in SeqNums \ {0}, counted[s] = 0,
                        s > highest - Window, highest # 0, ~(s > highest)
                 PROVE  highest - s < Window /\ ~BitSet(seen, highest - s)
      BY Zenon DEF WordLateIsAccepted
    <2>1. s \in Nat /\ highest \in Nat /\ Window \in Nat
      BY <1>1, SeqNumsAssumption, WindowAssumption, SMTT(60)
         DEF WordIInv, WordTypeOK
    <2>2. /\ highest - s < Window /\ highest - s \in Bits /\ s <= highest
          /\ ~(0 > 0)
      BY <2>1, SMT DEF Bits
    <2>3. Abstract.highest = highest /\ Abstract.seen = Ones(seen)
      BY Zenon DEF Abstract
    <2>4. Exact(Abstract, counted)
      BY <1>1, Zenon DEF WordIInv
    <2>5. highest - s \notin Ones(seen)
      BY <2>2, <2>3, <2>4, Zenon DEF Exact
    <2> QED
      BY <2>2, <2>5, Zenon DEF Ones
  <1> QED
    BY <1>1, WordInvariant, PTL
=============================================================================
