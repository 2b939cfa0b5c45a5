\* A word of four bits and numbers up to more than twice its width, so that
\* shifts by less than, exactly and more than the width all happen.  Messages
\* with the real sizes, sent up to three times from the same buffer.
\* The load generator has two clients, two rounds of keepalives and three
\* probes, so that a probe of the first pair may be late for the third.
CONSTANTS
  Window = 4
  SeqNums <- MCSeqNums
  Inputs <- MCInputs
  Nothing = Nothing
  MaxSends = 3
  SUBNET = 168361984
  Packets <- MCPackets
  NoPacket = NoPacket
  Times <- MCTimes
  NoRtt = NoRtt
  ForgeClients = 2
  ForgeRounds = 2
  ForgePairs = 3
  ForgeTimeout = 1
SPECIFICATION MCSpec
INVARIANTS WordAtMostOnce WordLateIsAccepted WireFits Ipv4Exact ZeroMeansAll
PROPERTIES ImplementsChannel WireFaithful RttApproaches
