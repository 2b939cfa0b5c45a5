\* Three slots, but only one entry fits a PEER_LIST.
CONSTANTS
  e1 = e1
  e2 = e2
  e3 = e3
  None = None
  Endpoints = {e1, e2, e3}
  Window = 2
  MaxPeers = 3
  IpStart = 2
  IpEnd = 4
  ListCapacity = 1
  KeepaliveInterval = 1
  PeerTimeout = 1
  SendFails = FALSE
  SeqNums = {1, 2}
  MaxClock = 1
  MaxData = 0
SPECIFICATION Spec
SYMMETRY MCSymmetry
INVARIANT Discovery
