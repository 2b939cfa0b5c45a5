\* Two slots and enough time for evictions: an address is handed out again
\* before the PEER_LEAVE of its former holder is sent.
CONSTANTS
  e1 = e1
  e2 = e2
  e3 = e3
  None = None
  Endpoints = {e1, e2, e3}
  Window = 2
  MaxPeers = 2
  IpStart = 2
  IpEnd = 3
  ListCapacity = 2
  KeepaliveInterval = 1
  PeerTimeout = 1
  SendFails = FALSE
  SeqNums = {1, 2}
  MaxClock = 3
  MaxData = 0
SPECIFICATION Spec
SYMMETRY MCSymmetry
INVARIANT Discovery
