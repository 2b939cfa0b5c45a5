\* Data packets are sent, one per endpoint, while peers leave and slots are
\* reused; a send may fail.
CONSTANTS
  e1 = e1
  e2 = e2
  e3 = e3
  None = None
  Endpoints = {e1, e2, e3}
  Window = 2
  MaxPeers = 2
  IpStart = 2
  IpEnd = 3
  ListCapacity = 2
  KeepaliveInterval = 1
  PeerTimeout = 1
  SendFails = TRUE
  SeqNums = {1, 2}
  MaxClock = 0
  MaxData = 1
SPECIFICATION Spec
SYMMETRY MCSymmetry
INVARIANT AccountedOnce
