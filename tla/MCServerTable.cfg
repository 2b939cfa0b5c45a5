\* Two slots, three endpoints: the table fills up, slots are reused, peers
\* time out while datagrams are handled.
CONSTANTS
  e1 = e1
  e2 = e2
  e3 = e3
  None = None
  Endpoints = {e1, e2, e3}
  Window = 2
  MaxPeers = 2
  IpStart = 2
  IpEnd = 3
  ListCapacity = 2
  KeepaliveInterval = 1
  PeerTimeout = 1
  SendFails = FALSE
  SeqNums = {1, 2}
  MaxClock = 2
  MaxData = 0
SPECIFICATION Spec
SYMMETRY MCSymmetry
INVARIANTS TypeOK TableConsistent DispatchedIsRecorded
INVARIANTS MainSnapshotsCurrent
PROPERTY NoEarlyEviction
