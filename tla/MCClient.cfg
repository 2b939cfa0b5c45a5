\* As many slots as peers, lists of up to two entries, one packet per destination,
\* and time for the server to be silent for too long.  Liveness is checked, so
\* there is no symmetry.
CONSTANTS
  v1 = v1
  v2 = v2
  b = b
  None = None
  Vips = {v1, v2}
  BroadcastIp = b
  MaxPeers = 2
  Window = 2
  RegisterRetries = 2
  KeepaliveInterval = 1
  ServerTimeout = 1
  TimeRange = 8
  SeqNums = {1, 2, 3}
  ListLength = 2
  MaxData = 1
SPECIFICATION FairSpec
INVARIANTS ViewExact CreditedOnce
PROPERTIES StopsOnlyOnSilence NoticesSilence
\* A client that failed to register, or has stopped, takes no further step.
CHECK_DEADLOCK FALSE
