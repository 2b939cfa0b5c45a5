\* The whole state space of a server and of a client.  The process really
\* ends, so deadlock is not an error.  Device: addresses of four bits, with the
\* first host, which is the server, and another one.
\* Events: a ring of three slots that two threads fill, messages below and
\* above the width of a slot, one level that is shown.
CONSTANTS
  TunAddrs = {9, 10}
  TunMasks = {8, 12}
  TunWidth = 4
  TunTries = 3
  MaxEvents = 3
  MessageLen = 8
  Loggers = {t1, t2}
  Levels = {0, 1}
  LogLevel = 1
  Lengths = {5, 6, 8}
  Messages <- MCMessages
SPECIFICATION MCSpec
INVARIANTS InUseIsOpen JoinedOnce NothingLeft HandlesBalanced
  ConfiguredWhenUp GivesUpForCause
PROPERTIES StopEndsProcess ImplementsRecent
CHECK_DEADLOCK FALSE
