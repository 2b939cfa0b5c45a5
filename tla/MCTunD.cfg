SPECIFICATION Spec
CONSTANTS
  Clients = {c1, c2}
  Hub = hub
  Vips = {1, 2}
  None = None
  RegisterRetries = 2
  PeerTicks = 3
  ServerTicks = 3
  Lifetime = 1
  Faulty = {c1}
  MaxStarts = 2
  MaxFaults = 1
INVARIANTS AddressAgreement SettledView Reconciled
CHECK_DEADLOCK FALSE
