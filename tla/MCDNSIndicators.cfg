CONSTANTS
  Events <- MCEvents
  Addrs <- MCAddrs
  Nil = Nil
SPECIFICATION Spec
INVARIANTS
  ResolvedAddressesFound
  DomainsAreNames
CHECK_DEADLOCK FALSE
