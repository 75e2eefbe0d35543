SPECIFICATION FairSpec
CONSTANTS
  r1 = r1
  r2 = r2
  r3 = r3
  address = address
  name = name
  None = None
  Bare = Bare
  Requests = {r1, r2, r3}
  Hosts = {address, name}
  LiteralHosts = {address}
  Faults <- AllFaults
INVARIANTS IInv AtMostOnce FailedNeverRuns NoStaleAnswer NoSocketLost
PROPERTIES RpcSpec EndsUnlessGone
