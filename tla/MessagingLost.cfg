SPECIFICATION Spec
CONSTANTS
  alice = alice
  bob = bob
  d1 = d1
  d2 = d2
  Guest = guest
  None = None
  Logins = {alice, bob}
  Devices = {d1, d2}
  MaxSends <- OneSend
  MaxPolls = 1
  MaxChats = 2
  UsersOf <- Own
  NewChats <- AliceWrites
  Faults = {"unknown"}
INVARIANT PulledIsMerged
