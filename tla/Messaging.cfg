SPECIFICATION Spec
CONSTANTS
  alice = alice
  bob = bob
  d1 = d1
  d2 = d2
  Guest = guest
  None = None
  Logins = {alice, bob}
  Devices = {d1, d2}
  MaxSends <- TwoSends
  MaxPolls = 1
  MaxChats = 1
  UsersOf <- Shared
  NewChats <- BothWrite
  Faults = {"fail", "unknown", "restart"}
INVARIANTS IInv InOrder
PROPERTY DeliverySpec
