SPECIFICATION PollingFairSpec
CONSTANTS
  alice = alice
  bob = bob
  d1 = d1
  d2 = d2
  Guest = guest
  None = None
  Logins = {alice, bob}
  Devices = {d1, d2}
  MaxSends <- AliceSends
  MaxPolls = 1
  MaxChats = 1
  UsersOf <- Own
  NewChats <- AliceWrites
  Faults = {"fail", "garbage", "refuse", "restart"}
PROPERTIES QueueDrains HandedOutArrives
