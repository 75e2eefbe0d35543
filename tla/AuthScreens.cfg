SPECIFICATION FairSpec
CONSTANTS
  alice = alice
  bob = bob
  None = None
  Users = {alice, bob}
  MaxCalls = 3
  MaxPanel = 1
INVARIANTS IInv ShellIsSession
PROPERTY ShowsSomething
CHECK_DEADLOCK FALSE
