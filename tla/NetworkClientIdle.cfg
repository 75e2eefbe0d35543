SPECIFICATION StaleSpec
CONSTANTS
  None = None
  Bare = Bare
  Requests = {r1, r2}
  Hosts = {address}
  LiteralHosts = {address}
  Faults = {"close"}
PROPERTY IdleDeathIsRetried
