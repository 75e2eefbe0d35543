SPECIFICATION FairSpec
CONSTANTS
  standard = standard
  pro = pro
  local = local
  other = other
  None = None
  Broken = Broken
  IllTyped = IllTyped
  Modes = {standard, pro}
  Standard = standard
  Servers = {local, other}
  DefaultServer = local
  Faults <- AllFaults
  WindowFaults <- AllWindowFaults
INVARIANTS IInv DefaultsNeverSaved
PROPERTIES SwitchIsKept HostIsStable ExitEnds IndicatorFollows
