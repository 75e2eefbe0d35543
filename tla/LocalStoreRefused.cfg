SPECIFICATION Spec
CONSTANTS
  alice = alice
  bob = bob
  d1 = d1
  d2 = d2
  d3 = d3
  p1 = p1
  p2 = p2
  s1 = s1
  s2 = s2
  i1 = i1
  i2 = i2
  Guest = guest
  None = None
  Torn = Torn
  Logins = {alice, bob}
  Dirs = {d1, d2, d3}
  DirOf <- OwnDirs
  Passwords = {p1, p2}
  Salts = {s1, s2}
  Ids = {i1, i2}
  Faults = {"password"}
SYMMETRY Symmetric
PROPERTY RefusalKeepsFile
