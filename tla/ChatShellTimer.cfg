SPECIFICATION Spec
CONSTANTS
  c1 = c1
  c2 = c2
  m1 = m1
  k1 = k1
  k2 = k2
  None = None
  Chats = {c1, c2}
  OldChats = {c1}
  NewChats = {c2}
  Messages = {m1}
  Shells = {k1, k2}
  MaxPending = 2
  MaxOverdue = 1
  MaxTimeouts = 0
INVARIANT TimerEndsWithShell
