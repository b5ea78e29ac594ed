SPECIFICATION Spec
CONSTANTS
  p1 = p1
  p2 = p2
  p3 = p3
  p4 = p4
  c1 = c1
  c2 = c2
  Packets = {p1, p2, p3, p4}
  Delayed = {p3, p4}
  Delay = 2
  Clients = {c1}
  To <- ToOne
  MayIdle = TRUE
  NoSocket = NoSocket
INVARIANTS TypeOK NoSleepOverPackets
PROPERTIES KeepsOrder ImmediateIsSent
CHECK_DEADLOCK FALSE
