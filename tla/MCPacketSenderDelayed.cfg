SPECIFICATION Spec
CONSTANTS
  p1 = p1
  p2 = p2
  p3 = p3
  p4 = p4
  c1 = c1
  c2 = c2
  Packets = {p1, p3}
  Delayed = {p3}
  Delay = 2
  Clients = {c1, c2}
  To <- ToTwo
  MayIdle = FALSE
  NoSocket = NoSocket
PROPERTY DelayedIsSent
CHECK_DEADLOCK FALSE
