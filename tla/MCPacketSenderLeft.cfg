SPECIFICATION Spec
CONSTANTS
  p1 = p1
  p2 = p2
  p3 = p3
  p4 = p4
  c1 = c1
  c2 = c2
  Packets = {p1}
  Delayed = {}
  Delay = 2
  Clients = {c1, c2}
  To <- ToTwo
  MayIdle = FALSE
  NoSocket = NoSocket
INVARIANT NothingSentToThoseWhoLeft
CHECK_DEADLOCK FALSE
