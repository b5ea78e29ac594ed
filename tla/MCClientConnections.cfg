SPECIFICATION Spec
CONSTANTS
  Clients = {c1, c2}
  MaxPackets = 1
  MaxDatagrams = 1
  SocketSetSize = 1
  Udp = Udp
INVARIANTS TypeOK FlagCoversQueues Agreement GoneLeavesNothing
PROPERTIES ImplementsFeed PacketsAreHanded HangUpIsReported StopCompletes
