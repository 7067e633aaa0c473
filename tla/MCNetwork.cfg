CONSTANTS
  ARP_TABLE_SIZE = 2
  IpAddr = {0, 1, 2, 3}
  ZeroIp = 0
  Mac = {0, 1, 2, 3}
  ZeroMac = 0
  NULL = NULL
  notifier = notifier
  user = user
  Page = 4
  OwnIp = 1
  MaxPackets = 2
  MaxCommands = 1
  Commands = {"sendudp", "ip"}
  Kinds = {"reply", "request", "udp"}
  Host = {1}
  SrcPort = {0, 1000, 65535}
  DstPort = {9, 65535}
  Address <- MCAddress
  Payload <- MCPayload
CHECK_DEADLOCK FALSE
SPECIFICATION MCSpec
INVARIANTS
  LatestAddress
  PacketsChecked
  FramesInOrder
  OwnAnswersIntact
PROPERTY
  DpcEnds
