CONSTANTS
  boot = boot
  c1 = c1
  c2 = c2
  srv = srv
  n = n
  o1 = o1
  o2 = o2
  p1 = p1
  p2 = p2
  NULL = NULL
  Proc = {boot, c1, c2, srv, n}
  Boot = boot
  MAX_READY_QUEUES = 4
  priority <- MCPriority
  Port = {o1, o2, p1, p2}
  owner <- MCOwner
  ports <- MCPorts
  Request = {"ask"}
  Note = {"tell"}
  Irq = {"timer", "keyb", "ne2k"}
  isr <- MCIsr
  Casts <- MCCasts
SPECIFICATION Ticking
INVARIANTS
  TypeOK
  ReadyIffQueued
  BlockedOnOnePort
  ReceiverNotMissed
  SlotsMatchWaiters
  OwedByOne
  ReplyAccepted
PROPERTIES
  ImplementsRendezvous
  UrgentRuns
