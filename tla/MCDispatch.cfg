CONSTANTS
  boot = boot
  a = a
  b = b
  c = c
  d = d
  n = n
  NULL = NULL
  Proc = {boot, a, b, c, d, n}
  Boot = boot
  Notifier = {n}
  MAX_READY_QUEUES = 3
  priority <- MCPriority
SPECIFICATION Spec
INVARIANTS
  TypeOK
  QueuesIntact
  ActiveIsReady
  ElectsTop
PROPERTIES
  DispatchesTop
  ImplementsScheduler
