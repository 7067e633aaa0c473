CONSTANTS
  boot = boot
  c = c
  d = d
  m = m
  r = r
  om = om
  or = or
  NULL = NULL
  Proc = {boot, c, d, m, r}
  Boot = boot
  MAX_READY_QUEUES = 4
  priority <- MCPriority
  Port = {om, or}
  owner <- MCOwner
  ports <- MCPorts
  Request <- MCRequest
  Note <- MCNote
  Irq = {"irq"}
  isr <- MCIsr
  Client = {c, d}
  com = m
  com_reader = r
  com_port = om
  reader_port = or
  COM1_IRQ = "irq"
  CmdLen = 2
  Lens = {0, 1, 3}
SPECIFICATION ComSpec
INVARIANT SecondIsReader
CHECK_DEADLOCK FALSE
