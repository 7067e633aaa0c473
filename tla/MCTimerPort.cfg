CONSTANTS
  boot = boot
  a = a
  b = b
  c = c
  t = t
  n = n
  ta = ta
  NULL = NULL
  Proc = {boot, a, b, c, t, n}
  Boot = boot
  MAX_READY_QUEUES = 4
  priority <- MCPriority
  Port = {ta}
  owner <- MCOwner
  ports <- MCPorts
  Request <- MCRequest
  Note <- MCNote
  Irq = {"irq"}
  isr <- MCIsr
  timer_process = t
  timer_notifier = n
  Sleeper = {b}
  Busy = {c}
  timers = ta
  TIMER_IRQ = "irq"
  pcb <- MCPcb
  Ticks = {1}
SPECIFICATION TimerSpec
INVARIANTS
  PortIsValid
