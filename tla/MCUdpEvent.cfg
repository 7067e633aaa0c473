CONSTANTS
  boot = boot
  kn = kn
  nn = nn
  ep = ep
  sh = sh
  ch = ch
  oe = oe
  os = os
  oc = oc
  NULL = NULL
  Proc = {boot, kn, nn, ep, sh}
  Boot = boot
  MAX_READY_QUEUES = 4
  priority <- MCPriority
  Port = {oe, os}
  owner <- MCOwner
  ports <- MCPorts
  Request = {}
  Note = {"&em_msg", "&focus_out", "&focus_change", "&msg"}
  Irq = {"irq1", "irq2"}
  isr <- MCIsr
  keyb_notifier = kn
  em_process = ep
  net_notifier = nn
  Listener = {sh}
  shell = sh
  em = oe
  UdpListener = {sh}
  KEYB_IRQ = "irq1"
  NE2K_IRQ = "irq2"
  MAX_LISTENERS = 2
  Keys = {"x"}
  MaxKeys = 0
SPECIFICATION EmSpec
INVARIANT
  EventIsSane
