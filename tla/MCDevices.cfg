CONSTANTS
  boot = boot
  cl = cl
  cm = cm
  rd = rd
  om = om
  or = or
  NULL = NULL
  Proc = {boot, cl, cm, rd}
  Boot = boot
  MAX_READY_QUEUES = 4
  priority <- MCPriority
  Port = {om, or}
  owner <- MCOwner
  ports <- MCPorts
  Request <- MCRequest
  Note <- MCNote
  Irq = {"irq4"}
  isr <- MCIsr
  Client = {cl}
  com = cm
  com_reader = rd
  com_port = om
  reader_port = or
  COM1_IRQ = "irq4"
  CmdLen = 2
  Lens = {0, 1, 3}
  BytesPerSec = 4
  SecPerClus = 1
  RootDirSecs = 1
  TotalClusters = 4
  FatSize = 3
  RsvdSecCnt = 1
  Values = {0, 2748, 4095, 3, 65535}
  NumFcb = 2
  Lengths = {2}
  Places = {3}
  MaxSize = 6
  Bases <- MCBases
  Exts <- MCExts
SPECIFICATION MCSpec
INVARIANTS
  AnswerComplete
  EntriesKept
  NamesFound
  FilesIntact
  VolumeInOrder
PROPERTY EachCommandAnswered
