CONSTANTS
  MAX_PROCS = 4
  MAX_PORTS = 5
  MAX_READY_QUEUES = 2
  NULL = NULL
  Key = {"a", "quote", "lshift", "rshift", "ctrl", "rctrl", "alt", "caps", "num", "up", "keypad8", "enter", "slash", "pause", "print"}
  Fingers = 3
  Configurations = {1, 3}
  detected_time_interval = 214
  Tries = 1
SPECIFICATION MCSpec
INVARIANTS
  PoolsIntact
  RunsOnlyComplete
  KeysDecoded
  LineShown
  WindowsApart
  BackWithWagon
PROPERTY NoContactMissed
CHECK_DEADLOCK FALSE
