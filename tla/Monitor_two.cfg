\* Two controlled programs: two entries, two threads.
SPECIFICATION Spec
CONSTANTS
  Controlled = {c1, c2}
  Normal = {}
  Sleepers = {}
  Wrapped = {}
  MaxPid = 3
  MaxStarts <- MCMaxStarts
  MaxSubmitted = 2
  MaxFaults = 1
  QLEN = 2
  Timeout = 2
  HeartbeatPeriod = 1
  ControlledPeriod = 1
  NormalPeriod = 2
  TimesvcPeriod = 1
  WakeupTime = 2
  ClientSleep = 3
  EntrySize = 600
PROPERTIES EntryIsItsThreads
