\* One of four programs submitted: one that beats and asks to be woken, one that
\* beats, one that beats behind a shell, and a normal one.  Two failures, or one
\* and a message taken twice.
SPECIFICATION FairSpec
CONSTANTS
  Controlled = {c1, b1, w1}
  Normal = {n1}
  Sleepers = {c1}
  Wrapped = {w1}
  MaxPid = 3
  MaxStarts <- MCMaxStarts
  MaxSubmitted = 1
  MaxFaults = 2
  QLEN = 2
  Timeout = 3
  HeartbeatPeriod = 1
  ControlledPeriod = 1
  NormalPeriod = 3
  TimesvcPeriod = 1
  WakeupTime = 3
  ClientSleep = 3
  EntrySize = 600
INVARIANTS TypeOK OneCopy CursorsAreLinked
PROPERTIES HealthyNeverKilled LostIsReplaced SleeperIsWoken
