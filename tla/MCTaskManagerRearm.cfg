\* A realtime task without a period that asks for its next release in every run.
CONSTANTS
  r = r
  a = a
  t = t
  Idle = Idle
  NoTask = NoTask
  Ring <- RingRA
  Timers <- NoTimers
  Realtime = r
  Mode <- Modes
  DefaultPeriod <- PeriodsTriggered
  IdlePeriod = 2
  MaxSkip <- NoBound
  MaxRun <- RunsA2
  Returns <- ReturnsZero
  Cost = 1
  GuardMin = 1
  GuardMax = 2
  GuardUp = 1
  GuardDown = 1
  Clients <- OnlyRearm
  Cap = 10
  Forever = 99
SPECIFICATION FairSpec
PROPERTIES
  DueTaskRuns
