\* Two tasks, and a timer callback on their own, with fairness.
CONSTANTS
  r = r
  a = a
  t = t
  Idle = Idle
  NoTask = NoTask
  Ring <- RingRA
  Timers <- OneTimer
  Realtime = r
  Mode <- Modes
  DefaultPeriod <- PeriodsBoth
  IdlePeriod = 2
  MaxSkip <- Bounds
  MaxRun <- RunsA2
  Returns <- ReturnsTwo
  Cost = 1
  GuardMin = 1
  GuardMax = 2
  GuardUp = 1
  GuardDown = 1
  Clients <- NoClient
  Cap = 10
  Forever = 99
SPECIFICATION FairSpec
PROPERTIES
  DueTaskRuns
  TimersRun
