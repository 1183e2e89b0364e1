\* A realtime task and an external one under each of the clients.
CONSTANTS
  r = r
  a = a
  t = t
  Idle = Idle
  NoTask = NoTask
  Ring <- RingRA
  Timers <- NoTimers
  Realtime = r
  Mode <- ModesExternal
  DefaultPeriod <- PeriodsAlone
  IdlePeriod = 2
  MaxSkip <- NoBound
  MaxRun <- RunsA2
  Returns <- ReturnsTwo
  Cost = 1
  GuardMin = 1
  GuardMax = 2
  GuardUp = 1
  GuardDown = 1
  Clients <- AllClients
  Cap = 10
  Forever = 99
SPECIFICATION Spec
INVARIANTS
  SlackProtectsRelease
  HeldBackBounded
PROPERTIES
  NotReleasedEarly
  RequestsKept
