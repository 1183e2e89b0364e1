\* Two timers that finish in the task, and each other component on its instance.
CONSTANTS
  MaxCount = 2
  Targets = {1}
  NewTargets = {}
  IntoInt = {}
  IntCalls = {"none"}
  Clears = TRUE
  NorPages = {1, 2}
  NorFaults = 2
  RegionSize = 8
  RegionEraseSize = 4
  RegionProgramSize = 2
  Chunks = {1, 2, 3}
  Records = 2
  PulseSize = 4
  PulseWraps = 4
  PulseEdges = 5
  PulseResets = 1
  PulseValues = {"average"}
  ValveSize <- Sizes
  ValveOnTime = 1
  ValveDelays = {0, 2}
  ValveDirs = {"left"}
  ValveTwoPoint = TRUE
  ValveLate = 1
  ValveNever = 100
  KeyHold = 2
  KeyDouble = 8
  KeyLong = 11
  KeyDelay = 9
  KeyPeriod = 2
  KeyMaxGap = 2
  KeyOldest = 13
  KeyPresses = 4
  BusBytes = 4
  BusRxSize = 2
  BusFaults = 2
  FdBytes = 2
  FdLookIdle = {2}
  FdWrites = 2
  FdSize = 2
  FdTxSize = 1
  FdFaults = 1
  CanBlocks = {3, 4}
  CanTotal = 7
  CanLengths = {1, 2, 4}
  CanFrameSize = 4
  CanTxCount = 1
  CanRxCount = 2
  CanRxSize = 4
  CanMailboxes = 2
  CanSignals = TRUE
  ListTasks = 2
  ListTimers = 2
  XmodemStart = "C"
  XmodemPackets = 2
  XmodemFaults = 1
  XmodemRetries = 3
  XmodemLate = TRUE
  XmodemQueue = 2
  GpsIds = {1, 2}
  GpsSize = 2
  GpsRequests = 2
  GpsFaults = 1
  GpsDetaches = 1
  LogSize = 5
  LogTxSize = 3
  LogBudget = 1
  LogLoads <- LineLoads
SPECIFICATION AllSpec
VIEW WithoutHistory
INVARIANTS
  TimersKept NoStrayRun ExchangesTrue StreamsTrue ValvesInTime AnswersAreTrue
  Consistent LogKept PressesTold TreeKept
PROPERTIES
  DumpAsCaptured FramesTaken
\* The edges of a pulse and what is printed are of a bounded number and end, as a transfer does.
CHECK_DEADLOCK FALSE
