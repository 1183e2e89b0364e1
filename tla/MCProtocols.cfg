\* Bytes and blocks, refused starts, flow control in both directions, half duplex lines; and each
\* other component on its instance.
CONSTANTS
  Size = 3
  Lengths = {1, 2}
  Depth = 2
  Ports <- MostPorts
  DirDelay = 3
  Short = 1
  Frames = 3
  NoTrigger = NoTrigger
  TrigIsrDelays = {0}
  TrigTimes = {1, 2}
  TrigFar = 3
  StepDelays = {0, 1, 3}
  StepLongest = 2
  EchoMisses = 3
  LineSlaves = {1, 2}
  LinePolls <- Polls
  LineFaults = 2
  LineIds = 2
  MspQuestions = 3
  MspFaults = 2
  MspRoom = 7
  MspSize = 3
  MspPeriodic = TRUE
SPECIFICATION AllFairSpec
INVARIANTS
  MarkIsTrue TxAwake LineDriven ReleasedInTime AnswersAreOwn
PROPERTIES
  LineServed ReleaseHappens MastersAnswered AnswersLeave EchoesMeasured
\* A stream of packets or questions is one of a bounded number and ends.
CHECK_DEADLOCK FALSE
