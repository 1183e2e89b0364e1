\* The receiver's application cancels on a line without a fault.
CONSTANTS
  Start = "C"
  Packets = 3
  Faults = 0
  Retries = 3
  Late = FALSE
  MaxQueue = 3
SPECIFICATION Spec
INVARIANT CancelEnds
\* A transfer ends.
CHECK_DEADLOCK FALSE
