\* A sensor that answers each time, started and stopped.
CONSTANT
  Misses = 0
SPECIFICATION Spec
INVARIANT StopIsFinal
