\* Three lines that push out what a dump has not sent yet, the last of it among them.
CONSTANTS
  Size = 5
  TxSize = 3
  Budget = 2
  Loads <- DumpLoads
SPECIFICATION Spec
INVARIANT DumpInBuffer
\* What is printed and typed is of a bounded number and ends.
CHECK_DEADLOCK FALSE
