\* Frames of one byte, a queue and a controller of two, and no signal of a frame that is out.
CONSTANTS
  Blocks = {5}
  Total = 5
  Lengths = {1}
  FrameSize = 1
  TxCount = 2
  RxCount = 2
  RxSize = 2
  Mailboxes = 2
  Signals = FALSE
SPECIFICATION FairSpec
PROPERTY BytesLeave
\* All that was written is sent and read.
CHECK_DEADLOCK FALSE
