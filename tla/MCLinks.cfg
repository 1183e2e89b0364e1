\* Every flow control of the UART, a client that reads all there is or leaves bytes, and a
\* transmit buffer that always has room for XON and XOFF or does not; and each other component
\* on its instance.
CONSTANTS
  Size = 5
  Limit = 50
  Flight = 2
SPECIFICATION AllFairSpec
INVARIANTS
  RxAwake
PROPERTIES
  PeerGoesOn TimersEnd StreamsPass TransferEnds LogDrains RequestsEnd
\* A stream of bytes, packets or lines is one of a bounded number and ends.
CHECK_DEADLOCK FALSE
