\* Every policy, with either side in the interrupt.
CONSTANTS
  x = x
  c = c
  Size = 4
  Byte <- TwoBytes
  Policies = {"none", "char", "length"}
  ChopChar = c
  ChopLength = 2
  MaxPut = 4
  Linear = {1, 2, 3}
  Word = 65536
SPECIFICATION Spec
INVARIANTS
  NeverLapped
PROPERTIES
  IsByteQueue
  HandedStay
  FillIsThere
  DropsWholeRecords
