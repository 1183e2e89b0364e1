\* A timer removed by its callback in the interrupt while the main context starts it over.
CONSTANTS
  MaxCount = 1
  Targets = {1, 2}
  NewTargets = {}
  IntoInt = {1}
  IntCalls = {"remove"}
  Clears = FALSE
SPECIFICATION Spec
PROPERTIES
  NoFinishAfterRemove
