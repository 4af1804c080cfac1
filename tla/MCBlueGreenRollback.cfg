SPECIFICATION Spec
CONSTANTS
  None = None
  MaxVersion = 4
INVARIANT RestoredSlotRuns
