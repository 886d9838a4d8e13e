SPECIFICATION FairSpec
CONSTANTS
  MaxSignals = 2
INVARIANTS FlickerFree IrqOnlyWhileNeeded
PROPERTIES PanReturns
