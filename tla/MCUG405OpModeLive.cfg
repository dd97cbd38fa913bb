CONSTANTS
  F1 = F1
  F2 = F2
  DX = DX
  Bitmask = {F1}
  Single = {DX}
  Timeouts = {0, 1}
  MaxTimeout = 1
  JitterCheck = FALSE
SPECIFICATION Spec
PROPERTY SilenceEndsControl
PROPERTY ImplementsUtcControl
