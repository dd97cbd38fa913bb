CONSTANTS
  F1 = F1
  F2 = F2
  DX = DX
  Bitmask = {F1, F2}
  Single = {DX}
  Timeouts = {1}
  MaxTimeout = 1
  JitterCheck = TRUE
SPECIFICATION Spec
INVARIANT TypeOK
INVARIANT BitmaskOff
PROPERTY AntiDrop
PROPERTY CommandTaken
PROPERTY OneStepUp
