CONSTANTS
  g1 = g1
  g2 = g2
  Signals = {g1, g2}
  Inverted = {g1}
  FieldOf <- MCFieldOf
  Retries = 0
  DepthLimit = 0
  MaxDepth = 1
SPECIFICATION Spec
PROPERTY UnchangedIsTold
