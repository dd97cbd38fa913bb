CONSTANTS
  g1 = g1
  g2 = g2
  Signals = {g1}
  Inverted = {g1}
  FieldOf <- MCFieldOf
  Retries = 0
  DepthLimit = 1
  MaxDepth = 3
SPECIFICATION Spec
INVARIANT TypeOK
PROPERTY InstationFollows
PROPERTY BacklogDrops
