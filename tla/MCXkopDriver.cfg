CONSTANTS
  o1 = o1
  o2 = o2
  i1 = i1
  w1 = w1
  Outputs = {o1, o2}
  Inputs = {i1}
  OutValues = {0, 65537}
  InValues = {0, 1}
  Writers = {w1}
  Batch = 1
  MaxWire = 1
SPECIFICATION Spec
INVARIANT TypeOK
INVARIANT NoLostWakeup
INVARIANT InputsOfThisConnection
PROPERTY RemoteConverges
PROPERTY DeadIsNoticed
