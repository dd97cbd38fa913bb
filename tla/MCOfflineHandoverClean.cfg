CONSTANTS
  F1 = F1
  DX = DX
  Signals = {F1, DX}
  Threads = {"snmp"}
  Files = {A, B}
  B = B
  A = A
  Content <- MCContent
  Nothing = Nothing
  Broken = Broken
  NoPlan = "none"
  Days = 2
  Times = {0, 1}
  Positions = {0, 1}
SPECIFICATION Spec
INVARIANT StandsDownClean
