CONSTANTS
  u1 = u1
  o1 = o1
  s1 = s1
  s2 = s2
  A = A
  B = B
  UnitList <- MCUnitList
  Uris = {u1}
  Outputs = {o1}
  Named = {o1}
  UriOf <- MCUriOf
  MaxPush = 2
  MaxEvents = 1
  MaxSocket = 1
  MaxPage = 1
  Signals = {s1, s2}
  Latch = 3
  MaxLate = 1
  MaxAsks = 2
  CrashLimit = 2
  t1 = t1
  t2 = t2
  CommandThreads = {t1, t2}
  MaxQueue = 2
  MaxStream = 1
SPECIFICATION Spec
INVARIANT TypeOK
INVARIANT OutputsTold
INVARIANT StartedByHand
INVARIANT AnyAgrees
INVARIANT AnyBacked
INVARIANT SettingsFollow
INVARIANT EditsKept
PROPERTY InputsFollow
PROPERTY OutputsFollow
PROPERTY ImplementsModeView
PROPERTY TrackerFollows
PROPERTY PageFollows
PROPERTY NeverHeldUp
PROPERTY PulseHeld
PROPERTY DimFollows
