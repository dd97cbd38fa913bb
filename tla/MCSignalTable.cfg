CONSTANTS
  force = force
  shared = shared
  input = input
  mova = mova
  ug405 = ug405
  offline = offline
  iobus = iobus
  movaConn = movaConn
  ug405Conn = ug405Conn
  offlineConn = offlineConn
  driverThread = driverThread
  Signals <- MCSignals
  Raw = {0, 2}
  Services <- MCServices
  Threads = {movaConn, ug405Conn, driverThread}
  ServiceOf <- MCServiceOf
  DriverThreads = {driverThread}
  Configured <- MCConfigured
  Inverted = {force}
  Scale <- MCScale
  Subscribers <- MCSubscribers
SPECIFICATION Spec
INVARIANT TypeOK
INVARIANT MirrorCoherent
PROPERTY ConfiguredOwnersOnly
