CONSTANTS
  r1 = r1
  r2 = r2
  t1 = t1
  t2 = t2
  t3 = t3
  Signals = {r1, r2}
  TimerIds = {t1, t2, t3}
  NoTimer = NoTimer
  Duration = 2
SPECIFICATION Spec
INVARIANT PulseFull
