CONSTANTS
  k1 = k1
  k2 = k2
  c1 = c1
  f1 = f1
  f2 = f2
  f3 = f3
  Keys = {k1, c1}
  CustomKeys = {c1}
  RefreshKeys <- OneKeyRefreshed
  Configs = {a, b}
  ActiveConfigs = {a}
  Fetchers = {f1, f2, f3}
  MaxFetches = 2
  MaxEntries = 1
  TTL = 2
  NegativeTTL = 1
  Window = 2
SPECIFICATION Spec
INVARIANTS
  SingleFlight
  NoOvertaking
PROPERTIES
  ImplementsPermits
  ForeignFades
  NoLockout
