SPECIFICATION Spec
CONSTANTS
  p1 = p1
  p2 = p2
  k1 = k1
  k2 = k2
  f1 = f1
  Unborn = Unborn
  Unmade = Unmade
  None = None
  Providers = {p1, p2}
  Guids = {1, 2}
  Keywords = {k1, k2}
  Levels <- SomeLevels
  Flags = {f1}
  EventIds = {0, 1}
  Lists = {{1}}
  Events <- SomeEvents
  MaxCalls = 7
  KProviders = {p1, p2}
  Kinds <- AllKinds
  Managed = FALSE
  RawMasks <- SomeMasks
  MaxKernelCalls = 6
SYMMETRY Symmetric
INVARIANTS
  SettingsTypeOK
  LossesExplained
  RundownReaches
  MasksExact
  KernelEventsHeard
  OldSystemsServed
CHECK_DEADLOCK FALSE
