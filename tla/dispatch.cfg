SPECIFICATION Spec
CONSTANTS
  NoProvider = NoProvider
  NoRecord = NoRecord
  Absent = Absent
  g1 = g1
  g2 = g2
  p1 = p1
  p2 = p2
  f1 = f1
  f2 = f2
  c1 = c1
  c2 = c2
  x1 = x1
  x2 = x2
  m1 = m1
  w1 = w1
  k1 = k1
  k2 = k2
  s1 = s1
  s2 = s2
  Guids = {g1, g2}
  Keys = {k1, k2}
  Schemas = {s1, s2}
  Providers = {p1, p2}
  Filters = {f1, f2}
  Callbacks = {c1}
  Records = {x1, m1, w1}
  Guid <- TwoGuids
  predicate_ <- Predicates
  EventIds <- NoIds
  Decoders = {c1}
  SchemaGuid <- SchemaGuids
  ProviderId <- ProviderIds
  Type <- Types
  Key <- SchemaKeys
  Id <- Ids
  InitialTdh <- Tdh
  KernelTrace = FALSE
  FromFile = FALSE
  mof_events_enabled_ = TRUE
  wpp_events_enabled_ = FALSE
  MaxSetup = 5
  MaxRecords = 2
  MaxChanges = 1
  MaxFailures = 1
INVARIANTS
  TypeOK
  OneVerdict
  NoSchemaIsContained
  ErrorsReported
  FiltersAreIndependent
  AtMostOnce
  RoutedToOwner
CHECK_DEADLOCK FALSE
