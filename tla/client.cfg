SPECIFICATION Spec
CONSTANTS
  n1 = n1
  n2 = n2
  n3 = n3
  MaxCount = 3
  MaxSize = 2
  Names = {n1, n2, n3}
  Hints = {0, 1, 2, 7}
  Layouts <- MCLayouts
  a = a
  b = b
  c = c
  NotBuilt = NotBuilt
  NoSchema = NoSchema
  Debug = TRUE
  MaxAdds = 2
  PropNames = {a, b, c}
  ProcessIds = {5}
  Schemas <- MCSchemas
  Supplies <- MCSupplies
  Texts <- MCTexts
  Received <- MCReceived
  Arguments <- MCArguments
  ContainerIds <- MCContainerIds
  StartKeys <- MCStartKeys
  p1 = p1
  f1 = f1
  t1 = t1
  t2 = t2
  h1 = h1
  h2 = h2
  r1 = r1
  e1 = e1
  e2 = e2
  Idle = Idle
  MProviders = {p1}
  Filters = {f1}
  Disposers = {t1, t2}
  MaxManaged = 8
  Fields = {"OnMetadata", "OnEvent", "OnError"}
  Handlers = {h1, h2}
  Threads = {t1, t2}
  TraceThreads = {r1}
  Records = {e1, e2}
  Exclusive = TRUE
  MaxChanges = 3
  MaxDelegates = 5
  MaxNotified = 2
SYMMETRY Symmetric
INVARIANTS
  TypeOK
  InBounds
  LookupCorrect
  RoundTrip
  PredicatesAgree
  ListsAreChains
  GettersAgree
  ExtendedDataFound
  ContainerIdParsesBack
  FreedOnce
  DisposeFrees
  CarefulIsSafe
  HandlersHear
  RecordIsOwn
PROPERTIES
  PropertiesStay
  ImplementsHandlerList
CHECK_DEADLOCK FALSE
