SPECIFICATION Spec
CONSTANTS
  INVALID = INVALID
  ZERO = ZERO
  NoSession = NoSession
  o1 = o1
  o2 = o2
  n1 = n1
  n2 = n2
  r1 = r1
  r2 = r2
  s1 = s1
  e1 = 1
  e2 = 2
  Threads = {r1, r2}
  Names = {n1, n2}
  Traces <- TwoTraces
  Sessions = {1, 2}
  Handles = {11, 12, 13, 14, 15, 16, 17, 18}
  Name <- TwoNames
  FileTraces = {o2}
  KernelTraces = {o2}
  RundownTraces = {o1, o2}
  Admin = {}
  Runners <- TwoThreads
  Stoppers <- TwoThreads
  Careful = {o1, o2}
  Ops = {"start", "open", "process", "stop", "destroy"}
  InitialSession <- BothRunning
  MaxCalls = 2
  MaxEvents = 1
  MaxOutside = 1
INVARIANTS
  NoHandleLeak
  FallbackConsumes
CHECK_DEADLOCK FALSE
