SPECIFICATION FairSpec
CONSTANTS
  INVALID = INVALID
  ZERO = ZERO
  NoSession = NoSession
  o1 = o1
  o2 = o2
  n1 = n1
  n2 = n2
  r1 = r1
  r2 = r2
  s1 = s1
  e1 = 1
  e2 = 2
  Threads = {r1, s1}
  Names = {n1}
  Traces <- OneTrace
  Sessions = {1, 2, 3}
  Handles = {11, 12, 13}
  Name <- OneName
  FileTraces = {}
  KernelTraces = {}
  RundownTraces = {o1}
  Admin = {}
  Runners <- OneRunner
  Stoppers <- OneStopper
  Careful = {o1}
  Ops = {"start", "open", "process", "stop", "destroy"}
  InitialSession <- AnotherRunning
  MaxCalls = 2
  MaxEvents = 1
  MaxOutside = 0
PROPERTIES
  StopClosesHandle
CHECK_DEADLOCK FALSE
