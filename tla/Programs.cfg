SPECIFICATION Spec
CONSTANTS
  Benches = {"lsu", "l1d", "cache", "doubles", "words", "axi", "nblsu", "dcache", "tracelog", "backend", "memory", "simulator"}
  LsuTests = 4
  LsuAddrs = {1, 2}
  LsuDelays = {1}
  CacheAccesses = 3
  AxiRequests = 3
  AxiDataLines = {"a", "b"}
  AxiPageLines = {"p"}
  AxiIds = {1, 2}
  AxiDelays = {1, 3}
  AxiBurst = 2
  CsvLines <- FewLines
  CsvLength = 5
  UtRobSize = 3
  UtMemLines = 3
  LogPRegs = {1, 2, 3}
  LogCsrs = {"mtvec", "mhartid"}
  LogValues = {0, 21}
  LogLength = 4
  TraceRobSize = 2
  NbTests = 5
  SimOptions = 3
  Ram = {10}
  Console = 20
  Hole = 30
  Lanes = {0, 1}
  Bytes = {0, 1}
  MaxLatency = 1
  None = None
INVARIANTS
  ProgramsTypeOK RightDevicesPass InFlightAgrees AccessesOnce MemoriesAgree
  AxiInOrder LogsAreProgram BackendServed SimulatorRuns
  AckedOnce LoadsSeeStores FetchesFresh
