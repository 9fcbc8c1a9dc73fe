SPECIFICATION FairSpec
CONSTANTS
  Benches = {"lsu", "cache", "axi", "nblsu", "simulator"}
  LsuTests = 3
  LsuAddrs = {1}
  LsuDelays = {1, 2}
  CacheAccesses = 3
  AxiRequests = 2
  AxiDataLines = {"a", "b"}
  AxiPageLines = {"p"}
  AxiIds = {1, 2}
  AxiDelays = {1, 3}
  AxiBurst = 2
  CsvLines <- FewLines
  CsvLength = 5
  UtRobSize = 3
  UtMemLines = 3
  LogPRegs = {1, 2, 3}
  LogCsrs = {"mtvec", "mhartid"}
  LogValues = {0, 21}
  LogLength = 4
  TraceRobSize = 2
  NbTests = 4
  SimOptions = 3
  Ram = {10}
  Console = 20
  Hole = 30
  Lanes = {0, 1}
  Bytes = {0, 1}
  MaxLatency = 1
  None = None
PROPERTY
  ProgramsEnd
