SPECIFICATION RobSpec
CONSTANTS
  ROB_SIZE = 3
  AREGS = 2
  FRLIST_DEPTH = 4
  Insns <- InsnsOneReg
VIEW View
INVARIANTS
  RobContiguous
  HandshakeAgrees
  PhysicalRegistersConserved
  RollbackWindow
PROPERTIES
  PreciseCommit
