SPECIFICATION RobSpec
CONSTANTS
  ROB_SIZE = 2
  AREGS = 3
  FRLIST_DEPTH = 4
  Insns <- InsnsTwoRegs
VIEW View
INVARIANTS
  RobTypeOK
  RenameFollowsProgramOrder
  PhysicalRegistersConserved
  RollbackWindow
  FreeListNeverUnderflows
PROPERTIES
  PreciseCommit
