SPECIFICATION Spec
CONSTANTS
  PRegs = {1, 2, 3}
  RobSize = 3
  Length = 3
  Units = {"alu1", "alu2", "md", "lsu", "csru"}
  CsrUnit = "csru"
  Csrs = {"mtvec", "mhartid"}
  Values = {0, 21}
  Kinds = {"alu", "load", "store"}
  Width = 2
  None = None
  IdleShows = {0, 1, 2, 3}
INVARIANT CopyInSync
