SPECIFICATION RcuSpec
CONSTANTS
  ROB_SIZE = 3
  AREGS = 2
  FRLIST_DEPTH = 4
  MD_QUEUE_DEPTH = 2
  LSU_QUEUE_DEPTH = 2
  LSQ_DEPTH = 2
  Insns <- InsnsQueued
VIEW View
INVARIANTS
  IssuedExactlyOnce
  SourcesFollowProgramOrder
  IssuedWithOperands
  MemoryIssuedInOrder
