SPECIFICATION LiveSpec
CONSTANTS
  ROB_SIZE = 2
  AREGS = 2
  FRLIST_DEPTH = 3
  MD_QUEUE_DEPTH = 2
  LSU_QUEUE_DEPTH = 2
  LSQ_DEPTH = 1
  Insns <- InsnsLive
PROPERTY
  EveryEntryLeaves
