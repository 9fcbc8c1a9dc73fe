SPECIFICATION BlocksSpec
CONSTANTS
  FIFO_SIZE = 4
  Data = {0, 1, 2}
  Zero = 0
  SEL_WIDTH = 4
INVARIANTS
  TypeOK
  RecountIsLap
  GrantsTwoOldest
PROPERTY
  QueueSpec
