SPECIFICATION FairSpec
CONSTANTS
  Block = {0, 1, 2}
  BlockSize = 2
  Polls = 2
  Cards = {"V1", "V2", "V2HC"}
  MaxFaults = 2
INVARIANTS
  RightBlock
  BusReleased
  BusyOnlyAfterFailure
PROPERTIES
  Returns
CHECK_DEADLOCK FALSE
