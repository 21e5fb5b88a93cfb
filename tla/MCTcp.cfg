SPECIFICATION FairSpec
CONSTANTS
  SeqMod = 16
  OurISN = 13
  PeerISN = 14
  MSS = 1
  RxSpace = 1
  PeerMSS = 1
  TxLen = 2
  RxLen = 2
  TxSpace = 2
  AppCloses = {"shutdown", "afterSend"}
  PeerCloses = TRUE
  Faults = {"lose", "repeat", "overtake", "die"}
  MaxFaults = 1
  MaxToUs = 3
  MaxToPeer = 2
INVARIANTS
  InOrder
  AckedIsThere
PROPERTIES
  Delivered
  Closes
CHECK_DEADLOCK FALSE
