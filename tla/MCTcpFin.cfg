SPECIFICATION FairSpec
CONSTANTS
  SeqMod = 16
  OurISN = 3
  PeerISN = 14
  MSS = 1
  RxSpace = 1
  PeerMSS = 1
  TxLen = 1
  RxLen = 1
  TxSpace = 1
  AppCloses = {}
  PeerCloses = TRUE
  Faults = {}
  MaxFaults = 0
  MaxToUs = 2
  MaxToPeer = 2
PROPERTY FinIsAccepted
CHECK_DEADLOCK FALSE
