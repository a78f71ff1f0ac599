SPECIFICATION Spec
CONSTANTS
  Packets <- MCPackets
  MaxTxn = 3
  FifoUnits = 2
  BlockUnits = 3
  MaxBlkUnits = 7
  ControlPolls = 2
  BusyPolls = 2
  CommandPolls = 2
  DataPolls = 4
  CardType = "sd"
INVARIANTS TypeOK StatusIsOwn CleanIssue ReadIsOwn WriteIsOwn ErrorsWin
PROPERTIES ContractSpec Returns
CHECK_DEADLOCK FALSE
