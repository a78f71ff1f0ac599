SPECIFICATION Spec
CONSTANTS
  Clock <- MCClock
  Type <- MCType
  Parents <- MCParents
  Inverted = {}
  StatusOnly = {}
  ResetBar = {"AP_MSDCPLL"}
  SelValues = {0, 1}
  NoClock = "none"
  NumberOfHosts = 2
  Preserved = {0}
  FullWidth <- MCFullWidth
  MaxRetry = 2
  Sel <- MCSel
  HostClocks <- MCHostClocks
  SourceClocks <- MCSourceClocks
CHECK_DEADLOCK FALSE
INVARIANT WidthsAgree
