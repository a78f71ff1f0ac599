SPECIFICATION Spec
CONSTANTS
  PllRequests <- MCPllRequests
  FMin = 15000
  FMax = 38000
  ParentRate = 260
  FractionBits = 14
  PcwBits = 22
  SourceRates <- MCSourceRates
  CardRates <- MCCardRates
CHECK_DEADLOCK FALSE
INVARIANTS PllRateKept CardRateKept TablesSound
